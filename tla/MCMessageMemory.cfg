SPECIFICATION Spec
CONSTANTS
    Addrs = {a1, a2, a3, a4, a5, a6, a7}
    Null = Null
    MaxBatch = 2
INVARIANTS
    TypeOK
    HeapOwned
