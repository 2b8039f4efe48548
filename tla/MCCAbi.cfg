SPECIFICATION Spec
CONSTANTS
    Threads = {t1, t2}
    Handles = {h1, h2, h3}
    Null = Null
    PoolSize = 1
    Indices <- MCIndices
    UsizeMod = 65536
    MaxCalls = 6
SYMMETRY AbiSymmetry
INVARIANTS
    TypeOK
    RuntimeThere
    HandlesSound
    ErrorKept
