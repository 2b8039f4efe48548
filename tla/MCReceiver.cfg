SPECIFICATION Spec
CONSTANTS
    Threads = {t1, t2, t3}
    NoThread = NoThread
    Kinds = {"sub", "group", "stream"}
    MaxCounts <- MCMaxCounts
    BatchCap = 2
    UsizeMod = 65536
    MaxMsgs = 3
    SendCap = 1
    StreamId = 4
SYMMETRY ThreadSymmetry
INVARIANTS
    TypeOK
    LockInv
    ExactlyOnce
    BatchBounded
    EndIsFinal
