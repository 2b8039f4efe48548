SPECIFICATION CloneSpec
CONSTANTS
    Handles = {h1, h2, h3}
    Objects = {o1, o2, o3}
    Null = Null
    MaxCalls = 4
    MaxBatch = 2
    SdkMsgSize = 2
    MsgSize = 1
SYMMETRY SessionSymmetry
INVARIANTS
    HandlesLive
