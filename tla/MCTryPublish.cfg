SPECIFICATION FairSpec
CONSTANTS
    Threads = {t1, t2}
    NoThread = NoThread
    Kinds = {"stream"}
    MaxCounts = {1}
    BatchCap = 2
    UsizeMod = 65536
    MaxMsgs = 1
    SendCap = 1
    StreamId = 4
PROPERTIES
    FireAndForget
