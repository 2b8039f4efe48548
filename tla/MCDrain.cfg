SPECIFICATION Spec
CONSTANTS
    Scripts = {"bench", "ordering", "pool_multiplex", "consumer_group", "hol_congestion"}
    NumConsumers = 2
    NumStreams = 2
    Messages <- MCMessages
    Every = 2
    BatchSize = 2
    LightEvery = 1
    Window = 1
    MaxRetries = 1
INVARIANTS
    TypeOK
    ReportsTruthful
    VerdictSound
    FailJustified
    CleanEnd
PROPERTIES
    PollSeesAll
    VerdictKept
