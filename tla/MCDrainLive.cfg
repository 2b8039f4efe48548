SPECIFICATION FairSpec
CONSTANTS
    Scripts = {"bench", "ordering", "pool_multiplex", "consumer_group"}
    NumConsumers = 2
    NumStreams = 2
    Messages <- MCFewMessages
    Every = 1
    BatchSize = 2
    LightEvery = 1
    Window = 1
    MaxRetries = 1
PROPERTIES
    ParentFinishes
    ReadyIsSeen
