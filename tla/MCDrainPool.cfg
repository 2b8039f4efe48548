SPECIFICATION Spec
CONSTANTS
    Scripts = {"pool_multiplex"}
    NumConsumers = 2
    NumStreams = 2
    Messages <- MCFewMessages
    Every = 1
    BatchSize = 2
    LightEvery = 1
    Window = 1
    MaxRetries = 1
PROPERTY CleanupKeepsVerdict
