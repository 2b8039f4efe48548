SPECIFICATION Spec
CONSTANTS
    Strings = {"0", "t"}
    Unreadable = {"0"}
    Ints <- MCInts
    Floats = {"nan", "negative", "subnano", "ordinary", "huge"}
    Policies = {0, 2}
    Topics = {"", "0", "t"}
    I32Mod = 16
    U64Mod = 64
    MaxSets = 2
INVARIANTS
    TypeOK
    SettingsArrive
    ReconnectAsAsked
    AbortsOnlyOnOversized
    RequestsArrive
