CONSTANTS
    Sessions = {main, media}
    MediaSessions = {media}
    IsCdn = TRUE
    TempKeys = {k1, k2, k3}
    PersistentKeys = {}
    LoadedKey = NoKey
    NoKey = NoKey
    MaxQueue = 2
    MaxDisturbances = 3
SPECIFICATION MCSpec
SYMMETRY KeySymmetry
INVARIANTS
    FlagHasCreator
CHECK_DEADLOCK FALSE
