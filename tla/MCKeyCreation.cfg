CONSTANTS
    Sessions = {main, media}
    MediaSessions = {media}
    IsCdn = FALSE
    TempKeys = {k1, k2, k3}
    PersistentKeys = {p0, p1}
    LoadedKey = p0
    NoKey = NoKey
    MaxQueue = 2
    MaxDisturbances = 2
SPECIFICATION MCSpec
SYMMETRY KeySymmetry
INVARIANTS
    TypeOK
    SessionAndPrivateAgree
    CreatorOwnsFlag
    InstalledKeysAreBound
    SendsOnlyUnderBoundKey
    SavedKeyCatchesUp
PROPERTY PersistentKeyNotOverwritten
CHECK_DEADLOCK FALSE
