SPECIFICATION Spec
CONSTANTS
    Keys = {k1, k2}
    NoKey = NoKey
    maxBundledRecords = 2
    compactAfterExcess = 1
    MaxWrites = 3
    MaxCrashes = 1
    MaxFails = 1
INVARIANTS
    TypeOK
    CrashKeepsValues
    CompactedAgrees
PROPERTY
    Implements
SYMMETRY KeySymmetry
CHECK_DEADLOCK FALSE
