SPECIFICATION FairSpec
CONSTANTS
    LastUpdate = 4
    Pts <- MCPts
    MaxFails = 1
INVARIANTS
    TypeOK
    NothingSkipped
    PostponedIsPursued
    GapIsPursued
    RequestComes
PROPERTY
    GapsClose
CHECK_DEADLOCK FALSE
