SPECIFICATION FairSpec
CONSTANTS
    MaxId = 6
    Dcs = {1, 2}
    kDcShift = 10
    Shifts = {0, 1}
    Targets = {0, 12}
    MaxSends = 3
    FirstMainDc = 1
    Migrations = {1, 2}
    MaxErrors = 2
INVARIANTS
    TypeOK
    RegisteredTogether
    HeldOnce
    DependentsWillBeResent
    OneAuthPerDc
    CancelFindsSession
PROPERTY
    RequestsEnd
CHECK_DEADLOCK FALSE
