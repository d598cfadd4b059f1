SPECIFICATION Spec
CONSTANTS
    MaxId = 4
    Dcs = {1, 2}
    kDcShift = 10
    Shifts = {0, 1}
    Targets = {0, 12}
    MaxSends = 2
    FirstMainDc = 1
    Migrations = {}
    MaxErrors = 2
INVARIANT WaitersAreServed
CHECK_DEADLOCK FALSE
