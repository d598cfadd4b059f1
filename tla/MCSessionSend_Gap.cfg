CONSTANTS
    Requests = {1}
    WithCallback = {1}
    Large = {}
    IdsBufferSize = 12
    Errors = {"now"}
    BadMsgs = {}
    StartClock = 0
    MaxIds = 12
    MaxDisturbances = 2
SPECIFICATION MCSpec
INVARIANTS
    RequestNotLost
CHECK_DEADLOCK FALSE
