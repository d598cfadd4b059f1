CONSTANTS
    Requests = {1, 2}
    WithCallback = {1}
    Large = {}
    IdsBufferSize = 12
    Errors = {"fail", "delay"}
    BadMsgs = {"resend", "reset"}
    StartClock = 20
    MaxIds = 9
    MaxDisturbances = 2
SPECIFICATION MCSpec
INVARIANTS
    RequestNotLost
PROPERTIES
    ContainersValid
CHECK_DEADLOCK FALSE
