CONSTANTS
    Requests = {1, 2}
    WithCallback = {1, 2}
    Large = {}
    IdsBufferSize = 12
    Errors = {"delay", "now"}
    BadMsgs = {"resend", "fatal"}
    StartClock = 0
    MaxIds = 12
    MaxDisturbances = 2
SPECIFICATION MCSpec
INVARIANTS
    AnswersMatch
    ReplacesUnderLock
PROPERTIES
    ContainersValid
CHECK_DEADLOCK FALSE
