CONSTANTS
    Requests = {1, 2}
    WithCallback = {1, 2}
    Large = {1}
    IdsBufferSize = 12
    Errors = {"fail", "delay"}
    BadMsgs = {"resend", "reset"}
    StartClock = 0
    MaxIds = 10
    MaxDisturbances = 2
SPECIFICATION MCFairSpec
INVARIANTS
    TypeOK
    RequestNotLost
    NoLostWakeup
    SentUnderItsId
PROPERTIES
    AnsweredNotResent
    RequestsAnswered
CHECK_DEADLOCK FALSE
