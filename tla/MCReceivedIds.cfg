CONSTANTS
    Ids = {1, 2, 3, 4, 5}
    IdsBufferSize = 2
    NoId = NoId
SPECIFICATION Spec
INVARIANTS
    TypeOK
    HandledOnce
    ResetOnlyIfOvertaken
    AcksHandled
