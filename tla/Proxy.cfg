SPECIFICATION FairSpec
CONSTANTS
    FrontAddr = {1, 2}
    Backend = {b1, b2}
    MaxReq = 2
    MaxPipeline = 2
    MaxGen <- OneReused
    BodyLen = 2
    BackendsFail = TRUE
INVARIANTS
    OwnedOnce
    CallbacksPaired
    AnswersReachTheirClient
PROPERTIES
    Answered
    PoolSpec
CHECK_DEADLOCK FALSE
