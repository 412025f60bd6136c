SPECIFICATION Spec
CONSTANTS
    Messages <- AllMessages
    MaxMsgs = 3
    BodyLen = 2
INVARIANTS
    DispatchedInOrder
    OwnBody
    OneFinalResponse
    NoneForgotten
    ReusedOnlyIfPipelined
CHECK_DEADLOCK FALSE
