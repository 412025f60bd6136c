SPECIFICATION Spec
CONSTANTS
    Messages <- BodyMessages
    MaxMsgs = 2
    BodyLen = 2
INVARIANT
    BodyNotLeftBehind
CHECK_DEADLOCK FALSE
