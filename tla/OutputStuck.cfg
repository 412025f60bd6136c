SPECIFICATION EventSpec
CONSTANTS
    PayloadCap = 3
    SockBuf = 3
    MaxWrite = 4
    MaxBytes = 9
PROPERTY
    QueuedIsSent
CHECK_DEADLOCK FALSE
