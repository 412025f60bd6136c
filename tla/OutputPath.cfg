SPECIFICATION Spec
CONSTANTS
    PayloadCap = 3
    SockBuf = 3
    MaxWrite = 4
    MaxBytes = 9
INVARIANTS
    EveryByteOnce
    OverreadBounded
PROPERTIES
    StreamSpec
CHECK_DEADLOCK FALSE
