SPECIFICATION Spec
CONSTANTS
    Frames <- AllFrames
    MaxFrames = 3
    HdrLen = 2
    PrefaceLen = 3
    IntMax = 7
    InitWindow = 3
INVARIANTS
    FramesInOrder
    NoFrameLeft
    FramingKept
    AnsweredAndReleased
PROPERTIES
    StreamWindowGrows
CHECK_DEADLOCK FALSE
