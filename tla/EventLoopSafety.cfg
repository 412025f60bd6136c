SPECIFICATION Spec
CONSTANTS
    Conn = {c1, c2, c3}
    Fd = {f1, f2}
    NoConn = NoConn
    NoFd = NoFd
    Listener = Listener
    SignalPipe = SignalPipe
    MaxEvents = 2
    MaxBacklog = 2
    MaxChunks = 1
    MaxBackends = 1
    PipeCap = 1
SYMMETRY Interchangeable
INVARIANTS
    TargetsExist
    OwnDescriptor
    RemovalsSound
    NothingLost
PROPERTIES
    DestroyedOnlyWhenIdle
