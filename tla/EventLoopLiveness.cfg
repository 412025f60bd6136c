SPECIFICATION FairSpec
CONSTANTS
    Conn = {c1, c2}
    Fd = {f1}
    NoConn = NoConn
    NoFd = NoFd
    Listener = Listener
    SignalPipe = SignalPipe
    MaxEvents = 1
    MaxBacklog = 2
    MaxChunks = 3
    MaxBackends = 0
    PipeCap = 2
PROPERTIES
    InputConsumed
    BacklogAccepted
    ClosedReleased
    SigIntStops
