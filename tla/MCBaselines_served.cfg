SPECIFICATION Spec
CONSTANTS
    a = a
    b = b
    Conns = {a, b}
    NoConn = NoConn
    Fds = {2, 3}
    BACKLOG = 2
    BUF_SIZE = 2
    SndCap = 1
    MaxBytes = 2
    Lockstep = FALSE
    ReqMin = 1
    ReqMax = 2
    Window = 3
    HalfClose = TRUE
    Polite = FALSE
    listen_fd = 0
    INITIAL_POLL_CAP = 1
    ReallocMayFail = TRUE
    SetSizes = {3, 4}
    MAX_EVENTS = 2
    CtlAddMayFail = TRUE
    NoFd = 0
    AcceptMayFail = TRUE
    ThreadMayFail = TRUE
INVARIANT OneThreadEach
INVARIANT TableExact
INVARIANT WatchesAll
INVARIANT NoLostEdge
PROPERTY ImplementsEcho
PROPERTY ServedOrReaped
CHECK_DEADLOCK FALSE
