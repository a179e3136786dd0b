SPECIFICATION UringFairSpec
CONSTANTS
    a = a
    b = b
    Conns = {a, b}
    NoConn = NoConn
    Fds = {1, 2}
    BACKLOG = 2
    BUF_SIZE = 2
    SndCap = 2
    MaxBytes = 2
    Lockstep = FALSE
    ReqMin = 1
    ReqMax = 1
    Window = 2
    HalfClose = TRUE
    Polite = FALSE
    listen_fd = 0
    ENTRIES = 3
    MAX_EVENTS = 4
    AcceptMayFail = TRUE
    MallocMayFail = TRUE
INVARIANT OneOperation
PROPERTY ImplementsEcho
PROPERTY ServedOrReaped
CHECK_DEADLOCK FALSE
