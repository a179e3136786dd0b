SPECIFICATION UringSpec
CONSTANTS
    a = a
    b = b
    Conns = {a, b}
    NoConn = NoConn
    Fds = {1, 2}
    BACKLOG = 2
    BUF_SIZE = 1
    SndCap = 1
    MaxBytes = 1
    Lockstep = FALSE
    ReqMin = 1
    ReqMax = 1
    Window = 1
    HalfClose = FALSE
    Polite = FALSE
    listen_fd = 0
    ENTRIES = 2
    MAX_EVENTS = 4
    AcceptMayFail = FALSE
    MallocMayFail = FALSE
INVARIANT NoRequestDropped
CHECK_DEADLOCK FALSE
