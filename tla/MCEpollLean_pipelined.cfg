SPECIFICATION LeanSpec
CONSTANTS
    a = a
    b = b
    Conns = {a, b}
    NoConn = NoConn
    Fds = {1, 2}
    BACKLOG = 2
    BUF_SIZE = 2
    SndCap = 1
    MaxBytes = 3
    Lockstep = FALSE
    ReqMin = 1
    ReqMax = 3
    Window = 3
    HalfClose = FALSE
    Polite = FALSE
    listen_fd = 0
    MAX_FDS = 3
    LOCAL_MAX_EVENTS = 2
    STATS = TRUE
    CtlAddMayFail = FALSE
    MallocMayFail = TRUE
PROPERTY BlocksAccounted
PROPERTY LossAccounted
CHECK_DEADLOCK FALSE
