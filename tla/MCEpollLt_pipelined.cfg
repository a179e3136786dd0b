SPECIFICATION Spec
CONSTANTS
    a = a
    Conns = {a}
    NoConn = NoConn
    Fds = {1}
    BACKLOG = 2
    BUF_SIZE = 2
    SndCap = 1
    MaxBytes = 4
    Lockstep = FALSE
    ReqMin = 1
    ReqMax = 2
    Window = 4
    HalfClose = FALSE
    Polite = FALSE
    listen_fd = 0
    MAX_FDS = 3
    LOCAL_MAX_EVENTS = 2
    STATS = FALSE
    CtlAddMayFail = FALSE
INVARIANT EchoExact
CHECK_DEADLOCK FALSE
