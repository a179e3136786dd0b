SPECIFICATION FairSpec
CONSTANTS
    a = a
    b = b
    Conns = {a, b}
    NoConn = NoConn
    Fds = {1, 2}
    BACKLOG = 2
    BUF_SIZE = 3
    SndCap = 1
    MaxBytes = 3
    Lockstep = TRUE
    ReqMin = 1
    ReqMax = 3
    Window = 1
    HalfClose = FALSE
    Polite = FALSE
    listen_fd = 0
    MAX_FDS = 3
    LOCAL_MAX_EVENTS = 2
    STATS = TRUE
    CtlAddMayFail = TRUE
INVARIANT TypeOK
INVARIANT EventsCurrent
INVARIANT NothingDropped
INVARIANT PendingArmed
PROPERTY StatsExact
PROPERTY ImplementsEcho
PROPERTY ServedOrReaped
CHECK_DEADLOCK FALSE
