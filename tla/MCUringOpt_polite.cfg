SPECIFICATION FairSpec
CONSTANTS
    a = a
    b = b
    Conns = {a, b}
    NoConn = NoConn
    Fds = {1, 2}
    BACKLOG = 2
    BUF_SIZE = 2
    SndCap = 2
    MaxBytes = 2
    Lockstep = FALSE
    ReqMin = 1
    ReqMax = 2
    Window = 1
    HalfClose = TRUE
    Polite = TRUE
    listen_fd = 0
    MAX_FDS = 3
    ENTRIES = 2
    Bids = {0, 1, 2, 3}
    DeferTaskrun = TRUE
    RecvMayEnd = TRUE
    MaxNobufs = 1
INVARIANT NothingDropped
INVARIANT OneRecv
PROPERTY ImplementsEcho
PROPERTY EveryByteEchoed
CHECK_DEADLOCK FALSE
