SPECIFICATION Spec
CONSTANTS
    a = a
    b = b
    Conns = {a, b}
    NoConn = NoConn
    Fds = {1, 2}
    BACKLOG = 2
    BUF_SIZE = 1
    SndCap = 1
    MaxBytes = 2
    Lockstep = FALSE
    ReqMin = 1
    ReqMax = 2
    Window = 2
    HalfClose = FALSE
    Polite = FALSE
    listen_fd = 0
    MAX_FDS = 2
    ENTRIES = 2
    Bids = {0}
    DeferTaskrun = FALSE
    RecvMayEnd = TRUE
    MaxNobufs = 1
SYMMETRY Symmetry
INVARIANT BuffersConserved
INVARIANT RecvArmed
CHECK_DEADLOCK FALSE
