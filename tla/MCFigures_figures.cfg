SPECIFICATION MCSpec
CONSTANTS
    Loads <- LoadNames
    NActive = 2
    NIdle = 2
    batch_size = 1
    Size = 2
    MaxReq = 2
    THREAD_COUNTS <- MCThreads
    TRIALS = 3
    ServerUtils = {0, 89996, 95000}
    ClientUtils = {10000, 85004, 90000}
    Readers = {"task4_scenario1", "task4_idle_sweep"}
    SERVERS <- MCServers
    IDLE_LEVELS <- MCLevels
    Rates = {0, 1, 2}
    NumConns = 2
    NumActive = 1
    PAYLOAD_LEN = 2
    MAX_EVENTS_PER_WAIT = 1
    HISTOGRAM_BUCKETS = 3
    LatMax = 3
    MaxBytes = 6
    ConnectMayFail = TRUE
    Corrupts = TRUE
INVARIANT OneOutstanding
INVARIANT ErrorsExact
INVARIANT PercentilesOrdered
INVARIANT TotalExact
INVARIANT ClosedLoop
INVARIANT CrossoverExact
PROPERTY GeneratorReturns
PROPERTY ReadersAgree
CHECK_DEADLOCK FALSE
