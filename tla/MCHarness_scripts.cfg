SPECIFICATION HarnessFairSpec
CONSTANTS
    Selected <- ScriptNames
    Servers <- MCServers
    Levels <- MCLevels
    SelectLimit = 1020
    TRIALS = 2
    MayMiss = {"epoll_lt_server"}
    MaxDying = 1
INVARIANTS
    OwnAnswers
    NothingLeft
    TableFaithful
PROPERTIES
    ImplementsCampaign
    Completes
CHECK_DEADLOCK FALSE
