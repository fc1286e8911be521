SPECIFICATION FairSpec
CONSTANTS
    GroupSize = 2
    PerChannel = 5
    Setups <- MCSetups
INVARIANTS
    TypeOK
    ReportsTheServer
    PollIsComplete
PROPERTY PollsEnd
CHECK_DEADLOCK FALSE
