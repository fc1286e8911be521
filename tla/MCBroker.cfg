SPECIFICATION FairSpec
CONSTANTS
    f1 = f1
    f2 = f2
    Frames <- MCFrames
    CountsBadConn = TRUE
    MaxPolls = 3
INVARIANTS
    TypeOK
    ResultsAreWhole
    DestroyedBetweenPolls
    ResultsInOrder
PROPERTIES
    PollsHandled
    DestroyEnds
    ImplementsStream
CHECK_DEADLOCK FALSE
