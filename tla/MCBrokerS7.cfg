SPECIFICATION FairSpec
CONSTANTS
    f1 = f1
    f2 = f2
    Frames <- MCFrames
    CountsBadConn = FALSE
    MaxPolls = 2
PROPERTY RetriesEnd
CHECK_DEADLOCK FALSE
