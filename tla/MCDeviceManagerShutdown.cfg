SPECIFICATION FairSpec
CONSTANTS
    d1 = d1
    r1 = r1
    b1 = b1
    b2 = b2
    b3 = b3
    listener = listener
    heartbeat = heartbeat
    main = main
    None = None
    Ids = {d1}
    Requests = {r1}
    Listener = listener
    Heartbeat = heartbeat
    Main = main
    MayShutdown = TRUE
    Brokers = {b1, b2, b3}
    MayHang = {}
    MaxBump = 1
    MaxRev = 1
    Outcomes = {"err"}
PROPERTY ShutdownTerminates
CHECK_DEADLOCK FALSE
