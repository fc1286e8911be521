SPECIFICATION Spec
CONSTANTS
    d1 = d1
    r1 = r1
    b1 = b1
    b2 = b2
    b3 = b3
    listener = listener
    heartbeat = heartbeat
    main = main
    None = None
    Ids = {d1}
    Requests = {r1}
    Listener = listener
    Heartbeat = heartbeat
    Main = main
    MayShutdown = FALSE
    Brokers = {b1, b2, b3}
    MayHang = {}
    MaxBump = 1
    MaxRev = 2
    Outcomes = {"ok", "err"}
INVARIANT DeleteStopsCollecting
CHECK_DEADLOCK FALSE
