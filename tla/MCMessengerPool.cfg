SPECIFICATION FairSpec
CONSTANTS
    w1 = w1
    w2 = w2
    d1 = d1
    d2 = d2
    d3 = d3
    Workers <- MCWorkers
    Deliveries <- MCDeliveries
    Size = 2
INVARIANTS
    TypeOK
    ExclusiveMessenger
    LivePoolIsWhole
PROPERTIES
    CallersFinish
    ImplementsLease
CHECK_DEADLOCK FALSE
