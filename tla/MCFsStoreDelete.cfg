SPECIFICATION Spec
CONSTANTS
    r1 = r1
    r2 = r2
    r3 = r3
    None = None
    Requests <- MCRequests
    MaxBump = 1
PROPERTY DeletesItsVersion
CHECK_DEADLOCK FALSE
