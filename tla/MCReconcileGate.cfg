CONSTANTS
    w1 = w1
    w2 = w2
    Worker <- MCWorker
    Offset <- MCOffset
    MinInterval = 1
    Intervals <- MCIntervals
    Lease = 2
    Skew = 1
    Retries = 2
    StartClock = 1
    MaxClock = 4
    MaxClaims = 3
    MaxRev = 4
SPECIFICATION Spec
INVARIANTS
    ToldProgressIsStored
PROPERTIES
    LeaseIsHonouredWithinSkew
    NoProgressLost
    ScansAreSpaced
CHECK_DEADLOCK FALSE
