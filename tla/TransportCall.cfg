SPECIFICATION FairSpec
CONSTANTS
    c1 = c1
    c2 = c2
    Callers <- MCCallers
    MaxFailures = 1
    HalfOpenMaxReqs = 2
    Capacity = 1
    Interval = 2
    MaxRetries = 1
INVARIANTS
    RateBounded
    ClientNeverWedged
PROPERTIES
    RecoveryIsNoticed
    FailureIsNoticed
    CallsEnd
