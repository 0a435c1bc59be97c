SPECIFICATION Spec
CONSTANTS
    c1 = c1
    c2 = c2
    c3 = c3
    Callers <- MCCallers
    MaxFailures = 2
    HalfOpenMaxReqs = 2
INVARIANT SlotsAccounted
