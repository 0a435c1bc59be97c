SPECIFICATION Spec
CONSTANTS
    a = a
    b = b
    p1 = p1
    p2 = p2
    p3 = p3
    u = u
    Assets = {a, b}
    Streams = {p1, p2}
    Requests = {u}
    AssetsOf <- TwoSharedAndRequest
    Custom = {p2}
    CanClose = {p1, p2}
    GivesUp = TRUE
    Closes = TRUE
    MaxFaults = 2
    MaxResubs = 1
INVARIANTS
    RefsMatchHolders
    KeptAssetsServed
\* The calls come to an end.
CHECK_DEADLOCK FALSE
