SPECIFICATION FairSpec
CONSTANTS
    s1 = s1
    s2 = s2
    Callers <- TwoCallers
    Reconnect = TRUE
    ReconnectMax = 2
    Ping = FALSE
    Closes = FALSE
    Deauths = FALSE
    MaxDials = 5
    MaxFaults = 3
    MaxCalls = 3
INVARIANT OldContextsCancelled
PROPERTY BrokenIsReplaced
PROPERTY EnsureReturns
PROPERTY ImplementsSlot
\* The client stops when it is closed or has given up.
CHECK_DEADLOCK FALSE
