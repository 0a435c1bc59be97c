SPECIFICATION FairSpec
CONSTANTS
    s1 = s1
    s2 = s2
    Callers <- OneCaller
    Reconnect = TRUE
    ReconnectMax = 2
    Ping = FALSE
    Closes = TRUE
    Deauths = FALSE
    MaxDials = 2
    MaxFaults = 1
    MaxCalls = 1
PROPERTY CloseLeavesNoConn
\* The client stops when it is closed or has given up.
CHECK_DEADLOCK FALSE
