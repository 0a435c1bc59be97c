SPECIFICATION FairSpec
CONSTANTS
    s1 = s1
    s2 = s2
    Callers <- OneCaller
    Reconnect = TRUE
    ReconnectMax = 2
    Ping = TRUE
    Closes = TRUE
    Deauths = TRUE
    MaxDials = 3
    MaxFaults = 1
    MaxCalls = 1
INVARIANTS
    Served
PROPERTY CloseAtRestQuiesces
PROPERTY PingersEndAfterClose
\* The client stops when it is closed or has given up.
CHECK_DEADLOCK FALSE
