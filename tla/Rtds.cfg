SPECIFICATION FairSpec
CONSTANTS
    k1 = k1
    p1 = p1
    p2 = p2
    u = u
    Keys = {k1}
    Subs = {p1, p2}
    KeyOf <- KeyOfSubs
    NoSub = NoSub
    CanClose = {p1, p2}
    Requests = {u}
    TopicOf <- TopicOfRequests
    Reconnect = TRUE
    ReconnectMax = 1
    Closes = TRUE
    MaxBreaks = 2
INVARIANTS
    
    CloseLeavesNothing
PROPERTIES
    ImplementsBook
    SubscribersAnswered
\* Everything comes to an end.
CHECK_DEADLOCK FALSE
