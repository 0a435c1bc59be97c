SPECIFICATION FairSpec
CONSTANTS
    a1 = a1
    b1 = b1
    books = books
    states = states
    reader = reader
    other = other
    Streams = {books, states}
    KindOf <- Kinds
    AssetsOf <- Assets
    Actors = {reader, other}
    Jobs <- JobsOf
    CanClose = {books}
    Cap = 1
    ErrCap = 1
INVARIANTS
    NeverPanics
    MissesNoticed
    LastReportCurrent
    CloseLetsGo
PROPERTIES
    CloseReachesStreams
\* Everything comes to an end.
CHECK_DEADLOCK FALSE
