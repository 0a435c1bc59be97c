SPECIFICATION PartsSpec
CONSTANTS
    i1 = i1
    i2 = i2
    i3 = i3
    x = x
    c1 = c1
    c2 = c2
    c3 = c3
    c4 = c4
    Initial <- ThreeItems
    Extra = {x}
    Limit = 2
    MaxChanges = 2
    MaxAttempts = 2
    MaxSends = 2
    MaxCacheChanges = 1
    MaxLength = 3
    Clients = {c1, c2, c3, c4}
    Root = c1
    m1 = m1
    m2 = m2
    p1 = p1
    p2 = p2
    k1 = k1
    k2 = k2
    NoKey = NoKey
    Markets = {m1, m2}
    UserStreams = {p1, p2}
    MarketsOf <- OneAndBoth
    ApiKeys = {k1, k2}
    MaxSwitches = 2
    MaxBreaks = 1
    MaxResubs = 2
    Durations = {0, 1, 3, 6, 8, 40}
    Multipliers <- SomeMultipliers
    Limits <- SomeLimits
    LastAttempt = 8
    LongestDuration = 500
    t1 = t1
    t2 = t2
    Calls = {t1, t2}
    Waiting = {t1}
    MaxTries = 2
    MaxRetries = 2
    Skews <- AnySkew
    MaxClock = 4
INVARIANTS
    NothingSkipped
    PromotionMovesBeats
    PlacedOnce
    ReportsAreTrue
    KeysReadBack
    KeysAreTheLastSet
    UserStreamsServed
    PolicyIsFollowed
    RepeatsAreSafe
    RequestsVerify
    KeyIsFound
PROPERTIES
    CancelEnds
\* Loops end.
CHECK_DEADLOCK FALSE
