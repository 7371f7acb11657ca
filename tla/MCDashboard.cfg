CONSTANTS
    NoValue = NoValue
    Sids = {s1, s2, s3}
    Values = {v1, v2}
    Fields = {"source_ip", "username"}
    MaxSessionCache = 2
    QueueSize = 2
    Clients = {c1}
    MaxEvents = 4
    Visits = {w, u1, u2}
    Watched = w
    Hidden <- MCHidden
    Ids = {e1, e2, e3}
    LastStamp = 3
    PageLimit = 1
    MaxRequests = 3
    WindowSeconds = 4
    LastSecond = 10
    Threshold = 3
    RateLimit = 2
    Window = 6
    Gap = 2
    Attempts = 3
    PostTimeout = 2
    MaxTime = 18
SPECIFICATION PartsSpec
INVARIANTS RightlyAttributed SubscribersSeeAll NoneSkipped JudgesRightly
PROPERTIES LimiterKeepsTheLimit KeepsTheLimit
SYMMETRY Symmetry
CHECK_DEADLOCK FALSE
