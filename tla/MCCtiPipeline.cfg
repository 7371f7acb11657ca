CONSTANTS
    s1 = s1
    s2 = s2
    none = none
    x1 = x1
    x2 = x2
    end1 = end1
    y1 = y1
    z = z
    bad = bad
    p1 = p1
    alert = alert
    Sessions <- MCSessions
    Events <- MCEvents
    SessionOf <- MCSessionOf
    Fingerprint <- MCFingerprint
    Evidence <- MCEvidence
    AlertKeys = {alert}
    Requires <- MCRequires
    MaxSessions = 1
    ProcessedCap = 2
    ClosedCap = 2
    EvictedCap = 1
    NoSession = none
    Ends = {end1}
    Keyed = {x1, x2, end1}
    Rejected = {z}
    Choking = {bad}
    Local = {y1}
    FalcoAlerts = {}
    Suspects <- MCSuspects
    BatchSize = 1
    MaxDeliver = 2
    MaxFaults = 1
SPECIFICATION Spec
INVARIANTS TypeOK NothingSlipsBy OnceEach
PROPERTY ClosedRowIsFinal
SYMMETRY Symmetry
CHECK_DEADLOCK FALSE
