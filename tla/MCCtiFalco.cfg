CONSTANTS
    s1 = s1
    none = none
    x1 = x1
    end1 = end1
    f1 = f1
    p1 = p1
    alert = alert
    Sessions <- MCSessions
    Events <- MCEvents
    SessionOf <- MCSessionOf
    Fingerprint <- MCFingerprint
    Evidence <- MCEvidence
    AlertKeys = {alert}
    Requires <- MCRequires
    MaxSessions = 1
    ProcessedCap = 2
    ClosedCap = 2
    EvictedCap = 1
    NoSession = none
    Ends = {end1}
    Keyed = {x1, end1}
    Rejected = {}
    Choking = {}
    Local = {}
    FalcoAlerts = {f1}
    Suspects <- MCSuspects
    BatchSize = 1
    MaxDeliver = 2
    MaxFaults = 2
SPECIFICATION Spec
INVARIANT EscapeIsBacked
PROPERTY EscapeSticks
CHECK_DEADLOCK FALSE
