CONSTANTS
    Sessions = {s1, s2}
    s1 = s1
    s2 = s2
    None = None
    Keys <- MCKeys
    Cacheable <- MCCacheable
    Snapshot <- DecoySnapshot
    DecoyCap = 1
    GatewayCap = 1
    MaxTexts = 2
SPECIFICATION Spec
PROPERTIES ContextIsAccepted
CHECK_DEADLOCK FALSE
