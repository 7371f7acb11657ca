CONSTANTS
    Home = 50
    Dirs = {50, 51}
    Variables <- MCVariables
    Unset = Unset
    Absent = Absent
    Error = 98
    SudoSays = 96
    Jumble = 95
    IsRoot = FALSE
    Texts <- MCTexts
    Lines <- MCLines
    Filters <- MCFilters
    LoopCap = 3
    MaxPipeDepth = 3
    MaxText = 3
    Sessions = {s1, s2}
    s1 = s1
    s2 = s2
    None = None
    Keys <- MCKeys
    Cacheable <- MCCacheable
    Snapshot <- NoSnapshot
    DecoyCap = 1
    GatewayCap = 1
    MaxTexts = 2
SPECIFICATION CommandsSpec
INVARIANTS LinesAgree FiltersAgree AnswersFit SourceIsOwn
SYMMETRY MCSymmetry
CHECK_DEADLOCK FALSE
