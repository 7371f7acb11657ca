SPECIFICATION Spec
CONSTANTS
    c0 = c0
    c1 = c1
    Contents = {c0, c1}
    Empty = c0
    Names = {"d", "f", "s"}
    Paths <- MCPaths
    Base <- MCBase
    HomeDir <- MCHome
    MaxFiles = 2
    MaxHandles = 1
INVARIANTS TypeOK QuotaHolds WrittenIsSeen
PROPERTIES RelatedPathsOnly RemovalOnlyHides
CHECK_DEADLOCK FALSE
