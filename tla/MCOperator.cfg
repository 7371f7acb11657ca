CONSTANTS
    Specs <- MCSpecs
    Never = Never
    Absent = Absent
    MaxEdits = 3
    MaxCrashes = 1
SPECIFICATION FairSpec
INVARIANTS ReferencesResolve CompleteIsApplied
PROPERTIES LatestSpecHandled EverythingCollected
CHECK_DEADLOCK FALSE
