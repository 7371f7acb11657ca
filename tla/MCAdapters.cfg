CONSTANTS
    Sources = {"cowrie", "dionaea", "tpot"}
    Native <- MCNative
    Capacity = 1
    MaxLines = 4
SPECIFICATION FairSpec
INVARIANTS EveryEventAccounted StreamFollowsLog
PROPERTY ShutdownEndsOrSticks
CHECK_DEADLOCK FALSE
