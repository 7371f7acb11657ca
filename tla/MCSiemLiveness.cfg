CONSTANTS
    events = events
    alerts = alerts
    e1 = e1
    a1 = a1
    Streams <- MCStreams
    Messages <- MCMessages
    StreamOf <- MCStreamOf
    BatchSize = 1
    MaxRetries = 1
    MaxDeliver = 2
    MaxRestarts = 1
    MaxLost = 1
    FailureThreshold = 1
    SuccessThreshold = 1
    DlqFails = TRUE
    Unbound = {}
SPECIFICATION FairSpec
PROPERTY EveryMessageSettles
CHECK_DEADLOCK FALSE
