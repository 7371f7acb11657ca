CONSTANTS
    events = events
    alerts = alerts
    e1 = e1
    e2 = e2
    a1 = a1
    Streams <- MCStreams
    Messages <- MCMessages
    StreamOf <- MCStreamOf
    BatchSize = 2
    MaxRetries = 1
    MaxDeliver = 2
    MaxRestarts = 1
    MaxLost = 1
    FailureThreshold = 1
    SuccessThreshold = 2
    DlqFails = TRUE
    Unbound = {}
SPECIFICATION Spec
INVARIANTS BreakerCountersAgree NothingForgotten ConfirmedOnce
PROPERTY ImplementsDelivery
SYMMETRY Symmetry
CHECK_DEADLOCK FALSE
