CONSTANTS
    Addresses = {a1}
    Users = {u1}
    Connections = {c1, c2, c3}
    a1 = a1
    u1 = u1
    c1 = c1
    c2 = c2
    c3 = c3
    Mode = "realistic"
    LockoutAfter = 3
    FailBeforeSuccess = 1
    MaxConnections = 3
    MaxSessions = 2
    MaxRejections = 1
    MaxLines = 2
    Emits = {e1, e2, e3}
    MaxPending = 1
SPECIFICATION SshSpec
INVARIANTS CountersAgree DrainedFirst
PROPERTIES EndReported SlotComesBack
