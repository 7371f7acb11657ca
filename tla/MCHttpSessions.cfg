CONSTANTS
    Requests = {r1, r2}
    Addresses = {a1, a2}
    r1 = r1
    r2 = r2
    a1 = a1
    a2 = a2
    MaxSessions = 3
    MaxPerAddress = 2
    SessionCap = 1
    GlobalCap = 1
    MaxIds = 3
    MaxPages = 2
SYMMETRY Symmetry
SPECIFICATION Spec
INVARIANTS CountersAgree OneAddressPerSession TokenSpentOnce
