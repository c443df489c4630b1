CONSTANTS
    Clients = {c1, c2}
    Killable = {c1, c2}
    Servers = {v1, v2}
    Sessions = {s1, s2}
    MaxSessions = 1
    SessionLimit = 2
SPECIFICATION MCSpec
INVARIANTS RequestsCounted BlockedRequestIsHeld ServerSessionOwned SessionsCounted NothingMissed AssertionsHold StopNotStuck
SYMMETRY Symmetry
CHECK_DEADLOCK FALSE
