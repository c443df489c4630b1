CONSTANTS
    Threads = {t1, t2}
    Killable = {t1, t2}
    Values = {1, 2}
    Limits = {2, 3}
    Timeout = 2
    LastStart = 2
    MaxNow = 8
    MaxS64 = 10
SPECIFICATION Spec
INVARIANT TimerMatchesDeadline
CHECK_DEADLOCK FALSE
