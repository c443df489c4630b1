CONSTANTS
    Tasks = {t1, t2}
    Timeouts = {1, 20}
    MaxNow = 5
    MaxS64 = 20
SPECIFICATION Spec
INVARIANT TaskTimePositive
CHECK_DEADLOCK FALSE
