CONSTANTS
    Threads = {t1, t2, t3}
    Killable = {t1}
    Values = {1, 2, 7}
    Limits = {2, 3}
    Timeout = 1
    LastStart = 2
    MaxNow = 5
    MaxS64 = 7
SPECIFICATION FairSpec
INVARIANTS ValuesWithinLimit ValueIsReserved
PROPERTIES RoomWakesWaiters ReserveReturns
CHECK_DEADLOCK FALSE
