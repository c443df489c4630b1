CONSTANTS
    Tasks = {t1, t2, t3}
    Timeouts = {1, 2, 3}
    MaxNow = 5
    MaxS64 = 20
SPECIFICATION FairSpec
INVARIANTS NextTaskIsEarliest InterruptCoversNextTask
PROPERTIES NoDueTaskLeft ImplementsTimerTasks
CHECK_DEADLOCK FALSE
