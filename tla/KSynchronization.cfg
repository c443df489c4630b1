CONSTANTS
    Threads = {t1, t2}
    Events = {e1}
    MaxObjects = 2
SPECIFICATION FairSpec
INVARIANTS
    NodesMatchWaits
    NoMissedSignal
    TimerTaskMatchesWait
    NoPendingRequestWhileBlocked
PROPERTIES
    WakeupHasCause
    DecidedOnce
    TerminationCompletes
    WaitOnTerminatingEnds
CHECK_DEADLOCK FALSE
