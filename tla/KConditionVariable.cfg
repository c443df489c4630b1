CONSTANTS
    t1 = t1
    t2 = t2
    t3 = t3
    Threads = {t1, t2, t3}
    Priority <- MCPriority
    Mortal = {t2}
SPECIFICATION FairSpec
INVARIANTS MutualExclusion WaiterIsTagged KeyShowsWaiters BlockedIsKept
PROPERTY HighestPriorityIsServed
CHECK_DEADLOCK FALSE
