CONSTANTS
    Threads = {t1, t2, t3}
    Keys = {k1, k2, k3}
    KernelKeys = {k1}
    Priorities = {1, 2, 3}
SPECIFICATION FairSpec
INVARIANTS KernelWaitersCounted PriorityInherited PriorityIsEffective
PROPERTY RestorePriorityEnds
