CONSTANTS
    Threads = {t1, t2}
    SuspendTypes = {Thread, Process}
    Killable = {}
SPECIFICATION Spec
INVARIANT OwnerNotSuspended
SYMMETRY Symmetry
