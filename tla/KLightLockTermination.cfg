CONSTANTS
    Threads = {t1, t2}
    SuspendTypes = {Thread}
    Killable = {t1, t2}
SPECIFICATION Spec
INVARIANT HolderIsTagOwner
SYMMETRY Symmetry
