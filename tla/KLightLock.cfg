CONSTANTS
    Threads = {t1, t2, t3}
    SuspendTypes = {Thread}
    Killable = {t1}
SPECIFICATION FairSpec
INVARIANTS MutexUntilTermination WaitersAreSeen OwnerNotSuspended
PROPERTY OwnerReleases
