CONSTANTS
    shot = shot
    loop = loop
    OneShot = {shot}
    Looping = {loop}
    Delays = {0, 1}
    Periods = {1}
    MaxTime = 1
SPECIFICATION FairSpec
INVARIANTS
    PausedIsStill
    FollowsOwner
PROPERTIES
    ControlReturns
    EventRuns
CHECK_DEADLOCK FALSE
