SPECIFICATION FairScheduleSpec
CONSTANTS
    c1 = c1
    c2 = c2
    c3 = c3
    Callbacks <- MCCallbacks
    NoCallback = NoCallback
    Delays = {0, 1, 2}
    MaxTime = 3
INVARIANTS
    ScheduledOnce
PROPERTIES
    NothingMissed
    RunComesToEnd
