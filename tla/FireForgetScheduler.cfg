SPECIFICATION FairSpec
CONSTANTS
    TID = {t1, t2}
    WID = {w1}
    Data = {d1}
    Keys = {1, 2, 3, 4}
    MaxRunning = 3
    MaxRunningSameTask = 2
    CommandChannelSize = 1
    Timeout = 1
    MaxTimers = 4
INVARIANTS TypeOK  RunningHasTimer NoIdleSlot
PROPERTY QueuedIsServed
