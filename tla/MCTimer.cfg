SPECIFICATION FairSpec
CONSTANTS
    Events = {e1, e2, e3}
    Threads = {t1, t2}
    Delays = {0, 1, 2}
    Unset = Unset
    NoEvent = NoEvent
    Horizon = 4
INVARIANT OnePlace
PROPERTY KeepsTime
CHECK_DEADLOCK FALSE
