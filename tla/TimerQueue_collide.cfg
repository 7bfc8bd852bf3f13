\* Timers asked for the same deadline: the set keyed by expiration refuses one.
CONSTANTS
    MaxTimers = 3
    MaxTime = 4
    AfterDelays = {0, 1, 2}
    EveryIntervals = {1, 2}
    DistinctDeadlines = FALSE
SPECIFICATION Spec
INVARIANT NoTimerLost
CHECK_DEADLOCK FALSE
