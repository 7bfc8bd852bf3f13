\* Timers with distinct deadlines added from the loop and from other threads.
CONSTANTS
    MaxTimers = 3
    MaxTime = 5
    AfterDelays = {0, 1, 2}
    EveryIntervals = {2}
    DistinctDeadlines = TRUE
SPECIFICATION FairSpec
INVARIANT TypeOK
INVARIANT ArmedForEarliest
PROPERTY TimerEventuallyFires
\* The clock stops at MaxTime and at most MaxTimers are created: the
\* behaviours end there.
CHECK_DEADLOCK FALSE
