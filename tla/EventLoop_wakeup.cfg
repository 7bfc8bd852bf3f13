\* Wake-up and batching of the pending-functor queue, with the unlocked push.
CONSTANTS
    f1 = f1
    f2 = f2
    Foreign <- MCForeign
    MaxTasks = 3
    MaxPasses = 4
SYMMETRY ForeignSymmetry
SPECIFICATION Spec
INVARIANT NoLostWakeup
INVARIANT DeferredToNextPass
\* The loop thread returns from loop() after quit(); the bounds end the rest.
CHECK_DEADLOCK FALSE
