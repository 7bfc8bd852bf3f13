\* The unlocked push_back in queueInLoop() loses or duplicates functors.
CONSTANTS
    f1 = f1
    f2 = f2
    Foreign <- MCForeign
    MaxTasks = 3
    MaxPasses = 3
SYMMETRY ForeignSymmetry
SPECIFICATION Spec
INVARIANT NoTaskLostOrDuplicated
CHECK_DEADLOCK FALSE
