\* Three before tasks leave beforeTasks with length 3 and capacity 4.
CONSTANTS
    Workers = {w1, w2}
    NTasks = 2
    APIs <- MCGoOnly
    MaxBefore = 3
    MaxAfter = 0
SPECIFICATION Spec
CHECK_DEADLOCK FALSE
INVARIANT EachTaskRunOnce
