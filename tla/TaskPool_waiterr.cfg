\* Wait's result against the failures of the tasks, with Go only.
CONSTANTS
    Workers = {w1, w2}
    NTasks = 2
    APIs <- MCGoOnly
    MaxBefore = 0
    MaxAfter = 0
SPECIFICATION Spec
CHECK_DEADLOCK FALSE
INVARIANT WaitReturnsError
