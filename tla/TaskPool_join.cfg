\* Two workers, three tasks, Go and TryGo, up to two before tasks (no
\* spare capacity in beforeTasks' array) and one after task, under fair
\* scheduling of the caller and the workers (no symmetry: WaitTerminates is
\* a liveness property).
CONSTANTS
    Workers = {w1, w2}
    NTasks = 3
    APIs <- MCBothAPIs
    MaxBefore = 2
    MaxAfter = 1
SPECIFICATION FairSpec
\* After Wait returns the workers block for good on the channel, which is
\* never closed: the pool really stops there.
CHECK_DEADLOCK FALSE
INVARIANT TypeOK
INVARIANT JoinComplete
INVARIANT EachTaskRunOnce
PROPERTY WaitTerminates
