------------------------------ MODULE TaskPool ------------------------------
(***************************************************************************)
(* The bounded task pool of                                                *)
(* src/integration_test/internal/pkg/reerrgroup/errgroup.go.               *)
(*                                                                         *)
(* NewGroup(n) starts the goroutines of Workers, each ranging over a       *)
(* channel of capacity n = Cardinality(Workers).  One caller goroutine (as *)
(* in TestGroupManager.CreateGroups) may first install before/after tasks, *)
(* then submits the tasks 1..NTasks with Go or TryGo, then calls Wait.     *)
(* Each worker step below is one statement group of the worker loop; the   *)
(* caller's steps are the statements of Go, TryGo and Wait between which   *)
(* a worker can run.                                                       *)
(***************************************************************************)
EXTENDS Naturals, Integers, Sequences, FiniteSets

CONSTANTS
    Workers,    \* worker goroutines started by initialize
    NTasks,     \* number of tasks the caller submits
    APIs,       \* submission calls the caller may use: "Go", "TryGo"
    MaxBefore,  \* bound on the functions given to SetBeforeTasks
    MaxAfter    \* bound on the functions given to SetAfterTasks

ASSUME TaskPoolAssumption ==
    /\ Workers # {} /\ IsFiniteSet(Workers)
    /\ NTasks \in Nat \ {0}
    /\ APIs \subseteq {"Go", "TryGo"} /\ APIs # {}
    /\ MaxBefore \in Nat /\ MaxAfter \in Nat

Tasks == 1 .. NTasks
Cap == Cardinality(Workers)   \* make(chan func() error, workerCount)
NoErr == 0                    \* g.err == nil; otherwise the failing task

VARIABLES
    pc,         \* caller: "setup", "check", "send", "add", "wait", "done"
    next,       \* caller: the task being submitted
    api,        \* caller: the call submitting it
    result,     \* caller: what Wait returned
    bLen, bCap, \* len and cap of g.beforeTasks
    aLen,       \* len(g.afterTasks)
    chan,       \* tasks buffered in g.taskChan
    taskCount,  \* g.taskCount
    err,        \* g.err
    wpc,        \* worker: "idle", "check", "run", "decr", "record"
    wtask,      \* worker: the task received from the channel
    wshared,    \* worker: its task list still points into beforeTasks
    wfail,      \* worker: doTask returned a non-nil error
    slot,       \* the element of beforeTasks' array just past its length
    runs,       \* history: how many times each task's function ran
    failed,     \* history: tasks whose doTask returned an error
    submitted   \* history: tasks put in the channel

vars == <<pc, next, api, result, bLen, bCap, aLen, chan, taskCount, err,
          wpc, wtask, wshared, wfail, slot, runs, failed, submitted>>

-----------------------------------------------------------------------------
(* append's new capacity for a slice of 8-byte elements: the runtime's     *)
(* growslice doubles a small slice, or takes the needed length when that   *)
(* is larger, then rounds the allocation up to a malloc size class (8, 16, *)
(* 24, 32, 48, 64, 80, 96, 112, 128 bytes).                                *)
SizeClassCaps == {1, 2, 3, 4, 6, 8, 10, 12, 14, 16}
GrowCap(oldLen, oldCap, k) ==
    LET need == oldLen + k
        want == IF need > 2 * oldCap THEN need ELSE 2 * oldCap
    IN IF need <= oldCap THEN oldCap
       ELSE CHOOSE c \in SizeClassCaps :
               /\ c >= want
               /\ \A d \in SizeClassCaps : d >= want => c <= d

(* append(append(g.beforeTasks, task), g.afterTasks...) keeps writing into *)
(* beforeTasks' array when it has room for the task and the after tasks.   *)
SharesArray == bCap - bLen >= 1 + aLen

TypeOK ==
    /\ pc \in {"setup", "check", "send", "add", "wait", "done"}
    /\ next \in 1 .. NTasks + 1
    /\ api \in APIs
    /\ result \in {NoErr} \cup Tasks
    /\ bLen \in 0 .. MaxBefore /\ bCap \in Nat /\ bLen <= bCap
    /\ aLen \in 0 .. MaxAfter
    /\ chan \in Seq(Tasks) /\ Len(chan) <= Cap
    /\ taskCount \in -1 .. NTasks
    /\ err \in {NoErr} \cup Tasks
    /\ wpc \in [Workers -> {"idle", "check", "run", "decr", "record"}]
    /\ wtask \in [Workers -> {NoErr} \cup Tasks]
    /\ wshared \in [Workers -> BOOLEAN]
    /\ wfail \in [Workers -> BOOLEAN]
    /\ slot \in {NoErr} \cup Tasks
    /\ runs \in [Tasks -> Nat]
    /\ failed \subseteq Tasks
    /\ submitted \subseteq Tasks

Init ==
    /\ pc = "setup"
    /\ next = 1
    /\ api \in APIs
    /\ result = NoErr
    /\ bLen = 0 /\ bCap = 0 /\ aLen = 0
    /\ chan = <<>>
    /\ taskCount = 0
    /\ err = NoErr
    /\ wpc = [w \in Workers |-> "idle"]
    /\ wtask = [w \in Workers |-> NoErr]
    /\ wshared = [w \in Workers |-> FALSE]
    /\ wfail = [w \in Workers |-> FALSE]
    /\ slot = NoErr
    /\ runs = [t \in Tasks |-> 0]
    /\ failed = {}
    /\ submitted = {}

workerVars == <<wpc, wtask, wshared, wfail, slot, runs, failed>>
callerVars == <<pc, next, api, result, bLen, bCap, aLen, submitted>>

-----------------------------------------------------------------------------
(* The caller.                                                             *)

(* SetBeforeTasks(f...): appends k functions to g.beforeTasks.            *)
SetBeforeTasks ==
    /\ pc = "setup"
    /\ \E k \in 1 .. MaxBefore - bLen :
          /\ bLen' = bLen + k
          /\ bCap' = GrowCap(bLen, bCap, k)
    /\ UNCHANGED <<pc, next, api, result, aLen, chan, taskCount, err,
                   submitted, workerVars>>

(* SetAfterTasks(f...): appends k functions to g.afterTasks.              *)
SetAfterTasks ==
    /\ pc = "setup"
    /\ \E k \in 1 .. MaxAfter - aLen : aLen' = aLen + k
    /\ UNCHANGED <<pc, next, api, result, bLen, bCap, chan, taskCount, err,
                   submitted, workerVars>>

(* The caller is done with task next and goes on with the following one,  *)
(* or with Wait after the last.                                            *)
Advance ==
    /\ next' = next + 1
    /\ pc' = IF next = NTasks THEN "wait" ELSE "check"

(* Go / TryGo: if g.err != nil return at once (the task is dropped).      *)
CheckErr ==
    /\ pc \in {"setup", "check"}
    /\ \E a \in APIs : api' = a
    /\ IF err # NoErr THEN Advance ELSE /\ pc' = "send"
                                        /\ UNCHANGED next
    /\ UNCHANGED <<result, bLen, bCap, aLen, chan, taskCount, err, submitted,
                   workerVars>>

(* Go: g.taskChan <- f blocks while the channel is full.                   *)
GoSend ==
    /\ pc = "send" /\ api = "Go"
    /\ Len(chan) < Cap
    /\ chan' = Append(chan, next)
    /\ submitted' = submitted \cup {next}
    /\ pc' = "add"
    /\ UNCHANGED <<next, api, result, bLen, bCap, aLen, taskCount, err,
                   workerVars>>

(* TryGo: the send if the channel has room, else return false.             *)
TryGoSend ==
    /\ pc = "send" /\ api = "TryGo"
    /\ IF Len(chan) < Cap
       THEN /\ chan' = Append(chan, next)
            /\ submitted' = submitted \cup {next}
            /\ pc' = "add"
            /\ UNCHANGED next
       ELSE /\ Advance
            /\ UNCHANGED <<chan, submitted>>
    /\ UNCHANGED <<api, result, bLen, bCap, aLen, taskCount, err, workerVars>>

(* Mutant: the increment after the send is lost.                           *)
AddCountLost ==
    /\ pc = "add"
    /\ Advance
    /\ UNCHANGED <<api, result, bLen, bCap, aLen, chan, taskCount, err,
                   submitted, workerVars>>

(* Go / TryGo after the send: g.taskCount.Add(1).                          *)
AddCount ==
    /\ pc = "add"
    /\ taskCount' = taskCount + 1
    /\ Advance
    /\ UNCHANGED <<api, result, bLen, bCap, aLen, chan, err, submitted,
                   workerVars>>

(* Wait: polls until g.taskCount is 0, then returns g.err.                 *)
Wait ==
    /\ pc = "wait"
    /\ taskCount = 0
    /\ result' = err
    /\ pc' = "done"
    /\ UNCHANGED <<next, api, bLen, bCap, aLen, chan, taskCount, err,
                   submitted, workerVars>>

-----------------------------------------------------------------------------
(* The workers.                                                            *)

(* for task := range g.taskChan                                            *)
Recv(w) ==
    /\ wpc[w] = "idle"
    /\ chan # <<>>
    /\ wtask' = [wtask EXCEPT ![w] = Head(chan)]
    /\ chan' = Tail(chan)
    /\ wpc' = [wpc EXCEPT ![w] = "check"]
    /\ UNCHANGED <<callerVars, taskCount, err, wshared, wfail, slot, runs,
                   failed>>

(* Mutant: the task list always points into a shared array.               *)
CheckBuildShared(w) ==
    /\ wpc[w] = "check"
    /\ IF err # NoErr
       THEN /\ wpc' = [wpc EXCEPT ![w] = "decr"]
            /\ wfail' = [wfail EXCEPT ![w] = FALSE]
            /\ UNCHANGED <<wshared, slot>>
       ELSE /\ wpc' = [wpc EXCEPT ![w] = "run"]
            /\ wshared' = [wshared EXCEPT ![w] = TRUE]
            /\ slot' = wtask[w]
            /\ UNCHANGED wfail
    /\ UNCHANGED <<callerVars, chan, taskCount, err, wtask, runs, failed>>

(* Mutant: the skip path returns without the deferred decrement.          *)
CheckSkipNoDecr(w) ==
    /\ wpc[w] = "check"
    /\ IF err # NoErr
       THEN /\ wpc' = [wpc EXCEPT ![w] = "idle"]
            /\ UNCHANGED <<wfail, wshared, slot>>
       ELSE /\ wpc' = [wpc EXCEPT ![w] = "run"]
            /\ wshared' = [wshared EXCEPT ![w] = SharesArray]
            /\ slot' = IF bCap > bLen THEN wtask[w] ELSE slot
            /\ UNCHANGED wfail
    /\ UNCHANGED <<callerVars, chan, taskCount, err, wtask, runs, failed>>

(* Mutant: the skip path also calls g.taskCount.Add(-1) itself before      *)
(* returning, on top of the deferred decrement.                            *)
CheckSkipDoubleDecr(w) ==
    /\ wpc[w] = "check"
    /\ IF err # NoErr
       THEN /\ wpc' = [wpc EXCEPT ![w] = "decr"]
            /\ wfail' = [wfail EXCEPT ![w] = FALSE]
            /\ taskCount' = taskCount - 1
            /\ UNCHANGED <<wshared, slot>>
       ELSE /\ wpc' = [wpc EXCEPT ![w] = "run"]
            /\ wshared' = [wshared EXCEPT ![w] = SharesArray]
            /\ slot' = IF bCap > bLen THEN wtask[w] ELSE slot
            /\ UNCHANGED <<wfail, taskCount>>
    /\ UNCHANGED <<callerVars, chan, err, wtask, runs, failed>>

(* doTask up to the loop: return nil if g.err != nil; else build           *)
(* tasks := append(append(g.beforeTasks, task), g.afterTasks...).  The     *)
(* inner append stores task in beforeTasks' array when it has room; the    *)
(* outer one copies out of it unless the after tasks fit as well.          *)
Check(w) ==
    /\ wpc[w] = "check"
    /\ IF err # NoErr
       THEN /\ wpc' = [wpc EXCEPT ![w] = "decr"]
            /\ wfail' = [wfail EXCEPT ![w] = FALSE]
            /\ UNCHANGED <<wshared, slot>>
       ELSE /\ wpc' = [wpc EXCEPT ![w] = "run"]
            /\ wshared' = [wshared EXCEPT ![w] = SharesArray]
            /\ slot' = IF bCap > bLen THEN wtask[w] ELSE slot
            /\ UNCHANGED wfail
    /\ UNCHANGED <<callerVars, chan, taskCount, err, wtask, runs, failed>>

(* How a run of the task list can end: all succeed, one of the before     *)
(* tasks fails (the task does not run), or the task or an after task fails.*)
Outcomes == {"ok", "fail"} \cup (IF bLen > 0 THEN {"beforeFail"} ELSE {})

(* doTask's loop: runs the before tasks, the task found in the list (the  *)
(* shared array's element if the list points into it) and the after tasks,*)
(* returning the first error.                                              *)
Run(w) ==
    /\ wpc[w] = "run"
    /\ LET fn == IF wshared[w] THEN slot ELSE wtask[w] IN
       \E o \in Outcomes :
          /\ runs' = IF o = "beforeFail" THEN runs
                     ELSE [runs EXCEPT ![fn] = @ + 1]
          /\ wfail' = [wfail EXCEPT ![w] = (o # "ok")]
          /\ failed' = IF o # "ok" THEN failed \cup {wtask[w]} ELSE failed
    /\ wpc' = [wpc EXCEPT ![w] = "decr"]
    /\ UNCHANGED <<callerVars, chan, taskCount, err, wtask, wshared, slot>>

(* doTask returns: the deferred g.taskCount.Add(-1).                       *)
Decr(w) ==
    /\ wpc[w] = "decr"
    /\ taskCount' = taskCount - 1
    /\ wpc' = [wpc EXCEPT ![w] = IF wfail[w] THEN "record" ELSE "idle"]
    /\ UNCHANGED <<callerVars, chan, err, wtask, wshared, wfail, slot, runs,
                   failed>>

(* g.errOnce.Do(func() { g.err = err }): only the first error is kept.     *)
Record(w) ==
    /\ wpc[w] = "record"
    /\ err' = IF err = NoErr THEN wtask[w] ELSE err
    /\ wpc' = [wpc EXCEPT ![w] = "idle"]
    /\ UNCHANGED <<callerVars, chan, taskCount, wtask, wshared, wfail, slot,
                   runs, failed>>

-----------------------------------------------------------------------------
Caller == SetBeforeTasks \/ SetAfterTasks \/ CheckErr \/ GoSend \/ TryGoSend
          \/ AddCount \/ Wait
Worker(w) == Recv(w) \/ Check(w) \/ Run(w) \/ Decr(w) \/ Record(w)

Next == Caller \/ \E w \in Workers : Worker(w)

Spec == Init /\ [][Next]_vars

(* The Go runtime schedules every runnable goroutine eventually, and Wait *)
(* keeps polling: weak fairness of the caller and of each worker.          *)
FairSpec == Spec /\ WF_vars(Caller) /\ \A w \in Workers : WF_vars(Worker(w))

-----------------------------------------------------------------------------
(* Properties.                                                             *)

(* Wait returns only when every task handed to the channel has been taken *)
(* out of it and its doTask has returned (the comment of Wait: "blocks     *)
(* until all function calls from the Go method have returned").            *)
JoinComplete ==
    pc = "done" =>
        /\ chan = <<>>
        /\ \A w \in Workers : wpc[w] \in {"idle", "record"}

(* Each task's function runs at most once, and when no doTask failed,     *)
(* Wait returns only after every submitted task ran exactly once: the     *)
(* workers never run one another's task.                                   *)
EachTaskRunOnce ==
    /\ \A t \in Tasks : runs[t] <= 1
    /\ (pc = "done" /\ failed = {}) => \A t \in submitted : runs[t] = 1

(* Wait returns a non-nil error whenever a task failed (the comment of     *)
(* Wait: "returns the first non-nil error (if any) from them").            *)
WaitReturnsError ==
    (pc = "done" /\ failed # {}) => result # NoErr

(* Wait eventually returns.                                                *)
WaitTerminates == <>(pc = "done")
====
