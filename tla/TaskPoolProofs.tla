--------------------------- MODULE TaskPoolProofs ---------------------------
(***************************************************************************)
(* Proofs about TaskPool for every number of workers and tasks.            *)
(***************************************************************************)
EXTENDS TaskPool, FiniteSetTheorems, SequenceTheorems, TLAPS

USE TaskPoolAssumption

(* The workers holding a task between receiving it and its decrement.     *)
Busy == {w \in Workers : wpc[w] \in {"check", "run", "decr"}}

(* The part of the type the proofs need.                                   *)
PType ==
    /\ pc \in {"setup", "check", "send", "add", "wait", "done"}
    /\ next \in Nat
    /\ pc \in {"setup", "check", "send", "add"} => next \in Tasks
    /\ chan \in Seq(Tasks)
    /\ taskCount \in Int
    /\ wpc \in [Workers -> {"idle", "check", "run", "decr", "record"}]

(* taskCount counts the tasks in the channel and those a worker holds,    *)
(* less the one just sent whose increment is still to come.  Once Wait    *)
(* has returned the count stays zero.                                      *)
CountInv ==
    /\ taskCount + (IF pc = "add" THEN 1 ELSE 0) = Len(chan) + Cardinality(Busy)
    /\ pc = "done" => taskCount = 0

IInv == PType /\ CountInv

(* Busy is a finite set of workers.                                        *)
LEMMA BusyFinite ==
    ASSUME PType
    PROVE  IsFiniteSet(Busy) /\ Cardinality(Busy) \in Nat
<1>1. Busy \subseteq Workers
  BY DEF Busy
<1> QED
  BY <1>1, FS_Subset, FS_CardinalityType

(* The primed Busy is a finite set of workers as well.                    *)
LEMMA BusyFiniteNext ==
    ASSUME PType'
    PROVE  IsFiniteSet(Busy') /\ Cardinality(Busy') \in Nat
<1>1. Busy' \subseteq Workers
  BY DEF Busy
<1> QED
  BY <1>1, FS_Subset, FS_CardinalityType

(* A step that moves no worker in or out of Busy, and leaves the channel  *)
(* and the counter alone, keeps the count equation.                        *)
LEMMA SameBusy ==
    ASSUME PType, PType', CountInv,
           Busy' = Busy, UNCHANGED <<chan, taskCount>>,
           (pc' = "add") = (pc = "add"),
           pc' = "done" => pc = "done"
    PROVE  CountInv'
BY DEF CountInv

(* The strengthening holds initially.                                      *)
LEMMA IInvInit == Init => IInv
<1> SUFFICES ASSUME Init PROVE IInv
  OBVIOUS
<1>1. Busy = {}
  BY DEF Init, Busy
<1>2. Cardinality(Busy) = 0
  BY <1>1, FS_EmptySet
<1>3. PType
  BY DEF Init, PType, Tasks
<1> QED
  BY <1>2, <1>3 DEF Init, IInv, CountInv

(* Every step keeps the strengthening.                                     *)
LEMMA IInvStep == IInv /\ [Next]_vars => IInv'
<1> SUFFICES ASSUME IInv, [Next]_vars PROVE IInv'
  OBVIOUS
<1> USE DEF IInv
<1>0. IsFiniteSet(Busy) /\ Cardinality(Busy) \in Nat
  BY BusyFinite
<1>1. CASE SetBeforeTasks
  <2>1. PType'
    BY <1>1 DEF SetBeforeTasks, PType, workerVars
  <2>2. Busy' = Busy
    BY <1>1 DEF SetBeforeTasks, Busy, workerVars
  <2> QED
    BY <1>1, <2>1, <2>2, SameBusy DEF SetBeforeTasks
<1>2. CASE SetAfterTasks
  <2>1. PType'
    BY <1>2 DEF SetAfterTasks, PType, workerVars
  <2>2. Busy' = Busy
    BY <1>2 DEF SetAfterTasks, Busy, workerVars
  <2> QED
    BY <1>2, <2>1, <2>2, SameBusy DEF SetAfterTasks
<1>3. CASE CheckErr
  <2>1. PType'
    BY <1>3 DEF CheckErr, Advance, PType, workerVars, Tasks
  <2>2. Busy' = Busy
    BY <1>3 DEF CheckErr, Busy, workerVars
  <2>3. pc' # "add" /\ pc' # "done" /\ pc # "add"
    BY <1>3 DEF CheckErr, Advance
  <2> QED
    BY <1>3, <2>1, <2>2, <2>3, SameBusy DEF CheckErr
<1>4. CASE GoSend
  <2>1. next \in Tasks /\ Len(chan') = Len(chan) + 1 /\ chan' \in Seq(Tasks)
    BY <1>4, AppendProperties DEF GoSend, PType
  <2>2. PType'
    BY <1>4, <2>1 DEF GoSend, PType, workerVars
  <2>3. Busy' = Busy
    BY <1>4 DEF GoSend, Busy, workerVars
  <2> QED
    BY <1>0, <1>4, <2>1, <2>2, <2>3 DEF GoSend, CountInv, PType
<1>5. CASE TryGoSend
  <2>1. CASE Len(chan) < Cap
    <3>1. next \in Tasks /\ Len(chan') = Len(chan) + 1 /\ chan' \in Seq(Tasks)
      BY <1>5, <2>1, AppendProperties DEF TryGoSend, PType
    <3>2. PType'
      BY <1>5, <2>1, <3>1 DEF TryGoSend, PType, workerVars
    <3>3. Busy' = Busy
      BY <1>5 DEF TryGoSend, Busy, workerVars
    <3> QED
      BY <1>0, <1>5, <2>1, <3>1, <3>2, <3>3 DEF TryGoSend, CountInv, PType
  <2>2. CASE ~(Len(chan) < Cap)
    <3>1. PType'
      BY <1>5, <2>2 DEF TryGoSend, Advance, PType, workerVars, Tasks
    <3>2. Busy' = Busy
      BY <1>5 DEF TryGoSend, Busy, workerVars
    <3>3. pc' # "add" /\ pc' # "done" /\ pc # "add" /\ UNCHANGED <<chan, taskCount>>
      BY <1>5, <2>2 DEF TryGoSend, Advance
    <3> QED
      BY <3>1, <3>2, <3>3, SameBusy
  <2> QED
    BY <2>1, <2>2
<1>6. CASE AddCount
  <2>1. PType'
    BY <1>6 DEF AddCount, Advance, PType, workerVars, Tasks
  <2>2. Busy' = Busy
    BY <1>6 DEF AddCount, Busy, workerVars
  <2> QED
    BY <1>0, <1>6, <2>1, <2>2 DEF AddCount, Advance, CountInv, PType
<1>7. CASE Wait
  <2>1. PType'
    BY <1>7 DEF Wait, PType, workerVars
  <2>2. Busy' = Busy
    BY <1>7 DEF Wait, Busy, workerVars
  <2> QED
    BY <1>0, <1>7, <2>1, <2>2 DEF Wait, CountInv, PType
<1>8. ASSUME NEW w \in Workers, Recv(w) PROVE IInv'
  <2>1. Head(chan) \in Tasks /\ chan' \in Seq(Tasks) /\ Len(chan') = Len(chan) - 1
    BY <1>8, HeadTailProperties DEF Recv, PType
  <2>2. PType'
    BY <1>8, <2>1 DEF Recv, PType, callerVars
  <2>3. w \notin Busy /\ Busy' = Busy \cup {w}
    BY <1>8 DEF Recv, Busy, PType
  <2>4. Cardinality(Busy') = Cardinality(Busy) + 1
    BY <1>0, <2>3, FS_AddElement
  <2>5. pc # "done"
    <3>1. Len(chan) >= 1
      BY <1>8 DEF Recv, PType
    <3> QED
      BY <1>0, <3>1 DEF CountInv, PType
  <2> QED
    BY <1>8, <2>1, <2>2, <2>4, <2>5, <1>0 DEF Recv, CountInv, PType, callerVars
<1>9. ASSUME NEW w \in Workers, Check(w) PROVE IInv'
  <2>1. PType'
    BY <1>9 DEF Check, PType, callerVars
  <2>2. Busy' = Busy
    BY <1>9 DEF Check, Busy, PType
  <2> QED
    BY <1>9, <2>1, <2>2, SameBusy DEF Check, callerVars
<1>10. ASSUME NEW w \in Workers, Run(w) PROVE IInv'
  <2>1. PType'
    BY <1>10 DEF Run, PType, callerVars
  <2>2. Busy' = Busy
    BY <1>10 DEF Run, Busy, PType
  <2> QED
    BY <1>10, <2>1, <2>2, SameBusy DEF Run, callerVars
<1>11. ASSUME NEW w \in Workers, Decr(w) PROVE IInv'
  <2>1. PType'
    BY <1>11 DEF Decr, PType, callerVars
  <2>2. w \in Busy /\ Busy' = Busy \ {w}
    BY <1>11 DEF Decr, Busy, PType
  <2>3. Cardinality(Busy') = Cardinality(Busy) - 1
    BY <1>0, <2>2, FS_RemoveElement
  <2>4. Cardinality(Busy) >= 1
    BY <1>0, <2>2, FS_EmptySet
  <2>5. pc # "done"
    BY <1>0, <2>4 DEF CountInv, PType
  <2> QED
    BY <1>11, <2>1, <2>3, <2>5, <1>0 DEF Decr, CountInv, PType, callerVars
<1>12. ASSUME NEW w \in Workers, Record(w) PROVE IInv'
  <2>1. PType'
    BY <1>12 DEF Record, PType, callerVars
  <2>2. Busy' = Busy
    BY <1>12 DEF Record, Busy, PType
  <2> QED
    BY <1>12, <2>1, <2>2, SameBusy DEF Record, callerVars
<1>13. CASE UNCHANGED vars
  <2>1. PType' /\ Busy' = Busy
    BY <1>13 DEF vars, PType, Busy
  <2> QED
    BY <1>13, <2>1, SameBusy DEF vars
<1> QED
  BY <1>1, <1>2, <1>3, <1>4, <1>5, <1>6, <1>7, <1>8, <1>9, <1>10, <1>11,
     <1>12, <1>13 DEF Next, Caller, Worker

(* The count equation gives the join: when Wait has returned, the channel *)
(* is empty and no worker holds a task.                                    *)
LEMMA IInvJoin == IInv => JoinComplete
<1> SUFFICES ASSUME IInv, pc = "done" PROVE JoinComplete
  BY DEF JoinComplete
<1>1. IsFiniteSet(Busy) /\ Cardinality(Busy) \in Nat
  BY BusyFinite DEF IInv
<1>2. Len(chan) = 0 /\ Cardinality(Busy) = 0
  BY <1>1 DEF IInv, CountInv, PType
<1>3. chan = <<>> /\ Busy = {}
  BY <1>1, <1>2, FS_EmptySet DEF IInv, PType
<1> QED
  BY <1>3 DEF JoinComplete, Busy, IInv, PType

(* Wait returns only after every task that Go or TryGo put in the channel *)
(* has been received by a worker and its doTask has returned (the deferred *)
(* taskCount decrement done), for every number of workers and tasks.      *)
THEOREM WaitJoinsAllTasks == Spec => []JoinComplete
<1> QED
  BY IInvInit, IInvStep, IInvJoin, PTL DEF Spec

-----------------------------------------------------------------------------
(* Each task runs once.                                                    *)
(*                                                                         *)
(* With at most two before tasks, append never leaves spare capacity in    *)
(* beforeTasks' array (growslice's size classes hold 1 and 2 exactly), so  *)
(* doTask's list never points into it and each worker runs the task it     *)
(* received.  Three before tasks give a capacity of 4 and taskpool_alias   *)
(* shows two workers then running the same slot.                           *)

(* A worker holds its task from the receive until doTask's loop ran it.   *)
Holds(w) == wpc[w] \in {"check", "run"}

(* Task t is buffered in g.taskChan.                                       *)
InChan(t) == \E i \in 1 .. Len(chan) : chan[i] = t

(* beforeTasks has no room past its length, so no task list shares it.    *)
NoSpare == bCap = bLen /\ \A w \in Workers : ~wshared[w]

(* The strengthening: a task is in the channel, held by one worker, or    *)
(* done, never two of these; a task not yet run is in the channel or held, *)
(* unless an error was recorded or is on its way to be.                    *)
RunInv ==
    /\ NoSpare
    /\ bLen \in Nat /\ aLen \in Nat
    /\ runs \in [Tasks -> Nat]
    /\ submitted \subseteq Tasks
    /\ wtask \in [Workers -> {NoErr} \cup Tasks]
    /\ wshared \in [Workers -> BOOLEAN] /\ wfail \in [Workers -> BOOLEAN]
    /\ \A i, j \in 1 .. Len(chan) : chan[i] = chan[j] => i = j
    /\ \A i \in 1 .. Len(chan) : chan[i] \in submitted /\ runs[chan[i]] = 0
    /\ \A w \in Workers :
          Holds(w) => /\ wtask[w] \in submitted
                      /\ runs[wtask[w]] = 0
                      /\ ~InChan(wtask[w])
    /\ \A v, w \in Workers :
          Holds(v) /\ Holds(w) /\ wtask[v] = wtask[w] => v = w
    /\ \A t \in Tasks \ submitted : runs[t] = 0
    /\ \A t \in Tasks : runs[t] <= 1
    /\ \A t \in submitted :
          \/ InChan(t)
          \/ \E w \in Workers : Holds(w) /\ wtask[w] = t
          \/ runs[t] = 1
          \/ failed # {}
          \/ err # NoErr
    /\ err # NoErr => failed # {}
    /\ \A w \in Workers :
          /\ wpc[w] = "record" => failed # {}
          /\ wpc[w] = "decr" /\ wfail[w] => failed # {}
    /\ pc \in {"setup", "check", "send"} => \A t \in submitted : t < next
    /\ pc = "add" => \A t \in submitted : t <= next

RInv == IInv /\ RunInv

(* growslice on a full slice of at most two elements: the new capacity is *)
(* the needed length, a size class of its own.                            *)
LEMMA GrowCapExact ==
    ASSUME NEW l \in Nat, NEW k \in Nat \ {0}, l + k <= 2
    PROVE  GrowCap(l, l, k) = l + k
<1> DEFINE want == IF l + k > 2 * l THEN l + k ELSE 2 * l
           ch == CHOOSE c \in SizeClassCaps :
                    /\ c >= want
                    /\ \A d \in SizeClassCaps : d >= want => c <= d
<1>1. want = l + k /\ want \in SizeClassCaps
  BY DEF SizeClassCaps
<1>2. ch \in SizeClassCaps /\ ch >= want
      /\ \A d \in SizeClassCaps : d >= want => ch <= d
  <2>1. \E c \in SizeClassCaps :
           /\ c >= want
           /\ \A d \in SizeClassCaps : d >= want => c <= d
    BY <1>1 DEF SizeClassCaps
  <2> QED
    BY <2>1
<1>3. ch = want
  BY <1>1, <1>2 DEF SizeClassCaps
<1>4. GrowCap(l, l, k) = ch
  <2>1. ~(l + k <= l)
    OBVIOUS
  <2> QED
    BY <2>1 DEF GrowCap
<1> QED
  BY <1>1, <1>3, <1>4

(* The strengthening holds initially.                                      *)
LEMMA RunInvInit == Init => RunInv
BY DEF Init, RunInv, NoSpare, Holds, InChan, Tasks

(* SetBeforeTasks fills the array exactly: bCap stays equal to bLen.       *)
LEMMA RunSetBefore ==
    ASSUME MaxBefore <= 2, IInv, RunInv, SetBeforeTasks
    PROVE  RunInv'
<1>1. PICK k \in 1 .. MaxBefore - bLen :
             bLen' = bLen + k /\ bCap' = GrowCap(bLen, bCap, k)
  BY DEF SetBeforeTasks
<1>2. bCap' = bLen'
  BY <1>1, GrowCapExact DEF RunInv, NoSpare
<1> QED
  BY <1>1, <1>2 DEF SetBeforeTasks, workerVars, RunInv, NoSpare, Holds, InChan

(* The caller's steps that neither send nor touch a worker.                *)
LEMMA RunCallerQuiet ==
    ASSUME IInv, RunInv, SetAfterTasks \/ CheckErr \/ AddCount \/ Wait
    PROVE  RunInv'
<1>1. UNCHANGED <<bLen, bCap, chan, err, submitted, workerVars>>
  BY DEF SetAfterTasks, CheckErr, AddCount, Wait, Advance
<1>2. aLen' \in Nat
  BY DEF SetAfterTasks, CheckErr, AddCount, Wait, RunInv
<1>3. pc' \in {"setup", "check", "send"} => \A t \in submitted : t < next'
  <2>1. next \in Nat /\ submitted \subseteq Nat
    BY DEF RunInv, IInv, PType, Tasks
  <2>2. CASE SetAfterTasks
    BY <2>2 DEF SetAfterTasks, RunInv
  <2>3. CASE CheckErr
    BY <2>1, <2>3 DEF CheckErr, Advance, RunInv
  <2>4. CASE AddCount
    BY <2>1, <2>4 DEF AddCount, Advance, RunInv
  <2>5. CASE Wait
    BY <2>5 DEF Wait
  <2> QED
    BY <2>2, <2>3, <2>4, <2>5
<1>4. pc' # "add"
  BY DEF SetAfterTasks, CheckErr, AddCount, Wait, Advance
<1> QED
  BY <1>1, <1>2, <1>3, <1>4 DEF workerVars, RunInv, NoSpare, Holds, InChan

(* A send puts a fresh task at the end of the channel.                     *)
LEMMA RunSend ==
    ASSUME IInv, RunInv, pc = "send",
           chan' = Append(chan, next), submitted' = submitted \cup {next},
           pc' = "add", UNCHANGED <<next, bLen, bCap, aLen, err, workerVars>>
    PROVE  RunInv'
<1>1. next \in Tasks /\ next \notin submitted /\ runs[next] = 0
  BY DEF IInv, PType, RunInv
<1>2. /\ Len(chan') = Len(chan) + 1
      /\ \A i \in 1 .. Len(chan) : chan'[i] = chan[i]
      /\ chan'[Len(chan) + 1] = next
  BY <1>1, AppendProperties DEF IInv, PType
<1>3. \A t : InChan(t)' <=> InChan(t) \/ t = next
  BY <1>2 DEF InChan, IInv, PType
<1>4. \A i \in 1 .. Len(chan') : chan'[i] \in submitted' /\ runs[chan'[i]] = 0
  BY <1>1, <1>2 DEF RunInv, workerVars
<1>5. \A i, j \in 1 .. Len(chan') : chan'[i] = chan'[j] => i = j
  BY <1>1, <1>2 DEF RunInv
<1>6. \A w \in Workers : Holds(w) => wtask[w] # next
  BY <1>1 DEF RunInv
<1>7. \A t \in submitted' :
          \/ InChan(t)'
          \/ \E w \in Workers : Holds(w)' /\ wtask'[w] = t
          \/ runs'[t] = 1
          \/ failed' # {}
          \/ err' # NoErr
  BY <1>3 DEF RunInv, Holds, workerVars
<1>8. \A t \in submitted' : t <= next
  BY <1>1 DEF RunInv, Tasks
<1> QED
  BY <1>1, <1>3, <1>4, <1>5, <1>6, <1>7, <1>8
     DEF RunInv, NoSpare, Holds, workerVars

(* A receive moves the channel's head to the receiving worker.             *)
LEMMA RunRecv ==
    ASSUME IInv, RunInv, NEW w \in Workers, Recv(w)
    PROVE  RunInv'
<1> DEFINE InNext(t) == \E i \in 1 .. Len(chan') : chan'[i] = t
<1>0. PICK h : h = Head(chan)
  OBVIOUS
<1>1. /\ Len(chan) >= 1 /\ h = chan[1]
      /\ Len(chan') = Len(chan) - 1
      /\ \A i \in 1 .. Len(chan') : chan'[i] = chan[i + 1]
  BY <1>0, HeadTailProperties DEF Recv, IInv, PType
<1>2. \A t : InNext(t) <=> \E i \in 2 .. Len(chan) : chan[i] = t
  <2>1. ASSUME NEW t, InNext(t) PROVE \E i \in 2 .. Len(chan) : chan[i] = t
    <3>1. PICK i \in 1 .. Len(chan') : chan'[i] = t
      BY <2>1
    <3> QED
      BY <1>1, <3>1
  <2>2. ASSUME NEW t, NEW i \in 2 .. Len(chan), chan[i] = t PROVE InNext(t)
    <3>1. i - 1 \in 1 .. Len(chan') /\ chan'[i - 1] = t
      BY <1>1, <2>2
    <3> QED
      BY <3>1
  <2> QED
    BY <2>1, <2>2
<1>3. ~InNext(h)
  <2>1. \A i \in 2 .. Len(chan) : chan[i] # chan[1]
    BY <1>1 DEF RunInv
  <2> QED
    BY <1>1, <1>2, <2>1
<1>4. \A t : InNext(t) => InChan(t)
  BY <1>2 DEF InChan
<1>5. h \in submitted /\ runs[h] = 0 /\ InChan(h)
  BY <1>1 DEF RunInv, InChan
<1>6. ~Holds(w) /\ \A v \in Workers : Holds(v)' <=> Holds(v) \/ v = w
  BY DEF Recv, Holds, IInv, PType
<1>7. \A v \in Workers : Holds(v) => wtask[v] # h
  BY <1>5 DEF RunInv
<1>8. wtask' = [wtask EXCEPT ![w] = h] /\ UNCHANGED <<runs, submitted, err, failed>>
  BY <1>0 DEF Recv, callerVars
<1>9. \A v \in Workers : Holds(v)' =>
          /\ wtask'[v] \in submitted' /\ runs'[wtask'[v]] = 0
          /\ ~InNext(wtask'[v])
  <2> SUFFICES ASSUME NEW v \in Workers, Holds(v)'
               PROVE  /\ wtask'[v] \in submitted' /\ runs'[wtask'[v]] = 0
                      /\ ~InNext(wtask'[v])
    OBVIOUS
  <2>1. CASE v = w
    <3>1. wtask'[v] = h
      BY <1>8, <2>1 DEF RunInv
    <3> QED
      BY <1>3, <1>5, <1>8, <3>1
  <2>2. CASE v # w
    <3>1. Holds(v) /\ wtask'[v] = wtask[v]
      BY <1>6, <1>8, <2>2 DEF RunInv
    <3>2. wtask[v] \in submitted /\ runs[wtask[v]] = 0 /\ ~InChan(wtask[v])
      BY <3>1 DEF RunInv
    <3> QED
      BY <1>4, <1>8, <3>1, <3>2
  <2> QED
    BY <2>1, <2>2
<1>10. \A u, v \in Workers :
          Holds(u)' /\ Holds(v)' /\ wtask'[u] = wtask'[v] => u = v
  <2> SUFFICES ASSUME NEW u \in Workers, NEW v \in Workers, u # v,
                      Holds(u)', Holds(v)'
               PROVE  wtask'[u] # wtask'[v]
    OBVIOUS
  <2>1. \A x \in Workers : x # w => wtask'[x] = wtask[x]
    BY <1>8 DEF RunInv
  <2>2. wtask'[w] = h
    BY <1>8 DEF RunInv
  <2>3. CASE u = w
    BY <1>6, <1>7, <2>1, <2>2, <2>3
  <2>4. CASE v = w
    BY <1>6, <1>7, <2>1, <2>2, <2>4
  <2>5. CASE u # w /\ v # w
    BY <1>6, <2>1, <2>5 DEF RunInv
  <2> QED
    BY <2>3, <2>4, <2>5
<1>11. \A i, j \in 1 .. Len(chan') : chan'[i] = chan'[j] => i = j
  <2> SUFFICES ASSUME NEW i \in 1 .. Len(chan'), NEW j \in 1 .. Len(chan'),
                      chan'[i] = chan'[j]
               PROVE  i = j
    OBVIOUS
  <2>1. i + 1 \in 1 .. Len(chan) /\ j + 1 \in 1 .. Len(chan)
        /\ chan[i + 1] = chan[j + 1]
    BY <1>1
  <2> QED
    BY <2>1 DEF RunInv
<1>12. \A i \in 1 .. Len(chan') : chan'[i] \in submitted' /\ runs'[chan'[i]] = 0
  BY <1>1, <1>8 DEF RunInv
<1>13. \A t \in submitted' :
          \/ InNext(t)
          \/ \E v \in Workers : Holds(v)' /\ wtask'[v] = t
          \/ runs'[t] = 1
          \/ failed' # {}
          \/ err' # NoErr
  <2> SUFFICES ASSUME NEW t \in submitted, InChan(t)
               PROVE  InNext(t) \/ \E v \in Workers : Holds(v)' /\ wtask'[v] = t
    BY <1>6, <1>8 DEF RunInv
  <2>1. CASE t = h
    <3>1. Holds(w)' /\ wtask'[w] = t
      BY <1>6, <1>8, <2>1 DEF RunInv
    <3> QED
      BY <3>1
  <2>2. CASE t # h
    <3>1. PICK i \in 1 .. Len(chan) : chan[i] = t
      BY DEF InChan
    <3>2. i \in 2 .. Len(chan)
      BY <1>1, <2>2, <3>1
    <3> QED
      BY <1>2, <3>1, <3>2
  <2> QED
    BY <2>1, <2>2
<1>14. \A v \in Workers :
          /\ wpc'[v] = "record" => failed' # {}
          /\ wpc'[v] = "decr" /\ wfail'[v] => failed' # {}
  BY <1>8 DEF Recv, RunInv, IInv, PType
<1>15. wtask' \in [Workers -> {NoErr} \cup Tasks]
  BY <1>5, <1>8 DEF RunInv
<1>16. UNCHANGED <<bLen, bCap, aLen, pc, next, wshared, wfail>>
  BY DEF Recv, callerVars
<1> QED
  BY <1>8, <1>9, <1>10, <1>11, <1>12, <1>13, <1>14, <1>15, <1>16
     DEF RunInv, NoSpare, InChan

(* doTask's check: the task list never shares beforeTasks' array, and a    *)
(* task skipped because of a recorded error is covered by that error.      *)
LEMMA RunCheck ==
    ASSUME IInv, RunInv, NEW w \in Workers, Check(w)
    PROVE  RunInv'
<1>1. UNCHANGED <<pc, next, bLen, bCap, aLen, chan, err, wtask, runs, failed,
                  submitted>>
  BY DEF Check, callerVars
<1>2. CASE err # NoErr
  <2>1. wpc' = [wpc EXCEPT ![w] = "decr"] /\ wfail' = [wfail EXCEPT ![w] = FALSE]
        /\ UNCHANGED wshared
    BY <1>2 DEF Check
  <2>2. \A v \in Workers : Holds(v)' => Holds(v)
    BY <2>1 DEF Holds, IInv, PType
  <2>3. failed # {}
    BY <1>2 DEF RunInv
  <2> QED
    BY <1>1, <2>1, <2>2, <2>3 DEF RunInv, NoSpare, InChan
<1>3. CASE err = NoErr
  <2>1. SharesArray = FALSE
    BY DEF SharesArray, RunInv, NoSpare
  <2>2. wpc' = [wpc EXCEPT ![w] = "run"] /\ wshared' = [wshared EXCEPT ![w] = FALSE]
        /\ UNCHANGED wfail
    BY <1>3, <2>1 DEF Check
  <2>3. \A v \in Workers : Holds(v)' <=> Holds(v)
    BY <2>2 DEF Holds, Check, IInv, PType
  <2> QED
    BY <1>1, <2>2, <2>3 DEF RunInv, NoSpare, InChan, IInv, PType
<1> QED
  BY <1>2, <1>3

(* doTask's loop runs the worker's own task, the first and only time.     *)
LEMMA RunRun ==
    ASSUME IInv, RunInv, NEW w \in Workers, Run(w)
    PROVE  RunInv'
<1> DEFINE t0 == wtask[w]
<1>1. UNCHANGED <<pc, next, bLen, bCap, aLen, chan, err, wtask, wshared,
                  submitted>>
  BY DEF Run, callerVars
<1>2. Holds(w) /\ t0 \in submitted /\ runs[t0] = 0 /\ ~InChan(t0) /\ t0 \in Tasks
  BY DEF Run, Holds, RunInv
<1>3. PICK o \in Outcomes :
          /\ runs' = IF o = "beforeFail" THEN runs ELSE [runs EXCEPT ![t0] = @ + 1]
          /\ wfail' = [wfail EXCEPT ![w] = (o # "ok")]
          /\ failed' = IF o # "ok" THEN failed \cup {t0} ELSE failed
  BY DEF Run, RunInv, NoSpare
<1>4. wpc' = [wpc EXCEPT ![w] = "decr"]
  BY DEF Run
<1>5. \A v \in Workers : Holds(v)' <=> Holds(v) /\ v # w
  BY <1>4 DEF Holds, IInv, PType
<1>6. \A t \in Tasks : t # t0 => runs'[t] = runs[t]
  BY <1>3 DEF RunInv
<1>7. runs' \in [Tasks -> Nat] /\ runs'[t0] <= 1
      /\ (runs'[t0] = 1 \/ failed' # {})
  <2>1. CASE o = "beforeFail"
    BY <1>2, <1>3, <2>1 DEF RunInv
  <2>2. CASE o # "beforeFail"
    BY <1>2, <1>3, <2>2 DEF RunInv
  <2> QED
    BY <2>1, <2>2
<1>8. \A v \in Workers : Holds(v) /\ v # w => wtask[v] # t0
  BY <1>2 DEF RunInv
<1>9. wfail' \in [Workers -> BOOLEAN] /\ (wfail'[w] => failed' # {})
      /\ \A v \in Workers : v # w => wfail'[v] = wfail[v]
  BY <1>3 DEF RunInv
<1>10. failed # {} => failed' # {}
  BY <1>3
<1>11. \A i \in 1 .. Len(chan) : chan[i] # t0
  BY <1>2 DEF InChan
<1>12. \A t \in submitted :
          \/ InChan(t)
          \/ \E v \in Workers : Holds(v)' /\ wtask[v] = t
          \/ runs'[t] = 1
          \/ failed' # {}
          \/ err # NoErr
  <2> SUFFICES ASSUME NEW t \in submitted PROVE
          \/ InChan(t)
          \/ \E v \in Workers : Holds(v)' /\ wtask[v] = t
          \/ runs'[t] = 1
          \/ failed' # {}
          \/ err # NoErr
    OBVIOUS
  <2>1. CASE t = t0
    BY <1>7, <2>1
  <2>2. CASE t # t0
    BY <1>5, <1>6, <1>10, <2>2 DEF RunInv
  <2> QED
    BY <2>1, <2>2
<1>13. \A v \in Workers :
          /\ wpc'[v] = "record" => failed' # {}
          /\ wpc'[v] = "decr" /\ wfail'[v] => failed' # {}
  BY <1>4, <1>9, <1>10 DEF RunInv, IInv, PType
<1>14. \A v \in Workers :
          Holds(v)' => /\ wtask[v] \in submitted
                       /\ runs'[wtask[v]] = 0
                       /\ ~InChan(wtask[v])
  BY <1>5, <1>6, <1>8 DEF RunInv
<1>15. \A i \in 1 .. Len(chan) : chan[i] \in submitted /\ runs'[chan[i]] = 0
  BY <1>6, <1>11 DEF RunInv, IInv, PType
<1>16. \A t \in Tasks \ submitted : runs'[t] = 0
  BY <1>2, <1>6 DEF RunInv
<1>17. \A t \in Tasks : runs'[t] <= 1
  BY <1>6, <1>7 DEF RunInv
<1>18. \A u, v \in Workers :
          Holds(u)' /\ Holds(v)' /\ wtask[u] = wtask[v] => u = v
  BY <1>5 DEF RunInv
<1>19. NoSpare' /\ bLen' \in Nat /\ aLen' \in Nat /\ submitted' \subseteq Tasks
       /\ wtask' \in [Workers -> {NoErr} \cup Tasks]
       /\ wshared' \in [Workers -> BOOLEAN]
  BY <1>1 DEF RunInv, NoSpare
<1>20. (\A i, j \in 1 .. Len(chan) : chan[i] = chan[j] => i = j)
       /\ (err # NoErr => failed' # {})
       /\ (pc \in {"setup", "check", "send"} => \A t \in submitted : t < next)
       /\ (pc = "add" => \A t \in submitted : t <= next)
  BY <1>10 DEF RunInv
<1> QED
  BY <1>1, <1>7, <1>9, <1>12, <1>13, <1>14, <1>15, <1>16, <1>17, <1>18,
     <1>19, <1>20
     DEF RunInv, InChan

(* The deferred decrement and the recording of the error.                  *)
LEMMA RunDecrRecord ==
    ASSUME IInv, RunInv, NEW w \in Workers, Decr(w) \/ Record(w)
    PROVE  RunInv'
<1>1. UNCHANGED <<pc, next, bLen, bCap, aLen, chan, wtask, wshared, wfail,
                  runs, failed, submitted>>
  BY DEF Decr, Record, callerVars
<1>2. \A v \in Workers : Holds(v)' <=> Holds(v)
  BY DEF Decr, Record, Holds, IInv, PType
<1>3. CASE Decr(w)
  BY <1>1, <1>2, <1>3 DEF Decr, RunInv, NoSpare, InChan, IInv, PType
<1>4. CASE Record(w)
  <2>1. failed # {}
    BY <1>4 DEF Record, RunInv
  <2> QED
    BY <1>1, <1>2, <1>4, <2>1 DEF Record, RunInv, NoSpare, InChan, IInv, PType
<1> QED
  BY <1>3, <1>4

(* Every step keeps the strengthening, as long as beforeTasks never holds  *)
(* more than two functions.                                                *)
LEMMA RunInvStep ==
    ASSUME MaxBefore <= 2
    PROVE  IInv /\ RunInv /\ [Next]_vars => RunInv'
<1> SUFFICES ASSUME IInv, RunInv, [Next]_vars PROVE RunInv'
  OBVIOUS
<1>1. CASE GoSend
  BY <1>1, RunSend DEF GoSend
<1>2. CASE TryGoSend
  <2>1. CASE Len(chan) < Cap
    BY <1>2, <2>1, RunSend DEF TryGoSend
  <2>2. CASE ~(Len(chan) < Cap)
    <3>1. UNCHANGED <<bLen, bCap, aLen, chan, err, submitted, workerVars>>
          /\ next' = next + 1 /\ pc' \in {"check", "wait"} /\ pc = "send"
      BY <1>2, <2>2 DEF TryGoSend, Advance
    <3>2. next \in Nat /\ submitted \subseteq Nat
      BY DEF RunInv, IInv, PType, Tasks
    <3> QED
      BY <3>1, <3>2 DEF workerVars, RunInv, NoSpare, Holds, InChan
  <2> QED
    BY <2>1, <2>2
<1>3. CASE UNCHANGED vars
  BY <1>3 DEF vars, RunInv, NoSpare, Holds, InChan
<1> QED
  BY <1>1, <1>2, <1>3, RunSetBefore, RunCallerQuiet, RunRecv, RunCheck,
     RunRun, RunDecrRecord
     DEF Next, Caller, Worker

(* Once Wait has returned, the strengthening gives EachTaskRunOnce.        *)
LEMMA RunInvOnce == IInv /\ RunInv => EachTaskRunOnce
<1> SUFFICES ASSUME IInv, RunInv PROVE EachTaskRunOnce
  OBVIOUS
<1>1. \A t \in Tasks : runs[t] <= 1
  BY DEF RunInv
<1>2. ASSUME pc = "done", failed = {}, NEW t \in submitted PROVE runs[t] = 1
  <2>1. chan = <<>> /\ \A w \in Workers : ~Holds(w)
    BY <1>2, IInvJoin DEF JoinComplete, Holds
  <2>2. ~InChan(t)
    BY <2>1 DEF InChan
  <2>3. err = NoErr
    BY <1>2 DEF RunInv
  <2> QED
    BY <1>2, <2>1, <2>2, <2>3 DEF RunInv
<1> QED
  BY <1>1, <1>2 DEF EachTaskRunOnce

(* With at most two before tasks (none are installed anywhere in the      *)
(* repository), no worker ever runs a task twice or another worker's      *)
(* task, and Wait returns, when no doTask failed, only after every         *)
(* submitted task ran exactly once: for every number of workers and tasks. *)
THEOREM EachTaskRunsOnce ==
    ASSUME MaxBefore <= 2
    PROVE  Spec => []EachTaskRunOnce
<1>1. Init => IInv /\ RunInv
  BY IInvInit, RunInvInit
<1>2. IInv /\ RunInv /\ [Next]_vars => IInv' /\ RunInv'
  BY IInvStep, RunInvStep
<1>3. IInv /\ RunInv => EachTaskRunOnce
  BY RunInvOnce
<1> QED
  BY <1>1, <1>2, <1>3, PTL DEF Spec

-----------------------------------------------------------------------------
(* Type correctness.                                                       *)
(*                                                                         *)
(* GrowCap's size-class table stops at 16 elements (128 bytes), which     *)
(* every append of at most nine before tasks stays within.  taskCount is   *)
(* bounded by the tasks submitted so far: only the caller's Add(1) after   *)
(* each send raises it.                                                    *)

TInv ==
    /\ TypeOK
    /\ taskCount <= next - 1
    /\ \A w \in Workers : wpc[w] # "idle" => wtask[w] \in Tasks

(* growslice with room to spare keeps the capacity; otherwise it takes a  *)
(* size class at least the needed length.                                  *)
LEMMA GrowCapType ==
    ASSUME NEW l \in Nat, NEW c \in Nat, NEW k \in Nat \ {0}, l <= c,
           l + k <= 9
    PROVE  GrowCap(l, c, k) \in Nat /\ GrowCap(l, c, k) >= l + k
<1>1. CASE l + k <= c
  BY <1>1 DEF GrowCap
<1>2. CASE ~(l + k <= c)
  <2> DEFINE want == IF l + k > 2 * c THEN l + k ELSE 2 * c
             ch == CHOOSE x \in SizeClassCaps :
                      /\ x >= want
                      /\ \A d \in SizeClassCaps : d >= want => x <= d
  <2>1. want <= 16 /\ want >= l + k
    BY <1>2
  <2>2. \E x \in SizeClassCaps :
           /\ x >= want
           /\ \A d \in SizeClassCaps : d >= want => x <= d
    <3>1. \A n \in 0 .. 16 : \E x \in SizeClassCaps :
             /\ x >= n
             /\ \A d \in SizeClassCaps : d >= n => x <= d
      BY DEF SizeClassCaps
    <3>2. want \in 0 .. 16
      BY <2>1
    <3> QED
      BY <3>1, <3>2
  <2>3. ch \in SizeClassCaps /\ ch >= want
    BY <2>2
  <2>4. GrowCap(l, c, k) = ch
    BY <1>2 DEF GrowCap
  <2>5. ch \in Nat
    <3>1. SizeClassCaps \subseteq Nat
      BY DEF SizeClassCaps
    <3> QED
      BY <2>3, <3>1
  <2> QED
    BY <2>1, <2>3, <2>4, <2>5
<1> QED
  BY <1>1, <1>2

(* The strengthening holds initially.                                      *)
LEMMA TInvInit == Init => TInv
<1>1. Cap \in Nat
  BY FS_CardinalityType DEF Cap
<1> QED
  BY <1>1 DEF Init, TInv, TypeOK, Tasks, NoErr

(* Cap is a number.                                                        *)
LEMMA CapNat == Cap \in Nat
BY FS_CardinalityType DEF Cap

(* The caller's steps keep the type.                                       *)
LEMMA TypeCaller ==
    ASSUME MaxBefore <= 9, TInv, IInv, Caller
    PROVE  TInv'
<1> USE DEF TInv, TypeOK
<1>0. Cap \in Nat
  BY CapNat
<1>1. CASE SetBeforeTasks
  <2>1. PICK k \in 1 .. MaxBefore - bLen :
               bLen' = bLen + k /\ bCap' = GrowCap(bLen, bCap, k)
    BY <1>1 DEF SetBeforeTasks
  <2>2. bCap' \in Nat /\ bCap' >= bLen'
    <3>1. k \in Nat \ {0} /\ bLen + k <= 9
      BY <2>1
    <3> QED
      BY <2>1, <3>1, GrowCapType
  <2> QED
    BY <1>1, <2>1, <2>2 DEF SetBeforeTasks, workerVars
<1>2. CASE SetAfterTasks
  BY <1>2 DEF SetAfterTasks, workerVars
<1>3. CASE CheckErr
  <2>1. next \in Tasks
    BY <1>3 DEF CheckErr, IInv, PType
  <2> QED
    BY <1>3, <2>1 DEF CheckErr, Advance, workerVars, Tasks
<1>4. ASSUME pc = "send", Len(chan) < Cap,
             chan' = Append(chan, next), submitted' = submitted \cup {next},
             pc' = "add", UNCHANGED <<next, api, result, bLen, bCap, aLen,
                                     taskCount, err, workerVars>>
      PROVE  TInv'
  <2>1. next \in Tasks
    BY <1>4 DEF IInv, PType
  <2>2. chan' \in Seq(Tasks) /\ Len(chan') = Len(chan) + 1
    BY <1>4, <2>1, AppendProperties
  <2> QED
    BY <1>0, <1>4, <2>1, <2>2 DEF workerVars
<1>5. CASE GoSend
  BY <1>4, <1>5 DEF GoSend
<1>6. CASE TryGoSend
  <2>1. CASE Len(chan) < Cap
    BY <1>4, <1>6, <2>1 DEF TryGoSend
  <2>2. CASE ~(Len(chan) < Cap)
    <3>1. next \in Tasks
      BY <1>6 DEF TryGoSend, IInv, PType
    <3>2. /\ UNCHANGED <<chan, submitted, api, result, bLen, bCap, aLen,
                         taskCount, err, workerVars>>
          /\ next' = next + 1 /\ pc' \in {"check", "wait"}
      BY <1>6, <2>2 DEF TryGoSend, Advance
    <3> QED
      BY <3>1, <3>2 DEF workerVars, Tasks
  <2> QED
    BY <2>1, <2>2
<1>7. CASE AddCount
  <2>1. next \in Tasks
    BY <1>7 DEF AddCount, IInv, PType
  <2> QED
    BY <1>7, <2>1 DEF AddCount, Advance, workerVars, Tasks
<1>8. CASE Wait
  BY <1>8 DEF Wait, workerVars
<1> QED
  BY <1>1, <1>2, <1>3, <1>5, <1>6, <1>7, <1>8 DEF Caller

(* The workers' steps keep the type.                                       *)
LEMMA TypeWorker ==
    ASSUME TInv, IInv, NEW w \in Workers, Worker(w)
    PROVE  TInv'
<1> USE DEF TInv, TypeOK
<1>1. CASE Recv(w)
  <2>1. Head(chan) \in Tasks /\ chan' \in Seq(Tasks) /\ Len(chan') = Len(chan) - 1
    BY <1>1, HeadTailProperties DEF Recv
  <2>2. wtask' \in [Workers -> {NoErr} \cup Tasks]
        /\ wpc' \in [Workers -> {"idle", "check", "run", "decr", "record"}]
        /\ \A v \in Workers : wpc'[v] # "idle" => wtask'[v] \in Tasks
    BY <1>1, <2>1 DEF Recv
  <2>3. UNCHANGED <<pc, next, api, result, bLen, bCap, aLen, submitted,
                    taskCount, err, wshared, wfail, slot, runs, failed>>
    BY <1>1 DEF Recv, callerVars
  <2>4. Len(chan') <= Cap
    BY <2>1, CapNat
  <2> QED
    BY <2>1, <2>2, <2>3, <2>4
<1>2. CASE Check(w)
  <2>1. wtask[w] \in Tasks /\ SharesArray \in BOOLEAN
    BY <1>2 DEF Check, SharesArray
  <2> QED
    BY <1>2, <2>1 DEF Check, callerVars
<1>3. CASE Run(w)
  <2>1. wtask[w] \in Tasks
    BY <1>3 DEF Run
  <2>2. \A f \in {NoErr} \cup Tasks : [runs EXCEPT ![f] = @ + 1] \in [Tasks -> Nat]
    <3> SUFFICES ASSUME NEW f \in {NoErr} \cup Tasks
                 PROVE  [runs EXCEPT ![f] = @ + 1] \in [Tasks -> Nat]
      OBVIOUS
    <3>1. CASE f \in Tasks
      BY <3>1
    <3>2. CASE f \notin Tasks
      <4>1. [runs EXCEPT ![f] = @ + 1] = runs
        BY <3>2
      <4> QED
        BY <4>1
    <3> QED
      BY <3>1, <3>2
  <2>3. (IF wshared[w] THEN slot ELSE wtask[w]) \in {NoErr} \cup Tasks
    OBVIOUS
  <2>4. PICK o \in Outcomes :
          /\ runs' = IF o = "beforeFail" THEN runs
                     ELSE [runs EXCEPT ![IF wshared[w] THEN slot ELSE wtask[w]] = @ + 1]
          /\ wfail' = [wfail EXCEPT ![w] = (o # "ok")]
          /\ failed' = IF o # "ok" THEN failed \cup {wtask[w]} ELSE failed
    BY <1>3 DEF Run
  <2>5. runs' \in [Tasks -> Nat] /\ failed' \subseteq Tasks
        /\ wfail' \in [Workers -> BOOLEAN]
    BY <2>1, <2>2, <2>3, <2>4
  <2> QED
    BY <1>3, <2>5 DEF Run, callerVars
<1>4. CASE Decr(w)
  <2>1. IsFiniteSet(Busy) /\ Cardinality(Busy) \in Nat
    BY BusyFinite DEF IInv
  <2>2. w \in Busy
    BY <1>4 DEF Decr, Busy
  <2>3. Cardinality(Busy) >= 1
    BY <2>1, <2>2, FS_EmptySet
  <2>4. taskCount >= 0
    BY <2>1, <2>3 DEF IInv, CountInv, PType
  <2> QED
    BY <1>4, <2>4 DEF Decr, callerVars
<1>5. CASE Record(w)
  <2>1. wtask[w] \in Tasks
    BY <1>5 DEF Record
  <2> QED
    BY <1>5, <2>1 DEF Record, callerVars, NoErr
<1> QED
  BY <1>1, <1>2, <1>3, <1>4, <1>5 DEF Worker

(* Every step keeps the type strengthening.                                *)
LEMMA TInvStep ==
    ASSUME MaxBefore <= 9
    PROVE  TInv /\ IInv /\ [Next]_vars => TInv'
<1> SUFFICES ASSUME TInv, IInv, [Next]_vars PROVE TInv'
  OBVIOUS
<1>1. CASE UNCHANGED vars
  BY <1>1 DEF vars, TInv, TypeOK
<1> QED
  BY <1>1, TypeCaller, TypeWorker DEF Next

(* With at most nine before tasks (the slices GrowCap's size-class table   *)
(* covers), every variable keeps its type for every number of workers and  *)
(* tasks: in particular taskCount never exceeds the tasks submitted, never *)
(* falls below -1, and the channel never holds more than its capacity.     *)
THEOREM TypeCorrect ==
    ASSUME MaxBefore <= 9
    PROVE  Spec => []TypeOK
<1>1. Init => TInv /\ IInv
  BY TInvInit, IInvInit
<1>2. TInv /\ IInv /\ [Next]_vars => TInv' /\ IInv'
  BY TInvStep, IInvStep
<1>3. TInv => TypeOK
  BY DEF TInv
<1> QED
  BY <1>1, <1>2, <1>3, PTL DEF Spec
====
