--------------------------- MODULE GroupSyncProofs ---------------------------
(***************************************************************************)
(* Proofs about GroupSync for every set of groups and users and every     *)
(* bound: no version record outlives its group, and a FullSync pass that  *)
(* completes leaves the local group table equal to the fetched server     *)
(* list with one notification per key.                                    *)
(***************************************************************************)
EXTENDS GroupSync, TLAPS

USE GroupSyncAssumption

\* The keys of the pass's server list.
PassKeys == {g \in Groups : snap[g] # Absent}

\* A member change log never outgrows the count of server events, so a
\* recorded version stays within 0..MaxEvents.
LogInv == \A g \in Groups : Len(svrLog[g]) <= events

\* During the walk: todo holds unwalked server keys, rest the local keys
\* not yet matched; a server key still to walk is in rest exactly when it
\* was local at the start; a local key the walk will not reach is not on
\* the server.  Every key out of both is done: its row is the server's and
\* its notifications are the expected ones.
WalkInv ==
    pc = "walk" =>
        /\ todo \subseteq PassKeys /\ rest \subseteq before
        /\ ~(before = {} /\ PassKeys # {})
        /\ \A g \in todo : g \in rest <=> g \in before
        /\ \A g \in rest \ todo : g \notin PassKeys
        /\ \A g \in rest : lgroup[g] # Absent
        /\ \A g \in todo \ rest : lgroup[g] = Absent
        /\ \A g \in todo \cup rest : notes[g] = <<>>
        /\ \A g \in Groups \ (todo \cup rest) :
               lgroup[g] = snap[g] /\ notes[g] = ExpectedNotes(before, PassKeys)[g]

\* The batch path starts from an empty local table.
BatchInv == pc = "batch" => LocalKeys = {} /\ before = {} /\ PassKeys # {}

IInv == TypeOK /\ VersionOwnedByGroup /\ LogInv /\ WalkInv /\ BatchInv

-----------------------------------------------------------------------------
(* Lemmas about the helpers.                                               *)

LEMMA ApplyLogType ==
    ASSUME NEW L, NEW log, NEW a, NEW b
    PROVE  ApplyLog(L, log, a, b) \subseteq Users
BY DEF ApplyLog

LEMMA PartialFullType ==
    ASSUME NEW L \in SUBSET Users, NEW S \in SUBSET Users
    PROVE  PartialFull(L, S) \subseteq SUBSET Users
BY DEF PartialFull

LEMMA OneSeq ==
    ASSUME NEW x
    PROVE  Append(<<>>, x) = <<x>>
OBVIOUS

-----------------------------------------------------------------------------
(* The initial state satisfies the inductive invariant.                    *)

LEMMA InitIInv == Init => IInv
BY DEF Init, IInv, TypeOK, VersionOwnedByGroup, LogInv, WalkInv, BatchInv,
       NoVer, Absent, PassKeys, LocalKeys

-----------------------------------------------------------------------------
(* The server's steps change neither the client nor the pass.              *)

LEMMA ServerStep ==
    ASSUME IInv, NEW g \in Groups,
           \/ Join(g) \/ Leave(g) \/ Dismiss(g)
           \/ \E c \in Change : MemberChange(g, c)
    PROVE  IInv'
<1> USE DEF IInv
<1>1. UNCHANGED <<lgroup, lmembers, vrec, pass, fails>>
  BY DEF Join, Leave, Dismiss, MemberChange, pass
<1>2. events < MaxEvents /\ events' = events + 1
  BY DEF Join, Leave, Dismiss, MemberChange
<1>3. svrJoined' \subseteq Groups /\ svrDismissed' \subseteq Groups
  BY DEF Join, Leave, Dismiss, MemberChange, TypeOK
<1>4. svrLog' \in [Groups -> Seq(Change)] /\ LogInv'
  <2>1. CASE \E c \in Change : MemberChange(g, c)
    BY <1>2, <2>1 DEF MemberChange, TypeOK, LogInv
  <2>2. CASE Join(g) \/ Leave(g) \/ Dismiss(g)
    BY <1>2, <2>2 DEF Join, Leave, Dismiss, TypeOK, LogInv
  <2>3. QED BY <2>1, <2>2
<1>5. TypeOK'
  BY <1>1, <1>2, <1>3, <1>4 DEF TypeOK, pass
<1>6. (VersionOwnedByGroup /\ WalkInv /\ BatchInv)'
  BY <1>1 DEF pass, VersionOwnedByGroup, WalkInv, BatchInv, PassKeys, LocalKeys
<1>7. QED BY <1>4, <1>5, <1>6

-----------------------------------------------------------------------------
(* The member sync runs while no pass does and writes only the members,   *)
(* the version record and the failure count.                               *)

LEMMA MemberSyncStep ==
    ASSUME IInv, NEW g \in Groups, MemberSync(g)
    PROVE  IInv'
<1> USE DEF IInv
<1>1. /\ pc = "idle" /\ lgroup[g] = "normal"
      /\ UNCHANGED <<server, lgroup, pass, events>>
  BY DEF MemberSync, GetVersionSync
<1>2. vrec' = vrec \/ vrec' = [vrec EXCEPT ![g] = Len(svrLog[g])]
  BY DEF MemberSync, GetVersionSync, RecordVersion
<1>3. Len(svrLog[g]) \in 0..MaxEvents
  BY DEF TypeOK, LogInv
<1>4. vrec' \in [Groups -> {NoVer} \cup 0..MaxEvents]
  BY <1>2, <1>3 DEF TypeOK
<1>5. fails' = fails \/ (fails < MaxFails /\ fails' = fails + 1)
  BY DEF MemberSync, GetVersionSync, RecordVersion, Fail
<1>6. \E Y \in SUBSET Users : lmembers' = [lmembers EXCEPT ![g] = Y]
  <2> DEFINE L == lmembers[g]
             S == SvrMembers(g)
             n == Len(svrLog[g])
  <2>1. L \in SUBSET Users /\ S \in SUBSET Users
    BY ApplyLogType DEF TypeOK, SvrMembers
  <2>2. PartialFull(L, S) \subseteq SUBSET Users
    BY <2>1, PartialFullType
  <2>3. \A a, b : ApplyLog(L, svrLog[g], a, b) \in SUBSET Users
    BY ApplyLogType
  <2>4. QED
    BY <2>1, <2>2, <2>3 DEF MemberSync, GetVersionSync
<1>7. TypeOK'
  BY <1>1, <1>4, <1>5, <1>6 DEF TypeOK, server, pass
<1>8. VersionOwnedByGroup'
  BY <1>1, <1>2 DEF VersionOwnedByGroup, TypeOK, Absent
<1>9. (LogInv /\ WalkInv /\ BatchInv)'
  BY <1>1 DEF LogInv, WalkInv, BatchInv, server, pass
<1>10. QED BY <1>7, <1>8, <1>9


-----------------------------------------------------------------------------
(* A step that ends the pass keeps the pass's own invariants trivially;  *)
(* what it must keep is the type and that no record outlives its group.   *)

LEMMA StartPassStep ==
    ASSUME IInv, StartPass
    PROVE  IInv'
<1> USE DEF IInv
<1>1. UNCHANGED <<server, lgroup, lmembers, vrec, events>>
  BY DEF StartPass
<1>2. CASE Fail /\ UNCHANGED pass
  <2>1. UNCHANGED <<pc, snap, before, todo, rest, notes>> /\ fails' \in 0..MaxFails
    BY <1>2 DEF Fail, pass, TypeOK
  <2>2. TypeOK'
    BY <1>1, <2>1 DEF TypeOK, server
  <2>3. (VersionOwnedByGroup /\ LogInv /\ WalkInv /\ BatchInv)'
    BY <1>1, <2>1 DEF VersionOwnedByGroup, LogInv, WalkInv, BatchInv,
                      PassKeys, LocalKeys, server
  <2>4. QED BY <2>2, <2>3
<1>3. CASE ~(Fail /\ UNCHANGED pass)
  <2> DEFINE SV == {g \in Groups : ServerView[g] # Absent}
  <2>1. /\ snap' = ServerView /\ before' = LocalKeys
        /\ todo' = SV /\ rest' = LocalKeys
        /\ notes' = [g \in Groups |-> <<>>]
        /\ pc' = IF LocalKeys = {} /\ SV # {} THEN "batch" ELSE "walk"
        /\ fails' = fails
    BY <1>3 DEF StartPass
  <2>2. PassKeys' = SV /\ LocalKeys' = LocalKeys
    BY <1>1, <2>1 DEF PassKeys, LocalKeys
  <2>3. TypeOK'
    BY <1>1, <2>1 DEF TypeOK, ServerView, LocalKeys, server, Statuses, Absent
  <2>4. (VersionOwnedByGroup /\ LogInv)'
    BY <1>1 DEF VersionOwnedByGroup, LogInv, server
  <2>5. BatchInv'
    BY <2>1, <2>2 DEF BatchInv
  <2>6. WalkInv'
    <3> SUFFICES ASSUME pc' = "walk" PROVE WalkInv!2'
      BY DEF WalkInv
    <3>1. ~(LocalKeys = {} /\ SV # {})
      BY <2>1
    <3>2. ASSUME NEW g \in Groups \ (todo' \cup rest')
          PROVE  lgroup'[g] = snap'[g] /\ notes'[g] = ExpectedNotes(before', PassKeys')[g]
      BY <1>1, <2>1, <2>2, <3>1 DEF LocalKeys, ExpectedNotes
    <3>3. QED
      BY <1>1, <2>1, <2>2, <3>1, <3>2 DEF LocalKeys
  <2>7. QED BY <2>3, <2>4, <2>5, <2>6
<1>4. QED BY <1>2, <1>3

LEMMA BatchInsertStep ==
    ASSUME IInv, BatchInsertGroup
    PROVE  IInv'
<1> USE DEF IInv
<1>1. /\ pc = "batch" /\ pc' = "idle"
      /\ UNCHANGED <<server, lmembers, vrec, events, snap, before, todo, rest>>
  BY DEF BatchInsertGroup, EndPass
<1>2. \A g \in Groups : vrec[g] = NoVer
  BY <1>1 DEF BatchInv, VersionOwnedByGroup, LocalKeys
<1>3. \/ fails < MaxFails /\ fails' = fails + 1 /\ UNCHANGED <<lgroup, notes>>
      \/ /\ lgroup' = snap /\ fails' = fails
         /\ notes' = [g \in Groups |-> IF snap[g] # Absent THEN <<"batch">> ELSE <<>>]
  BY DEF BatchInsertGroup, Fail
<1>4. TypeOK'
  <2>1. lgroup' \in [Groups -> Statuses \cup {Absent}] /\ fails' \in 0..MaxFails
    BY <1>3 DEF TypeOK
  <2>2. notes' \in [Groups -> Seq(NoticeKinds)]
    <3>1. <<"batch">> \in Seq(NoticeKinds) /\ <<>> \in Seq(NoticeKinds)
      BY DEF NoticeKinds
    <3>2. QED BY <1>3, <3>1 DEF TypeOK
  <2>3. QED BY <1>1, <2>1, <2>2 DEF TypeOK, server
<1>5. (VersionOwnedByGroup /\ LogInv /\ WalkInv /\ BatchInv)'
  BY <1>1, <1>2 DEF VersionOwnedByGroup, LogInv, WalkInv, BatchInv, server
<1>6. QED BY <1>4, <1>5

LEMMA PassDoneStep ==
    ASSUME IInv, PassDone
    PROVE  IInv'
BY DEF PassDone, EndPass, IInv, TypeOK, VersionOwnedByGroup, LogInv, WalkInv,
       BatchInv, server


-----------------------------------------------------------------------------
(* The walk (step 4) and the deletes of step 5.  A failed hook call ends *)
(* the pass, which voids the pass's invariants.                            *)

\* A failed call ends the pass; the calls before it may have cleared the
\* group's members and its version record.
LEMMA AbortStep ==
    ASSUME IInv, Fail, EndPass, UNCHANGED <<server, lgroup, notes, events>>,
           lmembers' \in [Groups -> SUBSET Users],
           vrec' \in [Groups -> {NoVer} \cup 0..MaxEvents],
           \A h \in Groups : vrec'[h] # NoVer => vrec[h] # NoVer
    PROVE  IInv'
<1> USE DEF IInv
<1>1. pc' = "idle" /\ fails' \in 0..MaxFails /\ UNCHANGED <<snap, before, todo, rest>>
  BY DEF Fail, EndPass, TypeOK
<1>2. TypeOK'
  BY <1>1 DEF TypeOK, server
<1>3. QED
  BY <1>1, <1>2 DEF VersionOwnedByGroup, LogInv, WalkInv, BatchInv, server

\* The walk's insert hook on a server key not found locally.
LEMMA InsertStep ==
    ASSUME IInv, NEW g \in Groups, pc = "walk", g \in todo, g \notin rest,
           InsertGroup(g), UNCHANGED <<server, vrec, events>>
    PROVE  IInv'
<1> USE DEF IInv
<1>1. CASE Fail /\ EndPass /\ UNCHANGED <<lgroup, lmembers, notes>>
  BY <1>1, AbortStep DEF TypeOK
<1>2. CASE ~(Fail /\ EndPass /\ UNCHANGED <<lgroup, lmembers, notes>>)
  <2>1. /\ lgroup' = [lgroup EXCEPT ![g] = snap[g]]
        /\ notes' = [notes EXCEPT ![g] = Append(@, "insert")]
        /\ todo' = todo \ {g}
        /\ UNCHANGED <<pc, snap, before, rest, lmembers, fails>>
    BY <1>2 DEF InsertGroup, Note
  <2>2. /\ g \in PassKeys /\ g \notin before /\ snap[g] # Absent
        /\ notes[g] = <<>> /\ ~(before = {} /\ PassKeys # {})
        /\ PassKeys' = PassKeys
    BY <2>1 DEF WalkInv, PassKeys
  <2>3. notes'[g] = <<"insert">> /\ ExpectedNotes(before, PassKeys)[g] = <<"insert">>
    BY <2>1, <2>2, OneSeq DEF TypeOK, ExpectedNotes
  <2>4. TypeOK'
    <3>1. <<"insert">> \in Seq(NoticeKinds)
      BY DEF NoticeKinds
    <3>2. QED BY <2>1, <2>3, <3>1 DEF TypeOK, server
  <2>5. (VersionOwnedByGroup /\ LogInv /\ BatchInv)'
    BY <2>1, <2>2 DEF VersionOwnedByGroup, LogInv, BatchInv, TypeOK, server
  <2>6. WalkInv'
    <3> SUFFICES WalkInv!2'
      BY DEF WalkInv
    <3>1. ASSUME NEW h \in Groups \ (todo' \cup rest')
          PROVE  lgroup'[h] = snap'[h] /\ notes'[h] = ExpectedNotes(before', PassKeys')[h]
      <4>1. CASE h = g
        BY <2>1, <2>2, <2>3, <4>1 DEF TypeOK
      <4>2. CASE h # g
        BY <2>1, <2>2, <3>1, <4>2 DEF TypeOK, WalkInv
      <4>3. QED BY <4>1, <4>2
    <3>2. QED
      BY <2>1, <2>2, <3>1 DEF TypeOK, WalkInv
  <2>7. QED BY <2>4, <2>5, <2>6
<1>3. QED BY <1>1, <1>2


\* The walk's update hook on a server key found locally.
LEMMA UpdateStep ==
    ASSUME IInv, NEW g \in Groups, pc = "walk", g \in todo, g \in rest,
           UpdateGroup(g), UNCHANGED <<server, vrec, events>>
    PROVE  IInv'
<1> USE DEF IInv
<1>1. CASE Fail /\ EndPass /\ UNCHANGED <<lgroup, lmembers, notes>>
  BY <1>1, AbortStep DEF TypeOK
<1>2. CASE ~(Fail /\ EndPass /\ UNCHANGED <<lgroup, lmembers, notes>>)
  <2>1. /\ lgroup' = [lgroup EXCEPT ![g] = snap[g]]
        /\ notes' = [notes EXCEPT ![g] = Append(@, "update")]
        /\ todo' = todo \ {g} /\ rest' = rest \ {g}
        /\ UNCHANGED <<pc, snap, before>>
        /\ \/ UNCHANGED <<lmembers, fails>>
           \/ lmembers' = [lmembers EXCEPT ![g] = {}] /\ fails' = fails
           \/ UNCHANGED lmembers /\ fails < MaxFails /\ fails' = fails + 1
    BY <1>2 DEF UpdateGroup, Note, Fail
  <2>2. /\ g \in PassKeys /\ g \in before /\ snap[g] # Absent
        /\ notes[g] = <<>> /\ ~(before = {} /\ PassKeys # {})
        /\ PassKeys' = PassKeys
    BY <2>1 DEF WalkInv, PassKeys
  <2>3. notes'[g] = <<"update">> /\ ExpectedNotes(before, PassKeys)[g] = <<"update">>
    BY <2>1, <2>2, OneSeq DEF TypeOK, ExpectedNotes
  <2>4. TypeOK'
    <3>1. <<"update">> \in Seq(NoticeKinds)
      BY DEF NoticeKinds
    <3>2. lmembers' \in [Groups -> SUBSET Users] /\ fails' \in 0..MaxFails
      <4>1. fails \in 0..MaxFails /\ lmembers \in [Groups -> SUBSET Users]
        BY DEF TypeOK
      <4>2. QED BY <2>1, <4>1
    <3>3. QED BY <2>1, <2>3, <3>1, <3>2 DEF TypeOK, server
  <2>5. (VersionOwnedByGroup /\ LogInv /\ BatchInv)'
    BY <2>1, <2>2 DEF VersionOwnedByGroup, LogInv, BatchInv, TypeOK, server
  <2>6. WalkInv'
    <3> SUFFICES WalkInv!2'
      BY DEF WalkInv
    <3>1. ASSUME NEW h \in Groups \ (todo' \cup rest')
          PROVE  lgroup'[h] = snap'[h] /\ notes'[h] = ExpectedNotes(before', PassKeys')[h]
      <4>1. CASE h = g
        BY <2>1, <2>2, <2>3, <4>1 DEF TypeOK
      <4>2. CASE h # g
        BY <2>1, <2>2, <3>1, <4>2 DEF TypeOK, WalkInv
      <4>3. QED BY <4>1, <4>2
    <3>2. QED
      BY <2>1, <2>2, <3>1 DEF TypeOK, WalkInv
  <2>7. QED BY <2>4, <2>5, <2>6
<1>3. QED BY <1>1, <1>2

\* Step 5: the delete hook on a local key the server did not list.  Its
\* three calls may each fail, after the earlier ones have been written.
LEMMA DeleteStep ==
    ASSUME IInv, NEW g \in Groups, pc = "walk", todo = {}, g \in rest,
           DeleteGroupHook(g), UNCHANGED <<server, events>>
    PROVE  IInv'
<1> USE DEF IInv
<1>1. CASE Fail /\ EndPass /\ UNCHANGED <<lgroup, lmembers, vrec, notes>>
  BY <1>1, AbortStep DEF TypeOK
<1>2. CASE /\ Fail /\ EndPass /\ UNCHANGED <<lgroup, vrec, notes>>
           /\ lmembers' = [lmembers EXCEPT ![g] = {}]
  BY <1>2, AbortStep DEF TypeOK
<1>3. CASE /\ Fail /\ EndPass /\ UNCHANGED <<lgroup, notes>>
           /\ lmembers' = [lmembers EXCEPT ![g] = {}]
           /\ vrec' = [vrec EXCEPT ![g] = NoVer]
  BY <1>3, AbortStep DEF TypeOK
<1>4. CASE /\ lmembers' = [lmembers EXCEPT ![g] = {}]
           /\ vrec' = [vrec EXCEPT ![g] = NoVer]
           /\ lgroup' = [lgroup EXCEPT ![g] = Absent] /\ Note(g, "delete")
           /\ rest' = rest \ {g}
           /\ UNCHANGED <<pc, snap, before, todo, fails>>
  <2>1. /\ lmembers' = [lmembers EXCEPT ![g] = {}]
        /\ vrec' = [vrec EXCEPT ![g] = NoVer]
        /\ lgroup' = [lgroup EXCEPT ![g] = Absent]
        /\ notes' = [notes EXCEPT ![g] = Append(@, "delete")]
        /\ rest' = rest \ {g}
        /\ UNCHANGED <<pc, snap, before, todo, fails>>
    BY <1>4 DEF Note
  <2>2. /\ g \notin PassKeys /\ g \in before /\ snap[g] = Absent
        /\ notes[g] = <<>> /\ ~(before = {} /\ PassKeys # {})
        /\ PassKeys' = PassKeys
    BY <2>1 DEF WalkInv, PassKeys, TypeOK
  <2>3. notes'[g] = <<"delete">> /\ ExpectedNotes(before, PassKeys)[g] = <<"delete">>
    BY <2>1, <2>2, OneSeq DEF TypeOK, ExpectedNotes
  <2>4. TypeOK'
    <3>1. <<"delete">> \in Seq(NoticeKinds)
      BY DEF NoticeKinds
    <3>2. QED BY <2>1, <2>3, <3>1 DEF TypeOK, server, NoVer, Absent
  <2>5. (VersionOwnedByGroup /\ LogInv /\ BatchInv)'
    BY <2>1 DEF VersionOwnedByGroup, LogInv, BatchInv, TypeOK, server
  <2>6. WalkInv'
    <3> SUFFICES WalkInv!2'
      BY DEF WalkInv
    <3>1. ASSUME NEW h \in Groups \ (todo' \cup rest')
          PROVE  lgroup'[h] = snap'[h] /\ notes'[h] = ExpectedNotes(before', PassKeys')[h]
      <4>1. CASE h = g
        BY <2>1, <2>2, <2>3, <4>1 DEF TypeOK
      <4>2. CASE h # g
        BY <2>1, <2>2, <3>1, <4>2 DEF TypeOK, WalkInv
      <4>3. QED BY <4>1, <4>2
    <3>2. QED
      BY <2>1, <2>2, <3>1 DEF TypeOK, WalkInv
  <2>7. QED BY <2>4, <2>5, <2>6
<1>5. QED BY <1>1, <1>2, <1>3, <1>4 DEF DeleteGroupHook, DeleteVersionSync


-----------------------------------------------------------------------------
(* The invariant is inductive: one case per disjunct of Next.             *)

LEMMA IInvStep == IInv /\ [Next]_vars => IInv'
<1> SUFFICES ASSUME IInv, [Next]_vars PROVE IInv'
  OBVIOUS
<1>1. CASE \E g \in Groups : Join(g) \/ Leave(g) \/ Dismiss(g)
  BY <1>1, ServerStep
<1>2. CASE \E g \in Groups, c \in Change : MemberChange(g, c)
  BY <1>2, ServerStep
<1>3. CASE StartPass
  BY <1>3, StartPassStep
<1>4. CASE BatchInsertGroup
  BY <1>4, BatchInsertStep
<1>5. CASE PassDone
  BY <1>5, PassDoneStep
<1>6. ASSUME NEW g \in Groups, Walk(g) PROVE IInv'
  <2>1. pc = "walk" /\ g \in todo /\ UNCHANGED <<server, vrec, events>>
    BY <1>6 DEF Walk
  <2>2. CASE g \in rest
    BY <1>6, <2>1, <2>2, UpdateStep DEF Walk
  <2>3. CASE g \notin rest
    BY <1>6, <2>1, <2>3, InsertStep DEF Walk
  <2>4. QED BY <2>2, <2>3
<1>7. ASSUME NEW g \in Groups, DeleteLocal(g) PROVE IInv'
  BY <1>7, DeleteStep DEF DeleteLocal
<1>8. ASSUME NEW g \in Groups, MemberSync(g) PROVE IInv'
  BY <1>8, MemberSyncStep
<1>9. CASE UNCHANGED vars
  BY <1>9 DEF vars, IInv, TypeOK, VersionOwnedByGroup, LogInv, WalkInv, BatchInv,
             PassKeys, LocalKeys
<1>10. QED BY <1>1, <1>2, <1>3, <1>4, <1>5, <1>6, <1>7, <1>8, <1>9 DEF Next

LEMMA AlwaysIInv == Spec => []IInv
BY InitIInv, IInvStep, PTL DEF Spec

-----------------------------------------------------------------------------
(* Theorems.                                                               *)

\* Every variable keeps its type: in particular a recorded version is a
\* position of the server's change log, within 0..MaxEvents.
THEOREM TypeCorrect == Spec => []TypeOK
BY AlwaysIInv, PTL DEF IInv

\* No version-sync record outlives the local group that owns it, however
\* the delete hook's three calls (group.go lines 74-77) fail, and the
\* member sync records versions of local groups only.
THEOREM VersionNeverOrphaned == Spec => []VersionOwnedByGroup
BY AlwaysIInv, PTL DEF IInv

\* A FullSync pass that ends without a failed call leaves the local group
\* table equal to the server list it fetched and has notified each key
\* once, with the kind spec section 8 asks for.
THEOREM PassCompletes == Spec => PassConverges
<1> DEFINE Ends == pc # "idle" /\ pc' = "idle" /\ fails' = fails
           Good == /\ lgroup' = snap
                   /\ notes' = ExpectedNotes(before, {g \in Groups : snap[g] # Absent})
<1>1. IInv /\ [Next]_vars => [Ends => Good]_vars
  <2> SUFFICES ASSUME IInv, [Next]_vars, Ends PROVE Good
    OBVIOUS
  <2> USE DEF IInv
  <2>1. fails \in Nat /\ lgroup \in [Groups -> Statuses \cup {Absent}]
        /\ snap \in [Groups -> Statuses \cup {Absent}]
    BY DEF TypeOK
  <2>2. CASE BatchInsertGroup
    <3>1. /\ lgroup' = snap
          /\ notes' = [g \in Groups |-> IF snap[g] # Absent THEN <<"batch">> ELSE <<>>]
      BY <2>1, <2>2 DEF BatchInsertGroup, Fail
    <3>2. before = {} /\ PassKeys # {}
      BY <2>2 DEF BatchInsertGroup, BatchInv
    <3>3. QED BY <3>1, <3>2 DEF ExpectedNotes, PassKeys
  <2>3. CASE PassDone
    <3>1. pc = "walk" /\ todo = {} /\ rest = {} /\ UNCHANGED <<lgroup, notes>>
      BY <2>3 DEF PassDone
    <3>2. \A g \in Groups : lgroup[g] = snap[g] /\ notes[g] = ExpectedNotes(before, PassKeys)[g]
      BY <3>1 DEF WalkInv
    <3>3. notes \in [Groups -> Seq(NoticeKinds)]
      BY DEF TypeOK
    <3>4. QED BY <2>1, <3>1, <3>2, <3>3 DEF ExpectedNotes, PassKeys
  <2>4. CASE \E g \in Groups : Walk(g) \/ DeleteLocal(g)
    <3>1. pc' = "walk" \/ fails' = fails + 1
      BY <2>4 DEF Walk, DeleteLocal, UpdateGroup, InsertGroup, DeleteGroupHook, Fail
    <3>2. QED BY <2>1, <3>1
  <2>5. CASE \/ \E g \in Groups : Join(g) \/ Leave(g) \/ Dismiss(g) \/ MemberSync(g)
             \/ \E g \in Groups, c \in Change : MemberChange(g, c)
             \/ StartPass \/ UNCHANGED vars
    BY <2>5 DEF Join, Leave, Dismiss, MemberSync, MemberChange, StartPass, vars, pass
  <2>6. QED BY <2>2, <2>3, <2>4, <2>5 DEF Next
<1>2. QED BY <1>1, AlwaysIInv, PTL DEF Spec, PassConverges

=============================================================================
