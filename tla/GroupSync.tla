------------------------------ MODULE GroupSync ------------------------------
(***************************************************************************)
(* The joined-group syncer of group.go with its hooks, the member sync     *)
(* that reads and writes version-sync records (version_sync.go), and the   *)
(* server whose state they replicate.                                      *)
(*                                                                         *)
(* The Reconciler that drives the hooks (package syncer) is not in this    *)
(* repository: its FullSync pass is modelled from spec section 4.1, one    *)
(* action per hook call, and so is the member sync's choice between a full *)
(* resync and an incremental replay of the server's change log (spec       *)
(* sections 3 and 6).  The client runs one sync at a time (spec section    *)
(* 5: passes over the same keys do not overlap).  Every database call may  *)
(* fail; a failed hook call aborts the pass (spec section 4.1 step 6).     *)
(***************************************************************************)
EXTENDS Integers, Sequences, FiniteSets

CONSTANTS
    Groups,      \* group IDs
    Users,       \* user IDs of other members
    MaxEvents,   \* bound on server-side changes (joins, leaves, dismissals,
                 \* member changes)
    MaxFails     \* bound on failed database or server calls

ASSUME GroupSyncAssumption ==
    /\ IsFiniteSet(Groups) /\ IsFiniteSet(Users)
    /\ MaxEvents \in Nat /\ MaxFails \in Nat

NoVer == -1                         \* no version-sync record
Statuses == {"normal", "dismissed"}  \* LocalGroup.Status, as far as it matters
Absent == "none"                    \* no local row / not in the server list
Change == [op : {"add", "del"}, u : Users]
NoticeKinds == {"insert", "update", "delete", "batch"}

VARIABLES
    svrJoined,     \* groups the login user has joined, on the server
    svrDismissed,  \* groups dismissed on the server
    svrLog,        \* per group, the server's member change log
    lgroup,        \* local_groups: Absent or the row's status
    lmembers,      \* local_group_members, per group
    vrec,          \* local_version_sync for the group's members: NoVer or
                   \* the version (a position in svrLog) it records
    pc,            \* the client: "idle", "batch" or "walk" (a pass)
    snap,          \* the pass's server list: group -> Absent or status
    before,        \* the local keys when the pass started
    todo,          \* server keys the walk has not reached
    rest,          \* local keys not yet matched by a server key
    notes,         \* per key, the notifications of the pass
    events, fails

vars == <<svrJoined, svrDismissed, svrLog, lgroup, lmembers, vrec, pc, snap,
          before, todo, rest, notes, events, fails>>
server == <<svrJoined, svrDismissed, svrLog>>
pass == <<pc, snap, before, todo, rest, notes>>

TypeOK ==
    /\ svrJoined \subseteq Groups /\ svrDismissed \subseteq Groups
    /\ svrLog \in [Groups -> Seq(Change)]
    /\ lgroup \in [Groups -> Statuses \cup {Absent}]
    /\ lmembers \in [Groups -> SUBSET Users]
    /\ vrec \in [Groups -> {NoVer} \cup 0..MaxEvents]
    /\ pc \in {"idle", "batch", "walk"}
    /\ snap \in [Groups -> Statuses \cup {Absent}]
    /\ before \subseteq Groups /\ todo \subseteq Groups /\ rest \subseteq Groups
    /\ notes \in [Groups -> Seq(NoticeKinds)]
    /\ events \in 0..MaxEvents /\ fails \in 0..MaxFails

-----------------------------------------------------------------------------
(* The member set the change log gives after applying entries from+1..to  *)
(* to the set L: the last entry about a user decides, an untouched user    *)
(* keeps its state in L.  An insert or delete of a member already there or *)
(* already gone is a no-op, so a replay is idempotent.                     *)
ApplyLog(L, log, from, to) ==
    {u \in Users :
        LET touched == {i \in from+1..to : log[i].u = u}
        IN  IF touched = {} THEN u \in L
            ELSE log[CHOOSE i \in touched : \A j \in touched : j <= i].op = "add"}

SvrMembers(g) == ApplyLog({}, svrLog[g], 0, Len(svrLog[g]))

LocalKeys == {g \in Groups : lgroup[g] # Absent}

Init ==
    /\ svrJoined = {} /\ svrDismissed = {}
    /\ svrLog = [g \in Groups |-> <<>>]
    /\ lgroup = [g \in Groups |-> Absent]
    /\ lmembers = [g \in Groups |-> {}]
    /\ vrec = [g \in Groups |-> NoVer]
    /\ pc = "idle" /\ snap = [g \in Groups |-> Absent]
    /\ before = {} /\ todo = {} /\ rest = {}
    /\ notes = [g \in Groups |-> <<>>]
    /\ events = 0 /\ fails = 0

\* A call that fails: nothing written, the failure counted.
Fail == fails < MaxFails /\ fails' = fails + 1

\* The pass ends: the client is idle again.
EndPass == pc' = "idle" /\ UNCHANGED <<snap, before, todo, rest>>

-----------------------------------------------------------------------------
(* The server: the login user joins or leaves groups, a group is dismissed, *)
(* members come and go.                                                    *)
Join(g) ==
    /\ events < MaxEvents /\ g \notin svrJoined \cup svrDismissed
    /\ svrJoined' = svrJoined \cup {g} /\ events' = events + 1
    /\ UNCHANGED <<svrDismissed, svrLog, lgroup, lmembers, vrec, pass, fails>>

Leave(g) ==
    /\ events < MaxEvents /\ g \in svrJoined
    /\ svrJoined' = svrJoined \ {g} /\ events' = events + 1
    /\ UNCHANGED <<svrDismissed, svrLog, lgroup, lmembers, vrec, pass, fails>>

Dismiss(g) ==
    /\ events < MaxEvents /\ g \in svrJoined \ svrDismissed
    /\ svrDismissed' = svrDismissed \cup {g} /\ events' = events + 1
    /\ UNCHANGED <<svrJoined, svrLog, lgroup, lmembers, vrec, pass, fails>>

MemberChange(g, c) ==
    /\ events < MaxEvents /\ g \notin svrDismissed
    /\ (c.op = "add") = (c.u \notin SvrMembers(g))
    /\ svrLog' = [svrLog EXCEPT ![g] = Append(@, c)] /\ events' = events + 1
    /\ UNCHANGED <<svrJoined, svrDismissed, lgroup, lmembers, vrec, pass, fails>>

-----------------------------------------------------------------------------
(* The Reconciler's FullSync over the joined-group list (spec 4.1).        *)

\* The server's joined-group list, with each group's status.
ServerView ==
    [g \in Groups |-> IF g \notin svrJoined THEN Absent
                      ELSE IF g \in svrDismissed THEN "dismissed" ELSE "normal"]

\* Steps 1-2: load the local groups, fetch every page of the server list.
\* Step 3: an empty local table and a non-empty server list take the batch
\* path.
StartPass ==
    /\ pc = "idle"
    /\ \/ Fail /\ UNCHANGED pass
       \/ LET SK == {g \in Groups : ServerView[g] # Absent}
          IN  /\ snap' = ServerView /\ before' = LocalKeys
              /\ todo' = SK /\ rest' = LocalKeys
              /\ notes' = [g \in Groups |-> <<>>]
              /\ pc' = IF LocalKeys = {} /\ SK # {} THEN "batch" ELSE "walk"
              /\ UNCHANGED fails
    /\ UNCHANGED <<server, lgroup, lmembers, vrec, events>>

Note(g, k) == notes' = [notes EXCEPT ![g] = Append(@, k)]

\* The batch-insert hook, group.go lines 124-126: one BatchInsertGroup of
\* the whole list, one BatchInsert notification.
BatchInsertGroup ==
    /\ pc = "batch"
    /\ \/ Fail /\ EndPass /\ UNCHANGED <<lgroup, notes>>
       \/ /\ lgroup' = snap
          /\ notes' = [g \in Groups |-> IF snap[g] # Absent THEN <<"batch">> ELSE <<>>]
          /\ EndPass /\ UNCHANGED fails
    /\ UNCHANGED <<server, lmembers, vrec, events>>

\* The insert hook, lines 67-69 (InsertGroup), then the Insert notice
\* (lines 88-98: OnJoinedGroupAdded and a conversation update).
InsertGroup(g) ==
    \/ Fail /\ EndPass /\ UNCHANGED <<lgroup, lmembers, notes>>
    \/ /\ lgroup' = [lgroup EXCEPT ![g] = snap[g]] /\ Note(g, "insert")
       /\ todo' = todo \ {g}
       /\ UNCHANGED <<pc, snap, before, rest, lmembers, fails>>

\* Mutant: a matched key is not marked visited, so step 5 deletes it.
UpdateGroupNoVisit(g) ==
    \/ Fail /\ EndPass /\ UNCHANGED <<lgroup, lmembers, notes>>
    \/ /\ lgroup' = [lgroup EXCEPT ![g] = snap[g]] /\ Note(g, "update")
       /\ todo' = todo \ {g}
       /\ \/ snap[g] # "dismissed" /\ UNCHANGED <<lmembers, fails>>
          \/ /\ snap[g] = "dismissed"
             /\ \/ lmembers' = [lmembers EXCEPT ![g] = {}] /\ UNCHANGED fails
                \/ Fail /\ UNCHANGED lmembers
       /\ UNCHANGED <<pc, snap, before, rest>>

\* The update hook, lines 79-82 (UpdateGroup with the server's value), then
\* the Update notice: a dismissed group loses its members, and the error of
\* DeleteGroupAllMembers is only logged (lines 104-108).
UpdateGroup(g) ==
    \/ Fail /\ EndPass /\ UNCHANGED <<lgroup, lmembers, notes>>
    \/ /\ lgroup' = [lgroup EXCEPT ![g] = snap[g]] /\ Note(g, "update")
       /\ todo' = todo \ {g} /\ rest' = rest \ {g}
       /\ \/ snap[g] # "dismissed" /\ UNCHANGED <<lmembers, fails>>
          \/ /\ snap[g] = "dismissed"
             /\ \/ lmembers' = [lmembers EXCEPT ![g] = {}] /\ UNCHANGED fails
                \/ Fail /\ UNCHANGED lmembers
       /\ UNCHANGED <<pc, snap, before>>

\* Step 4: the walk over the server list; a key found locally is updated
\* and marked visited, any other is inserted.
Walk(g) ==
    /\ pc = "walk" /\ g \in todo
    /\ IF g \in rest THEN UpdateGroup(g) ELSE InsertGroup(g)
    /\ UNCHANGED <<server, vrec, events>>

\* DeleteVersionSync, version_sync.go lines 44-49: the group's record goes.
DeleteVersionSync(g) == vrec' = [vrec EXCEPT ![g] = NoVer]

\* Mutant: the group row is deleted before the version record.
DeleteGroupHookGroupFirst(g) ==
    \/ Fail /\ EndPass /\ UNCHANGED <<lgroup, lmembers, vrec, notes>>
    \/ /\ Fail /\ EndPass /\ UNCHANGED <<lgroup, vrec, notes>>
       /\ lmembers' = [lmembers EXCEPT ![g] = {}]
    \/ /\ Fail /\ EndPass /\ UNCHANGED <<vrec, notes>>
       /\ lmembers' = [lmembers EXCEPT ![g] = {}]
       /\ lgroup' = [lgroup EXCEPT ![g] = Absent]
    \/ /\ lmembers' = [lmembers EXCEPT ![g] = {}]
       /\ vrec' = [vrec EXCEPT ![g] = NoVer]
       /\ lgroup' = [lgroup EXCEPT ![g] = Absent] /\ Note(g, "delete")
       /\ rest' = rest \ {g}
       /\ UNCHANGED <<pc, snap, before, todo, fails>>

\* The delete hook, lines 70-78: DeleteGroupAllMembers, DeleteVersionSync
\* (version_sync.go lines 44-49), DeleteGroup, each returning on error;
\* then the Delete notice (OnJoinedGroupDeleted, line 100).
DeleteGroupHook(g) ==
    \/ Fail /\ EndPass /\ UNCHANGED <<lgroup, lmembers, vrec, notes>>
    \/ /\ Fail /\ EndPass /\ UNCHANGED <<lgroup, vrec, notes>>
       /\ lmembers' = [lmembers EXCEPT ![g] = {}]
    \/ /\ Fail /\ EndPass /\ UNCHANGED <<lgroup, notes>>
       /\ lmembers' = [lmembers EXCEPT ![g] = {}]
       /\ DeleteVersionSync(g)
    \/ /\ lmembers' = [lmembers EXCEPT ![g] = {}]
       /\ DeleteVersionSync(g)
       /\ lgroup' = [lgroup EXCEPT ![g] = Absent] /\ Note(g, "delete")
       /\ rest' = rest \ {g}
       /\ UNCHANGED <<pc, snap, before, todo, fails>>

\* Step 5: after the walk, every local key the server did not list is
\* deleted.
DeleteLocal(g) ==
    /\ pc = "walk" /\ todo = {} /\ g \in rest
    /\ DeleteGroupHook(g)
    /\ UNCHANGED <<server, events>>

PassDone ==
    /\ pc = "walk" /\ todo = {} /\ rest = {}
    /\ EndPass
    /\ UNCHANGED <<server, lgroup, lmembers, vrec, notes, events, fails>>

-----------------------------------------------------------------------------
(* The member sync of one local group (spec sections 3 and 6): it reads    *)
(* the group's version record (GetVersionSync, version_sync.go lines       *)
(* 14-19).  Without one it resyncs the members in full through the member  *)
(* syncer's hooks (group.go lines 140-196); with one it replays the server *)
(* changes after the recorded version.  When every write succeeded it      *)
(* records the server's version (SetVersionSync, lines 21-42, which        *)
(* creates or updates the row under versionMtx).                           *)

\* The member sets a full resync that stops at a failed hook call can leave:
\* keys already walked hold the server's state, the others the local one; a
\* batch insert into an empty table is all or nothing.
PartialFull(L, S) ==
    IF L = {} /\ S # {} THEN {L}
    ELSE {Y \in SUBSET (L \cup S) : L \cap S \subseteq Y}

\* GetVersionSync, version_sync.go lines 14-19: the group's record, NoVer
\* when there is none (Take returns ErrRecordNotFound).
GetVersionSync(g) == vrec[g]

\* SetVersionSync, lines 21-42, after a successful data sync: the record is
\* created or updated to the server's version, or the write fails.
RecordVersion(g, n) ==
    \/ vrec' = [vrec EXCEPT ![g] = n] /\ UNCHANGED fails
    \/ Fail /\ UNCHANGED vrec

MemberSync(g) ==
    /\ pc = "idle" /\ lgroup[g] = "normal"
    /\ LET n == Len(svrLog[g])
           L == lmembers[g]
           v == GetVersionSync(g)
       IN  IF v = NoVer
           THEN \/ /\ lmembers' = [lmembers EXCEPT ![g] = SvrMembers(g)]
                   /\ RecordVersion(g, n)
                \/ /\ Fail /\ UNCHANGED vrec
                   /\ \E Y \in PartialFull(L, SvrMembers(g)) :
                          lmembers' = [lmembers EXCEPT ![g] = Y]
           ELSE \/ /\ lmembers' = [lmembers EXCEPT ![g] = ApplyLog(L, svrLog[g], v, n)]
                   /\ RecordVersion(g, n)
                \/ /\ Fail /\ UNCHANGED vrec
                   /\ \E k \in v..(n - 1) :
                          lmembers' = [lmembers EXCEPT ![g] = ApplyLog(L, svrLog[g], v, k)]
    /\ UNCHANGED <<server, lgroup, pass, events>>

-----------------------------------------------------------------------------
Next ==
    \/ \E g \in Groups : Join(g) \/ Leave(g) \/ Dismiss(g)
    \/ \E g \in Groups, c \in Change : MemberChange(g, c)
    \/ StartPass \/ BatchInsertGroup \/ PassDone
    \/ \E g \in Groups : Walk(g) \/ DeleteLocal(g) \/ MemberSync(g)

Spec == Init /\ [][Next]_vars

-----------------------------------------------------------------------------
(* Properties.                                                             *)

\* Spec section 3: a version record is deleted with the group that owns it.
\* The delete hook deletes the record before the group row (group.go lines
\* 74-77), so however the three calls fail, no record outlives its group,
\* and the member sync only records versions of local groups.
VersionOwnedByGroup ==
    \A g \in Groups : vrec[g] # NoVer => lgroup[g] # Absent

\* The notifications spec section 8 asks of one pass from local keys L0 to
\* the server list S: one BatchInsert per key on the batch path, otherwise
\* Insert for S \ L0, Update for S \cap L0, Delete for L0 \ S.
ExpectedNotes(L0, S) ==
    [g \in Groups |->
        IF L0 = {} /\ S # {} THEN IF g \in S THEN <<"batch">> ELSE <<>>
        ELSE IF g \in S \ L0 THEN <<"insert">>
        ELSE IF g \in S \cap L0 THEN <<"update">>
        ELSE IF g \in L0 \ S THEN <<"delete">>
        ELSE <<>>]

\* A pass that ends without an error leaves the local group table equal to
\* the server list it fetched, statuses included (the update hook writes the
\* server's row), and has notified each key exactly once with the right
\* kind.  It needs the walk to mark matched keys visited (spec 4.1 step 4)
\* and every hook to write what the server sent.
PassConverges ==
    [][(pc # "idle" /\ pc' = "idle" /\ fails' = fails) =>
         /\ lgroup' = snap
         /\ notes' = ExpectedNotes(before, {g \in Groups : snap[g] # Absent})]_vars

\* Spec sections 3 and 6: the version record decides whether the members of
\* a group are resynced in full or by replaying the server's changes since
\* that version.  For a group joined on both sides, a replay from the
\* recorded version must give the server's member set.
MembersRecoverable ==
    \A g \in Groups :
        lgroup[g] = "normal" /\ g \in svrJoined /\ vrec[g] # NoVer
            => ApplyLog(lmembers[g], svrLog[g], vrec[g], Len(svrLog[g])) = SvrMembers(g)

=============================================================================
