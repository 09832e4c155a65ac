# TLA+ models of openim-sdk-core

Formal models of the client engine of the OpenIM SDK (`src/`), checked with
TLC on small instances and, where it matters most, proved with TLAPS for every
value of the constants.

## The system

The spec (`spec.md`) names four components, and this repository holds part of
each:

| Part | Source | What it does |
|---|---|---|
| Read-State Tracker | `internal/conversation_msg/read_drawing.go` | Marks messages read on request of the app (three API operations, each: read the store, await the server, write the store) and applies read tips pushed by the server (own watermark from another device, or receipts of peers). Keeps `unread_count`, `has_read_seq` and per-message `is_read` / reader lists. |
| Connection Manager | `internal/interaction/ws_conn.go`, `ws_js.go` | One websocket per client under `stateMutex`: `ReConn` closes the old connection, dials, classifies the failure status, calls the listener; `CloseConn`, `writeBinaryMsg`, `SendPingMsg`. |
| Task Pool | `integration_test/internal/pkg/reerrgroup/errgroup.go` | Fixed set of workers reading a buffered channel; `Go` blocks when it is full, `TryGo` does not; the first error is kept and later tasks are skipped; `Wait` polls a task counter. Used by the load tests to fan out group creation. |
| Reconciler hooks | `internal/group/group.go`, `pkg/db/version_sync.go` | The hooks the generic syncer (not in this repository) calls for joined groups, members and requests: insert, update, a three-step delete, batch insert, notices. Version records keyed by (table, entity). |

How they interact: the Connection Manager carries the requests the
Read-State Tracker awaits (`SendReqWaitResp`) and delivers the pushed tips it
handles; message sync, driven by the connection, inserts the messages whose
read state the tracker keeps; the reconciler writes the same store; the Task
Pool only runs test drivers.

What makes them hard: API goroutines of the tracker hold a snapshot of the
store across a server round trip while the notification goroutine and message
sync change it; tips and messages arrive in either order; ReConn does I/O and
sends on a channel while holding the connection lock; the pool's counter, its
error and its shared task slices are touched by every worker without one lock.

## Modules

### ReadState (`ReadState.tla`, `MCReadState.tla`)

One conversation. State:

| Variable | Code |
|---|---|
| `svrSender`, `svrMax` | the server's messages: seq and sender (senders fixed up front, seqs appear one by one) |
| `localMax` | the local chat log holds seqs `1..localMax` (message sync inserts in seq order) |
| `isRead`, `readers` | `LocalChatLog.IsRead`; group `HasReadUserIDList` of each message |
| `unreadCount`, `hasReadSeq` | `LocalConversation.UnreadCount`, `HasReadSeq` |
| `tips`, `pushed` | `MarkAsReadTips` pushed and not yet handled, in order; how many were pushed |
| `call[c]` | API goroutine `c`: the operation awaiting the server and what it read before the await |

Actions: the environment (`ServerMsg`, `InsertMsg`, `PushSelfTip`,
`PushPeerTip`); the notification goroutine (`DoReadDrawing`, which is
`doUnreadCount` for a tip of the login user and `DoPeerReceipt` otherwise);
each API operation as a `*Start` step (everything up to and including sending
the request) and a `*Done` step (everything after the server answered), and
`ReqFailed` for the error return of the server call. Each of those steps is
atomic: the store operations between awaits are short and the interesting
races are across the await.

`DecrConversationUnreadCount` (clamp at 0) and the row filter of
`MarkConversationMessageAsRead` (`send_id != loginUserID`) live in the storage
package, not in this repository; they are modelled from the spec and marked
`spec_modelled` in `PROJECT.json`.

Properties:

* `NoOvercount`: `unread_count` is never larger than the number of stored
  messages of other users that are not read. It needs the interplay of a
  snapshot taken before an await, concurrent decrements and late inserts.
* `UnreadCountExact`: equality. Expected to fail (see findings).
* `WatermarkMonotone`: `has_read_seq` never decreases (spec section 3).
  Expected to fail (see findings): only checked where `setHasRead` is
  enabled, since otherwise the sole writer is `doUnreadCount`'s guarded
  raise.
* `ReadBelowWatermark`: every message of others at or below `has_read_seq`
  is read. Expected to fail.

### TaskPool (`TaskPool.tla`, `MCTaskPool.tla`)

One pool, one caller goroutine (the repository's callers all submit from one
goroutine and then call `Wait`), `Workers` goroutines. State:

| Variable | Code |
|---|---|
| `chan` | `g.taskChan`, capacity `Cardinality(Workers)` (`NewGroup(workerCount)`) |
| `taskCount`, `err` | `g.taskCount`, `g.err` (0 stands for nil, otherwise the failing task) |
| `bLen`, `bCap`, `aLen` | length and capacity of `g.beforeTasks`, length of `g.afterTasks` |
| `slot` | the element of `beforeTasks`' array just past its length |
| `pc`, `next`, `api`, `result` | the caller: where it is in `Go`/`TryGo`/`Wait`, which task, what `Wait` returned |
| `wpc`, `wtask`, `wshared`, `wfail` | each worker: where it is in the loop, its task, whether its task list still points into `beforeTasks`' array, what `doTask` returned |
| `runs`, `failed`, `submitted` | history: how often each task's function ran, which `doTask`s failed, what was sent |

Caller steps: `SetBeforeTasks`, `SetAfterTasks` (before any submission, as
`FuncBarPrint` does), `CheckErr` (the `g.err != nil` early return of `Go` and
`TryGo`), `GoSend` (blocks while the channel is full), `TryGoSend` (returns
false instead), `AddCount` (the `taskCount.Add(1)` that follows the send), and
`Wait` (its polling loop is enabled only when the count is zero). Worker
steps: `Recv`, `Check` (the `g.err` test and building the task list with
`append`), `Run`, `Decr` (the deferred `Add(-1)`) and `Record` (`errOnce`).
`GrowCap` is Go's `append` growth for 8-byte elements (doubling, then the
malloc size class), which decides when `beforeTasks` has spare capacity.

Properties: `JoinComplete` (when `Wait` returned, the channel is empty and no
worker holds a task), `EachTaskRunOnce` (no task runs twice; with no failure
each submitted task ran once), `WaitReturnsError` (a failed task makes `Wait`
return an error; expected to fail), `WaitTerminates` (`Wait` returns).

### WsConn (`ConnState.tla`, `WsConn.tla`, `MCWsConn.tla`)

`ConnState` is the promise: the state machine of spec section 4.2 (Idle,
Connecting, Connected, Disconnected, Failed, KickedOffline, the last two
terminal), plus the edge its bullets imply (a new connection first closes
the live one) and a kick pushed by the server (sections 6 and 7).

`WsConn` is one `WsConn` value. State:

| Variable | Code |
|---|---|
| `locked` | `stateMutex`, when ReConn holds it between its steps |
| `conn`, `open` | `u.conn` (a connection number or `Nil`); the connections not yet closed by either side |
| `loginStatus`, `isConnected` | `u.loginStatus`, `u.IsConnected` |
| `rpc`, `retry`, `lastCode`, `cbs` | ReConn's caller: where it is, ReConn's third result, the dial outcome, the listener callbacks of the last call |
| `convCh` | commands buffered in `ConversationCh` |
| `kickRead`, `svrKicked` | the read loop holds a kick frame not yet applied; the server kicked the token |
| `wres`, `pres` | each writer's last `writeBinaryMsg` and `SendPingMsg` result |

Actions: `ReConnLock` (lines 171-182: lock, close the old connection, refuse
a kicked session, `OnConnecting`), `ReConnDial` (lines 184-246: the dial and
its classification; `CodeCallbacks` and `Retryable` are the switch),
`SendSyncBegin` / `SendSyncFailed` (lines 232-237, still under the lock),
`CloseConn`, `WriteMsg`, `SendPingMsg` (one atomic step under the lock each),
`SetLoginStatus` (no lock). From the spec, since the code is not here: the
reconnection policy (ReConn again while its last result allows a retry),
`KickPush` (the read loop reads a kick frame), `OtherSend` (message sync and
notifications also send on `ConversationCh`), `Consume` (the conversation
goroutine), and `DialOutcomes` (a kicked token is never accepted again).
gob encoding and gzip are abstracted to "too long or not".

The refinement mapping `ConnStateOf`: dialing is Connecting; a last outcome
of `kicked` or a fatal code is KickedOffline or Failed; a kicked
`loginStatus` is KickedOffline; a live `u.conn` is Connected; before
NewWsConn's ReConn, Idle; otherwise Disconnected.

Properties: `Implements` (`Abs!Spec`), `SingleLiveConn` (every open
connection is `u.conn`), `LockReleased` (`locked ~> ~locked`), and one
expected to fail: `KickStatusSticky`.

### GroupSync (`GroupSync.tla`, `MCGroupSync.tla`)

The joined-group syncer of `group.go` with its hooks, the member sync that
reads and writes the version records of `version_sync.go`, and the server
whose state they copy. The generic syncer that calls the hooks is in a
package outside this repository, so its FullSync pass is modelled from spec
section 4.1, and so is the member sync's choice between a full resync and
an incremental replay.

State:
* server side:
  * `svrJoined` and `svrDismissed`: the groups the user has joined, and the
    dismissed ones;
  * `svrLog`: each group's member change log;
* local store:
  * `lgroup`: `local_groups`, holding `none` or the row's status;
  * `lmembers`: `local_group_members`;
  * `vrec`: the version record of a group's members, `NoVer` or a position
    in `svrLog`;
* the pass: `pc`, the fetched list `snap`, the local keys at the start
  `before`, the keys still to walk `todo`, the keys not yet matched `rest`,
  and the notices emitted `notes`;
* `events` and `fails`: bounded counters.

Actions:
* Server steps `Join`, `Leave`, `Dismiss` and `MemberChange` come from the
  spec's data model.
* `StartPass` covers steps 1-3. It fetches the whole list, or fails. The
  list is `ServerView`, the page conversion of lines 130-137.
* `BatchInsertGroup` is the batch hook, lines 124-126.
* `Walk` is step 4. For each key it calls `UpdateGroup` (lines 79-82) or
  `InsertGroup` (lines 67-69), followed by the notice (`Note`, lines
  86-123). The update notice of a dismissed group deletes the members, and
  only logs a failure of that delete (lines 104-108).
* `DeleteLocal` is step 5. It calls `DeleteGroupHook`, lines 70-78: members,
  then `DeleteVersionSync`, then the group, stopping at the first error.
  Each of the three calls may fail after the earlier ones have been written.
* `PassDone` ends a pass.
* `MemberSync` reads the record (`GetVersionSync`):
  * with no record, it resyncs the members in full through the member
    syncer's hooks (`PartialFull`, lines 140-196: the member sets a failed
    resync can leave);
  * otherwise it replays the log after the recorded version (`ApplyLog`).
  * On success it records the server's version (`RecordVersion`,
    `SetVersionSync`).

Every failed call counts against `MaxFails`. A failure in a hook aborts the
pass (spec 4.1 step 6).

The client runs one sync at a time, so member syncs happen between passes.
Spec section 5 says callers do not overlap passes over the same key.

Properties:
* `VersionOwnedByGroup`: no version record without its group.
* `PassConverges`: a pass ending without a failure leaves `lgroup` equal to
  the list it fetched, with the notices of spec section 8.
* `MembersRecoverable`, expected to fail: for a group joined on both sides,
  replaying the log from the recorded version gives the server's members.

## Runs

| Run | Instance | Result |
|---|---|---|
| `readstate_safety` | single chat, 1 peer, 2 callers, all three operations, 3 seqs, 2 tips | `TypeOK`, `NoOvercount` hold (about 2.3M states) |
| `readstate_group` | group chat, 2 peers (symmetric), 1 caller, all three operations | `NoOvercount` holds (about 378k states) |
| `readstate_exact` | 1 caller | `UnreadCountExact` violated |
| `readstate_sethasread` | all operations | `WatermarkMonotone` violated |
| `readstate_latemsg` | mark operations | `ReadBelowWatermark` violated |
| `taskpool_join` | 2 workers, 3 tasks, Go and TryGo, up to 2 before and 1 after task, fair scheduling | `TypeOK`, `JoinComplete`, `EachTaskRunOnce`, `WaitTerminates` hold (37,450 states) |
| `taskpool_waiterr` | 2 workers, 2 tasks, Go | `WaitReturnsError` violated |
| `taskpool_alias` | 3 before tasks (length 3, capacity 4) | `EachTaskRunOnce` violated |
| `wsconn_conn` | 1 writer, 3 dials, channel capacity 1, outcomes ok, no response, expired, invalid, kicked, unknown code, fair scheduling | `SingleLiveConn`, `Implements`, `LockReleased` hold (4,832 states) |
| `wsconn_kicksticky` | 2 dials | `KickStatusSticky` violated |
| `groupsync_sync` | 2 groups, 1 user, 4 server changes, 1 failed call | `VersionOwnedByGroup`, `PassConverges` hold (12,975 states) |
| `groupsync_partialdelete` | 1 group, 1 user, 4 server changes, 1 failed call | `MembersRecoverable` violated |

Bounds: 3 seqs give a message of Me and of a peer, with one left to arrive
late; 2 tips let an own tip and a peer tip, or two own tips, interleave with
the API calls; 2 callers let two mark operations overlap. The peers are
symmetric (no code compares peer IDs).

TaskPool bounds: 3 tasks over 2 workers fill the channel (capacity 2) so
that `Go` blocks and `TryGo` fails; up to 2 before tasks give capacities 1
and 2, never spare room, while 3 give length 3 and capacity 4, the smallest
case with spare room.

WsConn bounds: 3 dials allow connect, reconnect over a live connection and
a reconnect after a failure; one writer suffices because writes hold the
lock for one step; capacity 1 makes every send of ReConn wait for the
receiver. The outcomes cover each branch of the switch with different
callbacks or retry results (the other fatal codes behave as `invalid`).

GroupSync bounds: with 2 groups a pass can insert one key and delete or
update another. With 4 server changes a group can be joined, get a member,
be left and be joined again, or be dismissed. One failed call is enough to
stop a pass at each hook call or at each of the delete hook's three calls.
A second user would only add member sets with the same behaviour. The run
does not check deadlock: once the server stops changing, the client idles
with nothing left to do.

Fairness: none for ReadState, whose properties are all safety properties.
`taskpool_join` assumes weak fairness of the caller and of each worker: the
Go scheduler runs every runnable goroutine eventually, and `Wait` keeps
polling. The TaskPool runs do not check deadlock: after `Wait` returns, the
workers block for good on the channel, which is never closed, and the pool
really stops; `WaitTerminates` checks that it stops only there.
`wsconn_conn` assumes weak fairness of ReConn's dial and of the
conversation goroutine, and strong fairness of ReConn's two channel sends:
the Go runtime queues a sender blocked on a full channel and hands it the
first free slot. With weak fairness only, TLC finds other senders refilling
the channel forever while ReConn holds the lock.
`groupsync_sync` assumes no fairness. The SDK starts a FullSync of joined
groups only after a reconnect or a group notification. If the last such
pass fails, nothing in the code starts another one. So the model claims
no eventual convergence of the table, only what a pass that ends without
an error achieves (`PassConverges`).

## Findings

1. `read_drawing.go:113`: mark-all sets `unread_count = 0` after the server
   answered; a message inserted during the await is unread and no longer
   counted (`readstate_exact`). Spec section 8 says the count drops by exactly
   the number of messages marked.
2. `read_drawing.go:79`: `getConversationMaxSeqAndSetHasRead` writes the
   local max seq into `has_read_seq` with no comparison against the current
   watermark. A self read tip from another device can move the watermark
   past the locally stored messages (to 1 while the local max is 0). The
   next call then writes the lower value back (`readstate_sethasread`).
   Spec section 3 says the watermark never decreases.
3. `read_drawing.go:187`: a tip handled before message sync delivers the
   messages it covers advances `has_read_seq` past them; they are inserted
   unread below the watermark and no later tip replays them; only a later
   mark-all clears them (`readstate_latemsg`).
4. `errgroup.go:53`: `doTask`'s deferred decrement runs before the worker
   stores the error (lines 66-69), so `Wait` can return nil after a task
   failed (`taskpool_waiterr`), against Wait's own comment.
5. `errgroup.go:58`: with spare capacity in `beforeTasks`, `append` makes
   workers share one array slot; a task runs twice and another never
   (`taskpool_alias`). Latent: no caller installs before tasks yet.
6. `ws_conn.go:195`: `SetLoginStatus` takes no lock; a kick applied while
   ReConn dials is overwritten with `LoginFailed`, and the next ReConn dials
   again (`wsconn_kicksticky`).
7. `group.go:74`: the delete hook deletes the members before the version
   record. When `DeleteVersionSync` fails, the group keeps a record of a
   version its members no longer reflect. After a rejoin, the next member
   sync replays only later changes onto an empty table, so earlier members
   never come back (`groupsync_partialdelete`). Spec 4.1 step 6 accepts
   partial passes only because the next sync converges.

Noted while modelling, and not made runs because a unit test reaches each of
them on one path:
* `read_drawing.go:106` and `:140`: a request is sent even when nothing is
  unread, although spec section 8 says no server call is made.
* `ws_conn.go:223`: a dial refused with an unknown status code calls
  `OnConnectFailed` twice, at lines 199 and 223.
* `ws_conn.go:51`: `CloseConn` resets neither `u.conn` (the line is commented
  out) nor `IsConnected`.

## Proofs

### ReadState (`ReadStateProofs.tla`)

* `TypeCorrect`: `Spec => []TypeOK`. `TypeOK` is inductive as stated (the read
  set is typed as a subset of all seqs, not of the local ones).
* `UnreadNeverOvercounted`: `Spec => []NoOvercount`, for every number of
  callers, peers, seqs and tips. `NoOvercount` alone is not inductive: a step
  that marks a call's snapshot or a peer tip's seqs read could remove from the
  counted set a message the counter never included. The strengthening `IInv`
  adds that read rows and call snapshots are local messages (`ReadLocal`,
  `CallsLocal`) and that a peer tip names only messages of the login user
  (`PeerTipsOwn`). Each step then either leaves the counted set and the
  counter alone, adds one message and one count (`InsertMsg`), zeroes the
  counter (`MarkAllDone`), or removes a set `X` from the counted set while
  decrementing by at least `|X|` (lemma `DecrKeeps`, built on
  `CardDiffBound`: `|S \ T| >= |S| - |T|`). TLC checked `IInv` as an
  invariant of both passing instances before it was proved.

### TaskPool (`TaskPoolProofs.tla`)

* `WaitJoinsAllTasks`: `Spec => []JoinComplete` for every number of workers
  and tasks. The inductive invariant is the count equation
  `taskCount + [caller between send and Add(1)] = Len(chan) + |Busy|`, where
  `Busy` is the set of workers between receiving a task and decrementing,
  plus "once `Wait` returned, `taskCount = 0`". `Wait` is enabled only at
  count zero, so the channel and `Busy` are empty then; after that nothing
  is sent, so no worker becomes busy again. The step proof tracks `Busy`
  through `FS_AddElement` / `FS_RemoveElement`.
* `EachTaskRunsOnce`: `MaxBefore <= 2` implies `Spec => []EachTaskRunOnce`,
  for every number of workers and tasks. The hypothesis is why the property
  holds at all: `taskpool_alias` (three before tasks, capacity 4) shows two
  workers running the same shared slot. No caller in the repository installs
  before tasks. Lemma `GrowCapExact` shows that growslice's size classes
  hold one and two elements exactly, so `bCap = bLen` always (`NoSpare`),
  `SharesArray` is false and each worker runs the task it received. The
  strengthening `RunInv` says:
  - tasks in the channel are distinct and unrun;
  - a task held by a worker between receive and run (`Holds`) is unrun, is
    not in the channel, and is held by no other worker;
  - unsubmitted tasks are unrun, and every task runs at most once;
  - every submitted task is in the channel, is held, has run once, or an
    error is recorded or on its way (`failed # {}` covers the `err` that
    `Record` is about to write);
  - submitted tasks are below `next`, so a send always adds a fresh task.
  
  Once `Wait` returned, `IInvJoin` empties the channel and `Holds`, and
  `failed = {}` rules out a recorded error, so every submitted task ran
  once. TLC checked `IInv /\ RunInv` on three workers and four tasks, and
  found it violated with three before tasks, before it was proved. There
  is one lemma per action or group of actions (`RunSend`, `RunRecv`,
  `RunCheck`, `RunRun`, ...).
* `TypeCorrect`: `MaxBefore <= 9` implies `Spec => []TypeOK`, for every number
  of workers and tasks. `GrowCap` chooses among the size classes up to 16
  elements. Growing a full slice of at most 8 to at most 9 elements stays
  within them (lemma `GrowCapType`), so `bCap` stays a number. Larger
  slices are outside what the model's table describes. The strengthening
  `TInv` adds `taskCount <= next - 1`: only the caller's `Add(1)` raises the
  counter, once per task. It also adds that a worker that is not idle holds
  a task. With the count equation of `IInv` this bounds `taskCount` to
  `-1 .. NTasks`. TLC checked `TInv /\ IInv` with `MaxBefore = 8` first.

### WsConn (`WsConnProofs.tla`)

Both theorems rest on one inductive invariant `IInv`, proved by `IInvInit`
and `IInvStep` (one case per action, `TypeOK'` split into groups of
conjuncts). `IInv` says:
* `TypeOK`;
* `SingleLiveConn`;
* the lock is held exactly while ReConn is dialing or sending its result;
* `u.conn` is nil during that time;
* a dial in progress is below `MaxDials`;
* while ReConn sends, the last outcome is "no response";
* after a fatal or kicked outcome, `retry` is off;
* before the first ReConn, nothing is open or kicked.

`SingleLiveConn` alone is not inductive, because a successful dial adds a
connection to `open`. It is `IInv`'s "`u.conn` is nil and, by
`SingleLiveConn`, nothing is open while ReConn holds the lock" that makes
that step safe. `TLC` checked `IInv` on the safety instance before the
proof was written.

* `OneLiveConnection`: `Spec => []SingleLiveConn`, for every value of the
  constants allowed by `WsConnAssumption`.
* `RefinesConnState`: `Spec => Implements`. This is the refinement of
  `ConnState`, the spec's state machine, under `ConnStateOf`.
  * `MapInit`: the initial state maps to `Idle`.
  * `MapStep`: under `IInv` and `IInv'`, every step maps to a `ConnState`
    step or to a stutter.
  * In `MapStep`, a kicked session stays `KickedOffline`, because retry is
    off after a fatal outcome.
  * A ReConn from `Connected` is `ForceReconnect`.
  * A dial always leaves `Connecting`.
  * `MapFrame` covers the actions that leave the mapping's inputs alone.
  * `ConnStateOf` is an IF/ELSE chain, not a `CASE`. A `CASE` with
    overlapping arms picks any true arm, and would not mean the priority the
    mapping needs.

`TypeCorrect`: `Spec => []TypeOK`, from the same `IInv`. No run checks WsConn's `TypeOK`:
no plausible change to the code breaks it, so the proof is its only check.

### GroupSync (`GroupSyncProofs.tla`)

The theorems hold for every set of groups and users and every bound. They
rest on one inductive invariant `IInv`. It is the conjunction of:
* `TypeOK`;
* `VersionOwnedByGroup`;
* `LogInv`: no change log is longer than the count of server changes, so a
  recorded version stays within `0..MaxEvents`;
* `WalkInv`, during the walk:
  * every key in `todo` is on the fetched list;
  * `rest` holds local keys from the start of the pass;
  * a key still in `todo` is in `rest` exactly when it was local;
  * a key in `rest` but not in `todo` is not on the list;
  * every key in neither set is done: its row is the server's and its
    notices are those spec 8 expects;
* `BatchInv`: the batch path starts from an empty table.

`VersionOwnedByGroup` alone is not inductive:
* an insert or update of a key sets the row to the fetched value, which
  must not be `none`; `WalkInv` gives that;
* the batch insert overwrites the whole table, so no record may exist
  before it; `BatchInv` gives that.

TLC checked `IInv` before the proof was written. `IInvStep` has one lemma
per action (`ServerStep`, `MemberSyncStep`, `StartPassStep`,
`BatchInsertStep`, `PassDoneStep`, `InsertStep`, `UpdateStep`,
`DeleteStep`). Each lemma has one step per conjunct the action can
disturb. All failed calls share `AbortStep`.

* `TypeCorrect`: `Spec => []TypeOK`.
* `VersionNeverOrphaned`: `Spec => []VersionOwnedByGroup`.
* `PassCompletes`: `Spec => PassConverges`. A pass ends without a failure
  only at `PassDone`, where `todo` and `rest` are empty and `WalkInv` says
  every key is done, or at the batch insert, where `BatchInv` gives the
  batch branch of the expected notices.

What stays with TLC:
* the violations;
* `WaitTerminates` and `LockReleased`: liveness under
  fairness needs ENABLED and well-founded reasoning, which are out of the
  installed provers' reach.

Every safety invariant and action property of a passing run is now also a
theorem. For `EachTaskRunOnce` and `TaskPool`'s `TypeOK`, the theorems state
the bound on `MaxBefore` as their hypothesis.

## Not modelled

Change events and listener callbacks, JSON encoding of message metadata, the
seq cache (a locked map), log upload and file callbacks, constants, test
drivers (their concurrency is the task pool's), and the wasm wrappers. In
`group.go`:
* the group and admin request syncers (lines 198-246), whose sync is outside
  the repository and about whose notices the spec says nothing;
* the read-only local-then-server lookups (lines 258-343).

`ws_js.go` is the wasm build's websocket and is not used by `ws_conn.go`. See
`PROJECT.json` for the reason of each.

## Plan

1. ReadState (done, with proofs of `TypeOK` and `NoOvercount`).
2. TaskPool (done, with proofs of `TypeOK`, `JoinComplete` and
   `EachTaskRunOnce`).
3. WsConn (done, with proofs of `SingleLiveConn`, `TypeOK` and the refinement).
4. GroupSync (done, with proofs of `TypeOK`, `VersionOwnedByGroup` and
   `PassConverges`).
5. Next:
   * the request syncers, once the syncer package's `Sync` is available to
     model;
   * a member sync that overlaps a pass, which needs the syncer's locking to
     decide whether it can happen.
