----------------------------- MODULE ReadState -----------------------------
(***************************************************************************)
(* Read-state tracker of one conversation, after                           *)
(* src/internal/conversation_msg/read_drawing.go.                          *)
(*                                                                         *)
(* Actors that run concurrently in the SDK:                                *)
(*  - API goroutines (one per element of Callers) running                  *)
(*    markConversationMessageAsRead, markMessagesAsReadByMsgID and         *)
(*    getConversationMaxSeqAndSetHasRead.  Each reads the local store,     *)
(*    waits for the server's answer, then writes the store: two steps;     *)
(*  - the notification goroutine running doReadDrawing on each pushed      *)
(*    MarkAsReadTips, in push order (one atomic step);                     *)
(*  - the environment: the server receiving messages, the message sync    *)
(*    inserting them locally in seq order, other devices and peers        *)
(*    reading, which makes the server push read tips.                      *)
(***************************************************************************)
EXTENDS Naturals, FiniteSets, Sequences

CONSTANTS
    Me,        \* the login user (c.loginUserID)
    Peers,     \* the other members of the conversation
    ConvType,  \* conversation.ConversationType: "single" or "group"
    Callers,   \* concurrent API goroutines of this client
    Ops,       \* API operations the callers may run
    MaxSeq,    \* bound on the seq of the conversation
    MaxTips    \* bound on the number of read tips the server pushes

ASSUME ConstAssumption ==
    /\ Me \notin Peers
    /\ ConvType \in {"single", "group"}
    /\ Ops \subseteq {"markAll", "markByMsgID", "setHasRead"}
    /\ MaxSeq \in Nat
    /\ MaxTips \in Nat

Users == {Me} \cup Peers
Seqs == 1 .. MaxSeq

VARIABLES
    svrSender,    \* sender of each seq the server will hold
    svrMax,       \* seqs 1..svrMax exist on the server
    localMax,     \* seqs 1..localMax are in the local chat log
    isRead,       \* seqs whose local row has is_read = true
    readers,      \* group: HasReadUserIDList of each local message
    unreadCount,  \* local conversation.unread_count
    hasReadSeq,   \* local conversation.has_read_seq
    tips,         \* MarkAsReadTips pushed and not yet handled, in order
    pushed,       \* number of tips pushed so far (bounded by MaxTips)
    call          \* per API goroutine: operation in flight and its snapshot

vars == <<svrSender, svrMax, localMax, isRead, readers, unreadCount,
          hasReadSeq, tips, pushed, call>>

Tip == [user : Users, hasReadSeq : 0 .. MaxSeq, seqs : SUBSET Seqs]
Idle == [op |-> "none", seqs |-> {}, mark |-> 0]
Call == [op : {"none", "markAll", "markByMsgID", "setHasRead"},
         seqs : SUBSET Seqs, mark : 0 .. MaxSeq]

LocalSeqs == 1 .. localMax

(* The messages that count as unread: not read and not sent by Me.         *)
UnreadSeqs == {s \in LocalSeqs : s \notin isRead /\ svrSender[s] # Me}

(* Mutant: the decrement without the clamp at zero.                        *)
DecrUnreadUnclamped(n) == unreadCount - n

(* DecrConversationUnreadCount: subtracts n, never below zero.             *)
DecrUnread(n) == IF unreadCount - n < 0 THEN 0 ELSE unreadCount - n

(* getAsReadMsgMapAndList: of the messages msgs, those neither read nor    *)
(* sent by the login user.                                                 *)
AsReadSeqs(msgs) == {s \in msgs : s \notin isRead /\ svrSender[s] # Me}

(* MarkConversationMessageAsRead(BySeqs): sets is_read on the rows listed  *)
(* that were not sent by Me, and returns how many rows it matched.         *)
MarkRows(msgs) == {s \in msgs : svrSender[s] # Me}

TypeOK ==
    /\ svrSender \in [Seqs -> Users]
    /\ svrMax \in 0 .. MaxSeq
    /\ localMax \in 0 .. svrMax
    /\ isRead \subseteq Seqs
    /\ readers \in [Seqs -> SUBSET Peers]
    /\ unreadCount \in Nat
    /\ hasReadSeq \in 0 .. MaxSeq
    /\ tips \in Seq(Tip)
    /\ pushed \in 0 .. MaxTips
    /\ call \in [Callers -> Call]

Init ==
    /\ svrSender \in [Seqs -> Users]
    /\ svrMax = 0
    /\ localMax = 0
    /\ isRead = {}
    /\ readers = [s \in Seqs |-> {}]
    /\ unreadCount = 0
    /\ hasReadSeq = 0
    /\ tips = <<>>
    /\ pushed = 0
    /\ call = [c \in Callers |-> Idle]

-----------------------------------------------------------------------------
(* Environment.                                                            *)

(* The server assigns the next seq to a message.                           *)
ServerMsg ==
    /\ svrMax < MaxSeq
    /\ svrMax' = svrMax + 1
    /\ UNCHANGED <<svrSender, localMax, isRead, readers, unreadCount,
                   hasReadSeq, tips, pushed, call>>

(* Message sync inserts the next message locally; a message of another    *)
(* user is unread and counts in unread_count.                              *)
InsertMsg ==
    LET s == localMax + 1 IN
    /\ localMax < svrMax
    /\ localMax' = s
    /\ unreadCount' = IF svrSender[s] # Me THEN unreadCount + 1
                                          ELSE unreadCount
    /\ UNCHANGED <<svrSender, svrMax, isRead, readers, hasReadSeq, tips,
                   pushed, call>>

(* The server pushes a tip that Me (this or another device) has read up   *)
(* to seq h of the server.                                                 *)
PushSelfTip ==
    /\ pushed < MaxTips
    /\ \E h \in 0 .. svrMax :
          tips' = Append(tips, [user |-> Me, hasReadSeq |-> h, seqs |-> {}])
    /\ pushed' = pushed + 1
    /\ UNCHANGED <<svrSender, svrMax, localMax, isRead, readers,
                   unreadCount, hasReadSeq, call>>

(* The server pushes a tip that peer u has read messages sent by Me.       *)
PushPeerTip(u) ==
    /\ pushed < MaxTips
    /\ \E S \in SUBSET {s \in 1 .. svrMax : svrSender[s] = Me} :
          /\ S # {}
          /\ tips' = Append(tips, [user |-> u, hasReadSeq |-> 0, seqs |-> S])
    /\ pushed' = pushed + 1
    /\ UNCHANGED <<svrSender, svrMax, localMax, isRead, readers,
                   unreadCount, hasReadSeq, call>>

-----------------------------------------------------------------------------
(* Notification goroutine: doReadDrawing on the oldest pushed tip.         *)

(* doUnreadCount: the tip echoes Me's own read up to h.  Seqs in           *)
(* (has_read_seq, h] are marked read, unread_count is decremented by the   *)
(* number of those seqs, and has_read_seq becomes h.                       *)
DoUnreadCount(h) ==
    /\ IF h > hasReadSeq
       THEN LET seqs == hasReadSeq + 1 .. h IN
            /\ isRead' = isRead \cup MarkRows(seqs \cap LocalSeqs)
            /\ unreadCount' = DecrUnread(h - hasReadSeq)
            /\ hasReadSeq' = h
       ELSE UNCHANGED <<isRead, unreadCount, hasReadSeq>>
    /\ UNCHANGED readers

(* A peer read messages of Me: single chat sets is_read on them, group     *)
(* chat adds the peer to their reader list.                                *)
DoPeerReceipt(t) ==
    LET msgs == t.seqs \cap LocalSeqs IN
    /\ IF ConvType = "single"
       THEN /\ isRead' = isRead \cup msgs
            /\ UNCHANGED readers
       ELSE /\ readers' = [s \in Seqs |-> IF s \in msgs
                                          THEN readers[s] \cup {t.user}
                                          ELSE readers[s]]
            /\ UNCHANGED isRead
    /\ UNCHANGED <<unreadCount, hasReadSeq>>

DoReadDrawing ==
    /\ tips # <<>>
    /\ LET t == Head(tips) IN
         IF t.user = Me THEN DoUnreadCount(t.hasReadSeq)
                        ELSE DoPeerReceipt(t)
    /\ tips' = Tail(tips)
    /\ UNCHANGED <<svrSender, svrMax, localMax, pushed, call>>

-----------------------------------------------------------------------------
(* API goroutines.  A *Start action reads the store and sends the request; *)
(* the request is then in flight until *Done or ReqFailed.                 *)

(* markConversationMessageAsRead up to the request: reads maxSeq and the   *)
(* unread messages, sends markConversationAsReadSvr(maxSeq).               *)
MarkAllStart(c) ==
    /\ "markAll" \in Ops
    /\ call[c].op = "none"
    /\ call' = [call EXCEPT ![c] = [op |-> "markAll",
                                    seqs |-> AsReadSeqs(LocalSeqs),
                                    mark |-> localMax]]
    /\ UNCHANGED <<svrSender, svrMax, localMax, isRead, readers,
                   unreadCount, hasReadSeq, tips, pushed>>

(* Mutant: the unread_count update of markConversationMessageAsRead lost.  *)
MarkAllDoneNoReset(c) ==
    /\ call[c].op = "markAll"
    /\ isRead' = isRead \cup MarkRows(call[c].seqs)
    /\ call' = [call EXCEPT ![c] = Idle]
    /\ UNCHANGED <<svrSender, svrMax, localMax, readers, unreadCount,
                   hasReadSeq, tips, pushed>>

(* After the server acknowledged: marks the snapshot read, sets            *)
(* unread_count to 0.                                                      *)
MarkAllDone(c) ==
    /\ call[c].op = "markAll"
    /\ isRead' = isRead \cup MarkRows(call[c].seqs)
    /\ unreadCount' = 0
    /\ call' = [call EXCEPT ![c] = Idle]
    /\ UNCHANGED <<svrSender, svrMax, localMax, readers, hasReadSeq, tips,
                   pushed>>

(* markMessagesAsReadByMsgID up to the request: the messages asked for are *)
(* a non-empty set of local messages (an empty result returns early);      *)
(* sends markMsgAsRead2Svr with the unread ones.                           *)
MarkByMsgIDStart(c) ==
    /\ "markByMsgID" \in Ops
    /\ call[c].op = "none"
    /\ \E msgs \in SUBSET LocalSeqs :
          /\ msgs # {}
          /\ call' = [call EXCEPT ![c] = [op |-> "markByMsgID",
                                          seqs |-> AsReadSeqs(msgs),
                                          mark |-> 0]]
    /\ UNCHANGED <<svrSender, svrMax, localMax, isRead, readers,
                   unreadCount, hasReadSeq, tips, pushed>>

(* After the server acknowledged: marks the snapshot read and decrements   *)
(* unread_count by the rows MarkConversationMessageAsRead matched.         *)
MarkByMsgIDDone(c) ==
    /\ call[c].op = "markByMsgID"
    /\ isRead' = isRead \cup MarkRows(call[c].seqs)
    /\ unreadCount' = DecrUnread(Cardinality(MarkRows(call[c].seqs)))
    /\ call' = [call EXCEPT ![c] = Idle]
    /\ UNCHANGED <<svrSender, svrMax, localMax, readers, hasReadSeq, tips,
                   pushed>>

(* getConversationMaxSeqAndSetHasRead up to the request: reads maxSeq and  *)
(* sends setConversationHasReadSeq(maxSeq).                                *)
SetHasReadStart(c) ==
    /\ "setHasRead" \in Ops
    /\ call[c].op = "none"
    /\ call' = [call EXCEPT ![c] = [op |-> "setHasRead", seqs |-> {},
                                    mark |-> localMax]]
    /\ UNCHANGED <<svrSender, svrMax, localMax, isRead, readers,
                   unreadCount, hasReadSeq, tips, pushed>>

(* After the server acknowledged: writes has_read_seq = maxSeq.            *)
SetHasReadDone(c) ==
    /\ call[c].op = "setHasRead"
    /\ hasReadSeq' = call[c].mark
    /\ call' = [call EXCEPT ![c] = Idle]
    /\ UNCHANGED <<svrSender, svrMax, localMax, isRead, readers,
                   unreadCount, tips, pushed>>

(* The server call returned an error: the operation returns it and writes  *)
(* nothing locally.                                                        *)
ReqFailed(c) ==
    /\ call[c].op # "none"
    /\ call' = [call EXCEPT ![c] = Idle]
    /\ UNCHANGED <<svrSender, svrMax, localMax, isRead, readers,
                   unreadCount, hasReadSeq, tips, pushed>>

-----------------------------------------------------------------------------
Next ==
    \/ ServerMsg
    \/ InsertMsg
    \/ PushSelfTip
    \/ \E u \in Peers : PushPeerTip(u)
    \/ DoReadDrawing
    \/ \E c \in Callers :
          \/ MarkAllStart(c) \/ MarkAllDone(c)
          \/ MarkByMsgIDStart(c) \/ MarkByMsgIDDone(c)
          \/ SetHasReadStart(c) \/ SetHasReadDone(c)
          \/ ReqFailed(c)

Spec == Init /\ [][Next]_vars

-----------------------------------------------------------------------------
(* Properties.                                                             *)

(* unread_count never exceeds the number of local messages of other users  *)
(* that are still unread: every path that marks a message read             *)
(* (doUnreadCount, both mark-as-read calls, peer receipts) takes at least  *)
(* as much off the counter, however the API calls, the tip handler and     *)
(* message insertion interleave.                                           *)
NoOvercount == unreadCount <= Cardinality(UnreadSeqs)

(* unread_count equals the number of unread messages of other users (spec  *)
(* section 8: marking m of n unread messages read lowers it by exactly m). *)
UnreadCountExact == unreadCount = Cardinality(UnreadSeqs)

(* The local read watermark has_read_seq never decreases (spec section 3), *)
(* whatever the order of own-read tips and API calls that write it.        *)
WatermarkMonotone == [][hasReadSeq' >= hasReadSeq]_vars

(* Every local message of another user at or below the watermark is read: *)
(* doUnreadCount replays the whole range (has_read_seq, h] as read.        *)
ReadBelowWatermark ==
    \A s \in LocalSeqs : s <= hasReadSeq /\ svrSender[s] # Me => s \in isRead

=============================================================================
