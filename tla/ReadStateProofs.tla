-------------------------- MODULE ReadStateProofs --------------------------
(***************************************************************************)
(* Proofs about ReadState, for every value of the constants that          *)
(* satisfies ConstAssumption.                                              *)
(***************************************************************************)
EXTENDS ReadState, FiniteSetTheorems, SequenceTheorems, TLAPS

USE ConstAssumption

-----------------------------------------------------------------------------
(* Every set of seqs is finite.                                            *)
LEMMA SeqSetFinite ==
    ASSUME NEW S \in SUBSET Seqs
    PROVE  IsFiniteSet(S) /\ Cardinality(S) \in Nat
<1>1. IsFiniteSet(Seqs)
  BY FS_Interval DEF Seqs
<1> QED
  BY <1>1, FS_Subset, FS_CardinalityType

-----------------------------------------------------------------------------
(* Type correctness.                                                       *)

(* The initial state is well typed.                                       *)
LEMMA TypeInit == Init => TypeOK
BY DEF Init, TypeOK, Idle, Call, Seqs

(* A step from a well-typed state reaches a well-typed state.            *)
LEMMA TypeStep == TypeOK /\ [Next]_vars => TypeOK'
<1> SUFFICES ASSUME TypeOK, [Next]_vars PROVE TypeOK'
  OBVIOUS
<1>1. CASE ServerMsg
  BY <1>1 DEF ServerMsg, TypeOK
<1>2. CASE InsertMsg
  BY <1>2 DEF InsertMsg, TypeOK
<1>3. CASE PushSelfTip
  BY <1>3 DEF PushSelfTip, TypeOK, Tip, Users
<1>4. ASSUME NEW u \in Peers, PushPeerTip(u) PROVE TypeOK'
  BY <1>4 DEF PushPeerTip, TypeOK, Tip, Users, Seqs
<1>5. CASE DoReadDrawing
  <2> DEFINE t == Head(tips)
  <2>1. t \in Tip /\ Tail(tips) \in Seq(Tip)
    BY <1>5 DEF DoReadDrawing, TypeOK
  <2>2. CASE t.user = Me
    <3> DEFINE h == t.hasReadSeq
    <3>1. DoUnreadCount(h) /\ h \in 0 .. MaxSeq
      BY <1>5, <2>1, <2>2 DEF DoReadDrawing, Tip
    <3>2. isRead' \subseteq Seqs /\ unreadCount' \in Nat
          /\ hasReadSeq' \in 0 .. MaxSeq /\ readers' = readers
      <4>1. CASE h > hasReadSeq
        <5>1. MarkRows((hasReadSeq + 1 .. h) \cap LocalSeqs) \subseteq Seqs
          BY DEF MarkRows, LocalSeqs, Seqs, TypeOK
        <5>2. DecrUnread(h - hasReadSeq) \in Nat
          BY <3>1 DEF DecrUnread, TypeOK
        <5> QED
          BY <3>1, <4>1, <5>1, <5>2 DEF DoUnreadCount, TypeOK
      <4>2. CASE ~(h > hasReadSeq)
        BY <3>1, <4>2 DEF DoUnreadCount, TypeOK
      <4> QED
        BY <4>1, <4>2
    <3> QED
      BY <1>5, <2>1, <3>2 DEF DoReadDrawing, TypeOK
  <2>3. CASE t.user # Me
    <3>1. DoPeerReceipt(t)
      BY <1>5, <2>3 DEF DoReadDrawing
    <3>2. t.user \in Peers /\ t.seqs \subseteq Seqs
      BY <2>1, <2>3 DEF Tip, Users
    <3> QED
      BY <1>5, <2>1, <3>1, <3>2 DEF DoReadDrawing, DoPeerReceipt, TypeOK
  <2> QED
    BY <2>2, <2>3
<1>6. ASSUME NEW c \in Callers,
             \/ MarkAllStart(c) \/ MarkAllDone(c)
             \/ MarkByMsgIDStart(c) \/ MarkByMsgIDDone(c)
             \/ SetHasReadStart(c) \/ SetHasReadDone(c)
             \/ ReqFailed(c)
      PROVE TypeOK'
  <2>1. CASE MarkAllStart(c)
    BY <2>1 DEF MarkAllStart, TypeOK, Call, AsReadSeqs, LocalSeqs, Seqs
  <2>2. CASE MarkAllDone(c)
    BY <2>2 DEF MarkAllDone, TypeOK, Call, Idle, MarkRows
  <2>3. CASE MarkByMsgIDStart(c)
    <3>1. PICK msgs \in SUBSET LocalSeqs :
            call' = [call EXCEPT ![c] = [op |-> "markByMsgID",
                                         seqs |-> AsReadSeqs(msgs),
                                         mark |-> 0]]
      BY <2>3 DEF MarkByMsgIDStart
    <3>2. AsReadSeqs(msgs) \subseteq Seqs
      <4>1. LocalSeqs \subseteq Seqs
        BY DEF TypeOK, LocalSeqs, Seqs
      <4> QED
        BY <4>1 DEF AsReadSeqs
    <3>3. call' \in [Callers -> Call]
      BY <3>1, <3>2 DEF TypeOK, Call
    <3>4. UNCHANGED <<svrSender, svrMax, localMax, isRead, readers,
                      unreadCount, hasReadSeq, tips, pushed>>
      BY <2>3 DEF MarkByMsgIDStart
    <3> QED
      BY <3>3, <3>4 DEF TypeOK
  <2>4. CASE MarkByMsgIDDone(c)
    <3>1. Cardinality(MarkRows(call[c].seqs)) \in Nat
      BY SeqSetFinite DEF TypeOK, Call, MarkRows
    <3> QED
    BY <2>4, <3>1 DEF MarkByMsgIDDone, TypeOK, Call, Idle, MarkRows, DecrUnread
  <2>5. CASE SetHasReadStart(c)
    BY <2>5 DEF SetHasReadStart, TypeOK, Call
  <2>6. CASE SetHasReadDone(c)
    BY <2>6 DEF SetHasReadDone, TypeOK, Call, Idle
  <2>7. CASE ReqFailed(c)
    BY <2>7 DEF ReqFailed, TypeOK, Call, Idle
  <2> QED
    BY <1>6, <2>1, <2>2, <2>3, <2>4, <2>5, <2>6, <2>7
<1>7. CASE UNCHANGED vars
  BY <1>7 DEF vars, TypeOK, LocalSeqs
<1> QED
  BY <1>1, <1>2, <1>3, <1>4, <1>5, <1>6, <1>7 DEF Next

(* Every step of the tracker keeps all variables within their types: the  *)
(* counter stays a natural number through DecrConversationUnreadCount's   *)
(* clamp, the watermark within the seq bound, the tip queue a sequence of  *)
(* tips.                                                                   *)
THEOREM TypeCorrect == Spec => []TypeOK
BY TypeInit, TypeStep, PTL DEF Spec
-----------------------------------------------------------------------------
(* unread_count never over-counts.                                         *)
(*                                                                         *)
(* NoOvercount is not inductive by itself: a step that marks read the      *)
(* snapshot of an API call, or the seqs of a peer tip, must not touch a    *)
(* counted message outside the local log or one of another user.  The     *)
(* strengthening says that read rows and call snapshots are local       *)
(* messages and peer tips name only messages of Me.                        *)

ReadLocal == isRead \subseteq LocalSeqs
CallsLocal == \A c \in Callers : call[c].seqs \subseteq LocalSeqs
PeerTipsOwn == \A i \in 1 .. Len(tips) :
    tips[i].user # Me => \A s \in tips[i].seqs : svrSender[s] = Me
IInv == TypeOK /\ ReadLocal /\ CallsLocal /\ PeerTipsOwn /\ NoOvercount

(* Taking a finite set T off a finite set S removes at most |T| elements. *)
LEMMA CardDiffBound ==
    ASSUME NEW S, NEW T, IsFiniteSet(S), IsFiniteSet(T)
    PROVE  /\ IsFiniteSet(S \ T)
           /\ Cardinality(S \ T) >= Cardinality(S) - Cardinality(T)
<1>1. IsFiniteSet(S \ T) /\ Cardinality(S \ T) = Cardinality(S) - Cardinality(S \cap T)
  BY FS_Difference
<1>2. Cardinality(S \cap T) <= Cardinality(T) /\ Cardinality(S \cap T) \in Nat
  BY FS_Intersection, FS_CardinalityType
<1> QED
  BY <1>1, <1>2, FS_CardinalityType

(* The counted messages are a finite set of seqs.                          *)
LEMMA UnreadFinite ==
    ASSUME TypeOK
    PROVE  /\ UnreadSeqs \subseteq Seqs
           /\ IsFiniteSet(UnreadSeqs)
           /\ Cardinality(UnreadSeqs) \in Nat
<1>1. UnreadSeqs \subseteq Seqs
  BY DEF UnreadSeqs, LocalSeqs, Seqs, TypeOK
<1> QED
  BY <1>1, SeqSetFinite

(* A step that only adds X to the read rows takes X off the counted set.   *)
LEMMA MarkReadRemoves ==
    ASSUME NEW X, isRead' = isRead \cup X,
           UNCHANGED <<localMax, svrSender>>
    PROVE  UnreadSeqs' = UnreadSeqs \ X
BY DEF UnreadSeqs, LocalSeqs

(* A step that does not change the log, the read rows nor the counter     *)
(* keeps NoOvercount.                                                      *)
LEMMA CountUnchanged ==
    ASSUME NoOvercount,
           UNCHANGED <<localMax, svrSender, isRead, unreadCount>>
    PROVE  NoOvercount'
BY DEF NoOvercount, UnreadSeqs, LocalSeqs

(* Decrementing by at least as many as are taken off keeps NoOvercount.   *)
LEMMA DecrKeeps ==
    ASSUME TypeOK, NoOvercount, NEW X \in SUBSET Seqs, NEW n \in Nat,
           Cardinality(X) <= n,
           UnreadSeqs' = UnreadSeqs \ X,
           unreadCount' = DecrUnread(n)
    PROVE  NoOvercount'
<1>1. IsFiniteSet(X) /\ Cardinality(X) \in Nat
  BY SeqSetFinite
<1>2. IsFiniteSet(UnreadSeqs) /\ Cardinality(UnreadSeqs) \in Nat
  BY UnreadFinite
<1>3. Cardinality(UnreadSeqs \ X) >= Cardinality(UnreadSeqs) - Cardinality(X)
  BY <1>1, <1>2, CardDiffBound
<1>4. Cardinality(UnreadSeqs \ X) \in Nat
  BY <1>1, <1>2, CardDiffBound, FS_CardinalityType
<1> QED
  BY <1>1, <1>2, <1>3, <1>4 DEF NoOvercount, DecrUnread, TypeOK

(* The strengthening holds initially.                                      *)
LEMMA IInvInit == Init => IInv
<1> SUFFICES ASSUME Init PROVE IInv
  OBVIOUS
<1>1. TypeOK
  BY TypeInit
<1>2. UnreadSeqs = {}
  BY DEF Init, UnreadSeqs, LocalSeqs
<1> QED
  BY <1>1, <1>2, FS_EmptySet
     DEF Init, IInv, ReadLocal, CallsLocal, PeerTipsOwn, NoOvercount, Idle
(* Every step keeps the strengthening.                                     *)
LEMMA IInvStep == IInv /\ [Next]_vars => IInv'
<1> SUFFICES ASSUME IInv, [Next]_vars PROVE IInv'
  OBVIOUS
<1> USE DEF IInv
<1>0. TypeOK'
  BY TypeStep
<1>1. CASE ServerMsg
  <2>1. ReadLocal' /\ CallsLocal' /\ PeerTipsOwn'
    BY <1>1 DEF ServerMsg, ReadLocal, CallsLocal, PeerTipsOwn, LocalSeqs
  <2>2. NoOvercount'
    BY <1>1, CountUnchanged DEF ServerMsg
  <2> QED
    BY <1>0, <2>1, <2>2
<1>2. CASE InsertMsg
  <2> DEFINE s == localMax + 1
  <2>1. ReadLocal' /\ CallsLocal' /\ PeerTipsOwn'
    BY <1>2 DEF InsertMsg, ReadLocal, CallsLocal, PeerTipsOwn, LocalSeqs, TypeOK
  <2>2. s \notin UnreadSeqs
    BY DEF UnreadSeqs, LocalSeqs, TypeOK
  <2>3. UnreadSeqs' = IF svrSender[s] # Me THEN UnreadSeqs \cup {s}
                                         ELSE UnreadSeqs
    BY <1>2 DEF InsertMsg, UnreadSeqs, LocalSeqs, ReadLocal, TypeOK
  <2>4. IsFiniteSet(UnreadSeqs) /\ Cardinality(UnreadSeqs) \in Nat
    BY UnreadFinite
  <2>5. NoOvercount'
    <3>1. CASE svrSender[s] # Me
      <4>1. Cardinality(UnreadSeqs') = Cardinality(UnreadSeqs) + 1
        BY <2>2, <2>3, <2>4, <3>1, FS_AddElement
      <4> QED
        BY <1>2, <2>4, <3>1, <4>1 DEF InsertMsg, NoOvercount, TypeOK
    <3>2. CASE svrSender[s] = Me
      BY <1>2, <2>3, <3>2 DEF InsertMsg, NoOvercount
    <3> QED
      BY <3>1, <3>2
  <2> QED
    BY <1>0, <2>1, <2>5
<1>3. CASE PushSelfTip
  <2>1. ReadLocal' /\ CallsLocal'
    BY <1>3 DEF PushSelfTip, ReadLocal, CallsLocal, LocalSeqs
  <2>2. PeerTipsOwn'
    BY <1>3 DEF PushSelfTip, PeerTipsOwn, TypeOK
  <2>3. NoOvercount'
    BY <1>3, CountUnchanged DEF PushSelfTip
  <2> QED
    BY <1>0, <2>1, <2>2, <2>3
<1>4. ASSUME NEW u \in Peers, PushPeerTip(u) PROVE IInv'
  <2>1. ReadLocal' /\ CallsLocal'
    BY <1>4 DEF PushPeerTip, ReadLocal, CallsLocal, LocalSeqs
  <2>2. PeerTipsOwn'
    <3>1. PICK S \in SUBSET {s \in 1 .. svrMax : svrSender[s] = Me} :
            tips' = Append(tips, [user |-> u, hasReadSeq |-> 0, seqs |-> S])
      BY <1>4 DEF PushPeerTip
    <3> DEFINE new == [user |-> u, hasReadSeq |-> 0, seqs |-> S]
    <3>2. new \in Tip
      BY DEF Tip, Users, Seqs, TypeOK
    <3>3. /\ Len(tips') = Len(tips) + 1
          /\ \A i \in 1 .. Len(tips) : tips'[i] = tips[i]
          /\ tips'[Len(tips) + 1] = new
      BY <3>1, <3>2, AppendProperties DEF TypeOK
    <3>4. svrSender' = svrSender
      BY <1>4 DEF PushPeerTip
    <3> QED
      BY <3>3, <3>4 DEF PeerTipsOwn
  <2>3. NoOvercount'
    BY <1>4, CountUnchanged DEF PushPeerTip
  <2> QED
    BY <1>0, <2>1, <2>2, <2>3
<1>5. CASE DoReadDrawing
  <2> DEFINE t == Head(tips)
  <2>1. tips # <<>> /\ tips' = Tail(tips) /\ t = tips[1]
        /\ UNCHANGED <<svrSender, svrMax, localMax, pushed, call>>
    BY <1>5 DEF DoReadDrawing
  <2>2. CallsLocal' /\ PeerTipsOwn'
    <3>1. /\ t \in Tip
          /\ Len(tips') = Len(tips) - 1
          /\ \A i \in 1 .. Len(tips') : tips'[i] = tips[i + 1]
      BY <2>1, HeadTailProperties DEF TypeOK
    <3>2. CallsLocal'
      BY <2>1 DEF CallsLocal, LocalSeqs
    <3>3. PeerTipsOwn'
      BY <2>1, <3>1 DEF PeerTipsOwn, TypeOK
    <3> QED
      BY <3>2, <3>3
  <2>3. CASE t.user = Me
    <3> DEFINE h == t.hasReadSeq
    <3>1. DoUnreadCount(h) /\ h \in 0 .. MaxSeq
      <4>1. DoUnreadCount(h)
        BY <1>5, <2>3 DEF DoReadDrawing
      <4>2. t \in Tip
        BY <2>1, HeadTailProperties DEF TypeOK
      <4> QED
        BY <4>1, <4>2 DEF Tip
    <3>2. CASE h > hasReadSeq
      <4> DEFINE X == MarkRows((hasReadSeq + 1 .. h) \cap LocalSeqs)
      <4>1. isRead' = isRead \cup X /\ unreadCount' = DecrUnread(h - hasReadSeq)
        BY <3>1, <3>2 DEF DoUnreadCount
      <4>2. X \subseteq hasReadSeq + 1 .. h /\ X \subseteq LocalSeqs
        BY DEF MarkRows
      <4>3. Cardinality(X) <= h - hasReadSeq
        <5>1. IsFiniteSet(hasReadSeq + 1 .. h)
              /\ Cardinality(hasReadSeq + 1 .. h) = h - hasReadSeq
          <6>1. hasReadSeq + 1 \in Int /\ h \in Int
            BY <3>1 DEF TypeOK
          <6>2. IsFiniteSet(hasReadSeq + 1 .. h)
                /\ Cardinality(hasReadSeq + 1 .. h)
                     = IF hasReadSeq + 1 > h THEN 0 ELSE h - (hasReadSeq + 1) + 1
            BY <6>1, FS_Interval
          <6> QED
            BY <3>1, <3>2, <6>2 DEF TypeOK
        <5>2. Cardinality(X) <= Cardinality(hasReadSeq + 1 .. h)
          BY <4>2, <5>1, FS_Subset
        <5> QED
          BY <5>1, <5>2
      <4>4. X \subseteq Seqs
        <5>1. hasReadSeq + 1 .. h \subseteq Seqs
          BY <3>1 DEF Seqs, TypeOK
        <5> QED
          BY <4>2, <5>1
      <4>5. UnreadSeqs' = UnreadSeqs \ X
        BY <2>1, <4>1, MarkReadRemoves
      <4>6. NoOvercount'
        <5>1. h - hasReadSeq \in Nat
          BY <3>1, <3>2 DEF TypeOK
        <5> QED
          BY <4>1, <4>3, <4>4, <4>5, <5>1, DecrKeeps
      <4>7. ReadLocal'
        BY <2>1, <4>1, <4>2 DEF ReadLocal, LocalSeqs
      <4> QED
        BY <1>0, <2>2, <4>6, <4>7
    <3>3. CASE ~(h > hasReadSeq)
      <4>1. UNCHANGED <<isRead, unreadCount>>
        BY <3>1, <3>3 DEF DoUnreadCount
      <4> QED
        BY <1>0, <2>1, <2>2, <4>1, CountUnchanged DEF ReadLocal, LocalSeqs
    <3> QED
      BY <3>2, <3>3
  <2>4. CASE t.user # Me
    <3>1. DoPeerReceipt(t)
      BY <1>5, <2>3, <2>4 DEF DoReadDrawing
    <3>2. \A s \in t.seqs : svrSender[s] = Me
      BY <2>1, <2>4 DEF PeerTipsOwn, TypeOK
    <3>3. UNCHANGED unreadCount
      BY <3>1 DEF DoPeerReceipt
    <3>4. CASE ConvType = "single"
      <4> DEFINE X == t.seqs \cap LocalSeqs
      <4>1. isRead' = isRead \cup X
        BY <3>1, <3>4 DEF DoPeerReceipt
      <4>2. UnreadSeqs' = UnreadSeqs
        <5>1. UnreadSeqs' = UnreadSeqs \ X
          BY <2>1, <4>1, MarkReadRemoves
        <5> QED
          BY <3>2, <5>1 DEF UnreadSeqs
      <4> QED
        BY <1>0, <2>1, <2>2, <3>3, <4>1, <4>2 DEF ReadLocal, NoOvercount, LocalSeqs
    <3>5. CASE ConvType # "single"
      <4>1. UNCHANGED isRead
        BY <3>1, <3>5 DEF DoPeerReceipt
      <4> QED
        BY <1>0, <2>1, <2>2, <3>3, <4>1, CountUnchanged DEF ReadLocal, LocalSeqs
    <3> QED
      BY <3>4, <3>5
  <2> QED
    BY <2>3, <2>4
<1>6. ASSUME NEW c \in Callers,
             \/ MarkAllStart(c) \/ MarkAllDone(c)
             \/ MarkByMsgIDStart(c) \/ MarkByMsgIDDone(c)
             \/ SetHasReadStart(c) \/ SetHasReadDone(c)
             \/ ReqFailed(c)
      PROVE IInv'
  <2>1. CASE MarkAllStart(c)
    <3>1. AsReadSeqs(LocalSeqs) \subseteq LocalSeqs
      BY DEF AsReadSeqs
    <3>2. ReadLocal' /\ CallsLocal' /\ PeerTipsOwn'
      BY <2>1, <3>1 DEF MarkAllStart, ReadLocal, CallsLocal, PeerTipsOwn, LocalSeqs
    <3> QED
      BY <1>0, <2>1, <3>2, CountUnchanged DEF MarkAllStart
  <2>2. CASE MarkAllDone(c)
    <3>1. ReadLocal' /\ CallsLocal' /\ PeerTipsOwn'
      BY <2>2 DEF MarkAllDone, ReadLocal, CallsLocal, PeerTipsOwn, LocalSeqs,
                  MarkRows, Idle, TypeOK
    <3>2. NoOvercount'
      <4>1. Cardinality(UnreadSeqs') \in Nat
        <5>1. UnreadSeqs' \subseteq Seqs
          BY <1>0 DEF UnreadSeqs, LocalSeqs, Seqs, TypeOK
        <5> QED
          BY <5>1, SeqSetFinite
      <4> QED
        BY <2>2, <4>1 DEF MarkAllDone, NoOvercount
    <3> QED
      BY <1>0, <3>1, <3>2
  <2>3. CASE MarkByMsgIDStart(c)
    <3>1. PICK msgs \in SUBSET LocalSeqs :
            call' = [call EXCEPT ![c] = [op |-> "markByMsgID",
                                         seqs |-> AsReadSeqs(msgs),
                                         mark |-> 0]]
      BY <2>3 DEF MarkByMsgIDStart
    <3>2. UNCHANGED <<svrSender, svrMax, localMax, isRead, readers,
                      unreadCount, hasReadSeq, tips, pushed>>
      BY <2>3 DEF MarkByMsgIDStart
    <3>3. AsReadSeqs(msgs) \subseteq LocalSeqs
      BY DEF AsReadSeqs
    <3>4. ReadLocal' /\ CallsLocal' /\ PeerTipsOwn'
      BY <3>1, <3>2, <3>3 DEF ReadLocal, CallsLocal, PeerTipsOwn, LocalSeqs
    <3> QED
      BY <1>0, <3>2, <3>4, CountUnchanged
  <2>4. CASE MarkByMsgIDDone(c)
    <3> DEFINE X == MarkRows(call[c].seqs)
    <3>1. X \subseteq LocalSeqs /\ X \subseteq Seqs
      BY DEF MarkRows, CallsLocal, LocalSeqs, Seqs, TypeOK
    <3>2. Cardinality(X) \in Nat
      BY <3>1, SeqSetFinite
    <3>3. ReadLocal' /\ CallsLocal' /\ PeerTipsOwn'
      BY <2>4, <3>1 DEF MarkByMsgIDDone, ReadLocal, CallsLocal, PeerTipsOwn,
                        LocalSeqs, Idle, TypeOK
    <3>4. UnreadSeqs' = UnreadSeqs \ X
      BY <2>4, MarkReadRemoves DEF MarkByMsgIDDone
    <3>5. NoOvercount'
      BY <2>4, <3>1, <3>2, <3>4, DecrKeeps DEF MarkByMsgIDDone
    <3> QED
      BY <1>0, <3>3, <3>5
  <2>5. CASE SetHasReadStart(c)
    <3>1. ReadLocal' /\ CallsLocal' /\ PeerTipsOwn'
      BY <2>5 DEF SetHasReadStart, ReadLocal, CallsLocal, PeerTipsOwn, LocalSeqs
    <3> QED
      BY <1>0, <2>5, <3>1, CountUnchanged DEF SetHasReadStart
  <2>6. CASE SetHasReadDone(c)
    <3>1. ReadLocal' /\ CallsLocal' /\ PeerTipsOwn'
      BY <2>6 DEF SetHasReadDone, ReadLocal, CallsLocal, PeerTipsOwn, LocalSeqs,
                  Idle
    <3> QED
      BY <1>0, <2>6, <3>1, CountUnchanged DEF SetHasReadDone
  <2>7. CASE ReqFailed(c)
    <3>1. ReadLocal' /\ CallsLocal' /\ PeerTipsOwn'
      BY <2>7 DEF ReqFailed, ReadLocal, CallsLocal, PeerTipsOwn, LocalSeqs, Idle
    <3> QED
      BY <1>0, <2>7, <3>1, CountUnchanged DEF ReqFailed
  <2> QED
    BY <1>6, <2>1, <2>2, <2>3, <2>4, <2>5, <2>6, <2>7
<1>7. CASE UNCHANGED vars
  BY <1>0, <1>7, CountUnchanged
     DEF vars, ReadLocal, CallsLocal, PeerTipsOwn, LocalSeqs
<1> QED
  BY <1>1, <1>2, <1>3, <1>4, <1>5, <1>6, <1>7 DEF Next

(* unread_count never exceeds the number of unread messages of other      *)
(* users, for every interleaving of the mark-as-read calls, the tip        *)
(* handler and message insertion, and every number of callers, peers and  *)
(* seqs.                                                                   *)
THEOREM UnreadNeverOvercounted == Spec => []NoOvercount
<1>1. IInv => NoOvercount
  BY DEF IInv
<1> QED
  BY IInvInit, IInvStep, <1>1, PTL DEF Spec

=============================================================================
