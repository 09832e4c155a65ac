---------------------------- MODULE WsConnProofs ----------------------------
(***************************************************************************)
(* Proofs about WsConn for every set of writers and dial outcomes, every  *)
(* bound on dials and every capacity of ConversationCh.                    *)
(***************************************************************************)
EXTENDS WsConn, SequenceTheorems, TLAPS

USE WsConnAssumption

(* ReConn's caller is inside ReConn, holding the lock.                     *)
Busy == {"dial", "sigBegin", "sigFailed"}

Callbacks == {"connecting", "success", "failed", "expired", "kicked"}

(* The strengthening: the lock is held exactly while ReConn runs, which    *)
(* has already dropped u.conn, and signals ConversationCh only after a    *)
(* dial with no response; a fatal or kicked outcome forbids a retry;  *)
(* before NewWsConn's ReConn nothing has happened.                         *)
IInv ==
    /\ TypeOK
    /\ SingleLiveConn
    /\ locked <=> rpc \in Busy
    /\ rpc \in Busy => conn = Nil
    /\ rpc = "dial" => dials < MaxDials
    /\ rpc \in {"sigBegin", "sigFailed"} => lastCode = "noResp"
    /\ (rpc = "idle" /\ lastCode \in FatalCodes \cup {"kicked"}) => ~retry
    /\ rpc = "new" => /\ loginStatus = "none" /\ ~kickRead
                      /\ conn = Nil /\ open = {}

(* A one-element tuple is a sequence.                                    *)
LEMMA OneSeq ==
    ASSUME NEW S, NEW x \in S
    PROVE  <<x>> \in Seq(S)
<1>1. <<x>> = Append(<<>>, x)
  OBVIOUS
<1> QED
  BY <1>1, EmptySeq, AppendProperties

(* The callbacks a refused upgrade adds are callbacks.                     *)
LEMMA CodeCallbacksType ==
    ASSUME NEW c
    PROVE  CodeCallbacks(c) \in Seq(Callbacks)
<1>1. \A x \in Callbacks : <<x>> \in Seq(Callbacks)
  BY OneSeq
<1>2. <<>> \in Seq(Callbacks)
  BY EmptySeq
<1> QED
  BY <1>1, <1>2 DEF CodeCallbacks, Callbacks

(* Appending to ConversationCh below its capacity keeps its type.          *)
LEMMA ChanAppend ==
    ASSUME NEW x \in {"syncBegin", "syncFailed", "cmd"},
           convCh \in Seq({"syncBegin", "syncFailed", "cmd"}),
           Len(convCh) < ChCap
    PROVE  /\ Append(convCh, x) \in Seq({"syncBegin", "syncFailed", "cmd"})
           /\ Len(Append(convCh, x)) <= ChCap
BY AppendProperties

(* The strengthening holds initially.                                      *)
LEMMA IInvInit == Init => IInv
<1> SUFFICES ASSUME Init PROVE IInv
  OBVIOUS
<1>1. <<>> \in Seq(Callbacks) /\ <<>> \in Seq({"syncBegin", "syncFailed", "cmd"})
  BY EmptySeq
<1>2. TypeOK
  <2>1. wres \in [Writers -> Results] /\ pres \in [Writers -> Results]
    BY DEF Init, Results
  <2>2. lastCode \in AllOutcomes \cup {"refused", "none"}
    BY DEF Init
  <2>3. conn \in {Nil} \cup ConnIds /\ open \subseteq ConnIds /\ dials \in 0 .. MaxDials
    BY DEF Init
  <2>4. cbs \in Seq({"connecting", "success", "failed", "expired", "kicked"})
        /\ convCh \in Seq({"syncBegin", "syncFailed", "cmd"}) /\ Len(convCh) <= ChCap
    BY <1>1, EmptySeq DEF Init, Callbacks
  <2>5. /\ locked \in BOOLEAN /\ isConnected \in BOOLEAN /\ retry \in BOOLEAN
        /\ kickRead \in BOOLEAN /\ svrKicked \in BOOLEAN
    BY DEF Init
  <2>6. /\ loginStatus \in {"none", "success", "failed", "kicked"}
        /\ rpc \in {"new", "idle", "dial", "sigBegin", "sigFailed"}
    BY DEF Init
  <2> QED
    BY <2>1, <2>2, <2>3, <2>4, <2>5, <2>6 DEF TypeOK
<1> QED
  BY <1>2 DEF Init, IInv, SingleLiveConn, Busy, Nil

(* Every step keeps the strengthening.                                     *)
LEMMA IInvStep == IInv /\ [Next]_vars => IInv'
<1> SUFFICES ASSUME IInv, [Next]_vars PROVE IInv'
  OBVIOUS
<1> USE DEF IInv, TypeOK, SingleLiveConn, Busy, Nil, ConnIds, FatalCodes
<1>1. CASE ReConnLock
  <2>1. <<"connecting">> \in Seq(Callbacks) /\ <<>> \in Seq(Callbacks)
    BY OneSeq, EmptySeq DEF Callbacks
  <2> QED
    BY <1>1, <2>1 DEF ReConnLock, Callbacks
<1>2. CASE ReConnDial
  <2>0. /\ rpc = "dial"
        /\ UNCHANGED <<convCh, kickRead, svrKicked, wres, pres>>
    BY <1>2 DEF ReConnDial
  <2>1. PICK c \in DialOutcomes : ReConnDial!2!(c)
    BY <1>2 DEF ReConnDial
  <2>2. c \in AllOutcomes
    BY <2>1 DEF DialOutcomes, AllOutcomes, StatusCodes
  <2>3. cbs \in Seq(Callbacks)
    BY DEF Callbacks
  <2>9. dials' = dials + 1 /\ lastCode' = c
    BY <2>1
  <2>4. CASE c = "ok"
    <3>1. /\ open' = open \cup {dials + 1} /\ conn' = dials + 1
          /\ isConnected' = TRUE /\ loginStatus' = "success"
          /\ cbs' = Append(cbs, "success")
          /\ retry' = TRUE /\ rpc' = "idle" /\ locked' = FALSE
      BY <2>1, <2>4
    <3>2. Append(cbs, "success") \in Seq(Callbacks)
      BY <2>3, AppendProperties DEF Callbacks
    <3>3. TypeOK'
      <4>1. conn' \in {Nil} \cup ConnIds /\ open' \subseteq ConnIds /\ dials' \in 0 .. MaxDials
        BY <2>0, <2>9, <3>1
      <4>2. lastCode' \in AllOutcomes \cup {"refused", "none"}
        BY <2>2, <2>9
      <4>3. cbs' \in Seq({"connecting", "success", "failed", "expired", "kicked"})
        BY <3>1, <3>2 DEF Callbacks
      <4>4. /\ locked' \in BOOLEAN /\ isConnected' \in BOOLEAN /\ retry' \in BOOLEAN
            /\ kickRead' \in BOOLEAN /\ svrKicked' \in BOOLEAN
        BY <2>0, <3>1
      <4>5. /\ loginStatus' \in {"none", "success", "failed", "kicked"}
            /\ rpc' \in {"new", "idle", "dial", "sigBegin", "sigFailed"}
        BY <3>1
      <4>6. /\ convCh' \in Seq({"syncBegin", "syncFailed", "cmd"}) /\ Len(convCh') <= ChCap
            /\ wres' \in [Writers -> Results] /\ pres' \in [Writers -> Results]
        BY <2>0
      <4> QED
        BY <4>1, <4>2, <4>3, <4>4, <4>5, <4>6 DEF TypeOK
    <3>4. open = {}
      BY <2>0
    <3>5. SingleLiveConn'
      BY <3>1, <3>4
    <3> QED
      BY <2>0, <2>4, <2>9, <3>1, <3>3, <3>5
  <2>5. CASE c = "noResp"
    <3>1. /\ loginStatus' = "failed" /\ isConnected' = FALSE
          /\ UNCHANGED <<open, conn>>
          /\ cbs' = Append(cbs, "failed")
          /\ IF HasConvCh
               THEN rpc' = "sigBegin" /\ UNCHANGED <<retry, locked>>
               ELSE rpc' = "idle" /\ retry' = TRUE /\ locked' = FALSE
      BY <2>1, <2>5
    <3>2. Append(cbs, "failed") \in Seq(Callbacks)
      BY <2>3, AppendProperties DEF Callbacks
    <3>3. TypeOK'
      <4>1. conn' \in {Nil} \cup ConnIds /\ open' \subseteq ConnIds /\ dials' \in 0 .. MaxDials
        BY <2>0, <2>9, <3>1
      <4>2. lastCode' \in AllOutcomes \cup {"refused", "none"}
        BY <2>2, <2>9
      <4>3. cbs' \in Seq({"connecting", "success", "failed", "expired", "kicked"})
        BY <3>1, <3>2 DEF Callbacks
      <4>4. /\ locked' \in BOOLEAN /\ isConnected' \in BOOLEAN /\ retry' \in BOOLEAN
            /\ kickRead' \in BOOLEAN /\ svrKicked' \in BOOLEAN
        BY <2>0, <3>1
      <4>5. /\ loginStatus' \in {"none", "success", "failed", "kicked"}
            /\ rpc' \in {"new", "idle", "dial", "sigBegin", "sigFailed"}
        BY <3>1
      <4>6. /\ convCh' \in Seq({"syncBegin", "syncFailed", "cmd"}) /\ Len(convCh') <= ChCap
            /\ wres' \in [Writers -> Results] /\ pres' \in [Writers -> Results]
        BY <2>0
      <4> QED
        BY <4>1, <4>2, <4>3, <4>4, <4>5, <4>6 DEF TypeOK
    <3> QED
      BY <2>0, <2>5, <2>9, <3>1, <3>3
  <2>6. CASE c \notin {"ok", "noResp"}
    <3>1. /\ loginStatus' = "failed" /\ isConnected' = FALSE
          /\ UNCHANGED <<open, conn>>
          /\ cbs' = (cbs \o <<"failed">>) \o CodeCallbacks(c)
          /\ retry' = Retryable(c) /\ rpc' = "idle" /\ locked' = FALSE
      BY <2>1, <2>6
    <3>2. (cbs \o <<"failed">>) \o CodeCallbacks(c) \in Seq(Callbacks)
      <4>1. <<"failed">> \in Seq(Callbacks)
        BY OneSeq DEF Callbacks
      <4>2. cbs \o <<"failed">> \in Seq(Callbacks)
        BY <2>3, <4>1, ConcatProperties
      <4> QED
        BY <4>2, CodeCallbacksType, ConcatProperties
    <3>3. Retryable(c) \in BOOLEAN
        /\ (c \in FatalCodes \cup {"kicked"} => ~Retryable(c))
      BY DEF Retryable
    <3>4. TypeOK'
      <4>1. conn' \in {Nil} \cup ConnIds /\ open' \subseteq ConnIds /\ dials' \in 0 .. MaxDials
        BY <2>0, <2>9, <3>1
      <4>2. lastCode' \in AllOutcomes \cup {"refused", "none"}
        BY <2>2, <2>9
      <4>3. cbs' \in Seq({"connecting", "success", "failed", "expired", "kicked"})
        BY <3>1, <3>2 DEF Callbacks
      <4>4. /\ locked' \in BOOLEAN /\ isConnected' \in BOOLEAN /\ retry' \in BOOLEAN
            /\ kickRead' \in BOOLEAN /\ svrKicked' \in BOOLEAN
        BY <2>0, <3>1, <3>3
      <4>5. /\ loginStatus' \in {"none", "success", "failed", "kicked"}
            /\ rpc' \in {"new", "idle", "dial", "sigBegin", "sigFailed"}
        BY <3>1
      <4>6. /\ convCh' \in Seq({"syncBegin", "syncFailed", "cmd"}) /\ Len(convCh') <= ChCap
            /\ wres' \in [Writers -> Results] /\ pres' \in [Writers -> Results]
        BY <2>0
      <4> QED
        BY <4>1, <4>2, <4>3, <4>4, <4>5, <4>6 DEF TypeOK

    <3> QED
      BY <2>0, <2>9, <3>1, <3>3, <3>4
  <2> QED
    BY <2>4, <2>5, <2>6
<1>3. CASE SendSyncBegin
  BY <1>3, ChanAppend DEF SendSyncBegin
<1>4. CASE SendSyncFailed
  BY <1>4, ChanAppend DEF SendSyncFailed
<1>5. CASE CloseConn
  BY <1>5 DEF CloseConn
<1>6. CASE KickPush
  BY <1>6 DEF KickPush
<1>7. CASE SetLoginStatus
  BY <1>7 DEF SetLoginStatus
<1>8. CASE OtherSend
  BY <1>8, ChanAppend DEF OtherSend
<1>9. CASE Consume
  <2>1. convCh' \in Seq({"syncBegin", "syncFailed", "cmd"}) /\ Len(convCh') <= ChCap
    BY <1>9, HeadTailProperties DEF Consume
  <2> QED
    BY <1>9, <2>1 DEF Consume
<1>10. CASE \E w \in Writers : WriteMsg(w) \/ SendPingMsg(w)
  <2>1. PICK w \in Writers : WriteMsg(w) \/ SendPingMsg(w)
    BY <1>10
  <2>2. \A b \in BOOLEAN : WriteResult(b) \in Results
    BY DEF WriteResult, Results
  <2>3. CASE WriteMsg(w)
    BY <2>2, <2>3 DEF WriteMsg, Results
  <2>4. CASE SendPingMsg(w)
    BY <2>2, <2>4 DEF SendPingMsg, Results
  <2> QED
    BY <2>1, <2>3, <2>4
<1>11. CASE UNCHANGED vars
  BY <1>11 DEF vars
<1> QED
  BY <1>1, <1>2, <1>3, <1>4, <1>5, <1>6, <1>7, <1>8, <1>9, <1>10, <1>11
     DEF Next

(* Every variable of the connection keeps its type: the RPC state, the  *)
(* login status, the last error code and the bounded dial count stay in   *)
(* their ranges for every interleaving of the connection's handlers.      *)
THEOREM TypeCorrect == Spec => []TypeOK
<1>1. IInv => TypeOK
  BY DEF IInv
<1> QED
  BY IInvInit, IInvStep, <1>1, PTL DEF Spec

(* Only one physical connection is live, and it is u.conn, for every       *)
(* interleaving of ReConn, CloseConn, writes, pings and kicks (ReConn      *)
(* closes the old connection before it dials, ws_conn.go lines 174-177).   *)
THEOREM OneLiveConnection == Spec => []SingleLiveConn
<1>1. Init => IInv
  BY IInvInit
<1>2. IInv /\ [Next]_vars => IInv'
  BY IInvStep
<1>3. IInv => SingleLiveConn
  BY DEF IInv
<1> QED
  BY <1>1, <1>2, <1>3, PTL DEF Spec

-----------------------------------------------------------------------------
(* The refinement: the mapped state starts Idle, and every step of the     *)
(* code is a step of ConnState or leaves the mapped state alone.           *)

(* Before NewWsConn's ReConn the manager is Idle.                          *)
LEMMA MapInit == Init => Abs!Init
BY DEF Init, Abs!Init, ConnStateOf, FatalCodes

(* A step that leaves ReConn's caller, the last outcome, the login status, *)
(* u.conn and the open connections alone leaves the mapped state alone.   *)
LEMMA MapFrame ==
    ASSUME UNCHANGED <<lastCode, loginStatus, conn, open>>,
           (rpc' = "new") = (rpc = "new"), (rpc' = "dial") = (rpc = "dial")
    PROVE  ConnStateOf' = ConnStateOf
BY DEF ConnStateOf

(* Every step maps to a step of ConnState or to a stutter.                 *)
LEMMA MapStep == IInv /\ IInv' /\ [Next]_vars => [Abs!Next]_ConnStateOf
<1> SUFFICES ASSUME IInv, IInv', [Next]_vars PROVE [Abs!Next]_ConnStateOf
  OBVIOUS
<1> USE DEF IInv, Busy
<1>1. CASE ReConnLock
  <2>1. CASE loginStatus = "kicked"
    <3>1. rpc = "idle" /\ retry
      BY <1>1, <2>1 DEF ReConnLock
    <3>2. ConnStateOf = "KickedOffline" /\ ConnStateOf' = "KickedOffline"
      BY <1>1, <2>1, <3>1 DEF ReConnLock, ConnStateOf, FatalCodes
    <3> QED
      BY <3>2
  <2>4. CASE loginStatus # "kicked"
    <3>5. ConnStateOf' = "Connecting"
      BY <1>1, <2>4 DEF ReConnLock, ConnStateOf
    <3>6. ConnStateOf \in {"Idle", "Connected", "Disconnected"}
      BY <1>1, <2>4 DEF ReConnLock, ConnStateOf, FatalCodes
    <3> QED
      BY <3>5, <3>6 DEF Abs!Next, Abs!Connect, Abs!ForceReconnect
  <2> QED
    BY <2>1, <2>4
<1>2. CASE ReConnDial
  <2>1. ConnStateOf = "Connecting"
    BY <1>2 DEF ReConnDial, ConnStateOf
  <2>2. rpc' # "new" /\ rpc' # "dial"
    BY <1>2 DEF ReConnDial
  <2>3. ConnStateOf' \in {"Connected", "Disconnected", "Failed", "KickedOffline"}
    BY <2>2 DEF ConnStateOf
  <2> QED
    BY <2>1, <2>3 DEF Abs!Next, Abs!Succeed, Abs!FailTransient, Abs!FailFatal,
                      Abs!FailKicked
<1>3. CASE CloseConn
  <2>1. UNCHANGED <<lastCode, loginStatus, conn, rpc>> /\ open' = open \ {conn}
    BY <1>3 DEF CloseConn
  <2>2. CASE ConnStateOf = "Connected"
    <3>1. ConnStateOf' = "Disconnected"
      BY <2>1, <2>2 DEF ConnStateOf
    <3> QED
      BY <2>2, <3>1 DEF Abs!Next, Abs!Close
  <2>3. CASE ConnStateOf # "Connected"
    <3>1. ConnStateOf' = ConnStateOf
      BY <2>1, <2>3 DEF ConnStateOf
    <3> QED
      BY <3>1
  <2> QED
    BY <2>2, <2>3
<1>4. CASE SetLoginStatus
  <2>1. UNCHANGED <<lastCode, conn, open, rpc>> /\ loginStatus' = "kicked"
        /\ rpc # "new"
    BY <1>4 DEF SetLoginStatus
  <2>2. CASE ConnStateOf' = ConnStateOf
    BY <2>2
  <2>3. CASE ConnStateOf' # ConnStateOf
    <3>1. ConnStateOf' = "KickedOffline"
      BY <2>1, <2>3 DEF ConnStateOf
    <3>2. ConnStateOf \in {"Connecting", "Connected", "Disconnected"}
      BY <2>1, <2>3, <3>1 DEF ConnStateOf
    <3> QED
      BY <3>1, <3>2 DEF Abs!Next, Abs!Kick
  <2> QED
    BY <2>2, <2>3
<1>5. CASE SendSyncFailed
  BY <1>5, MapFrame DEF SendSyncFailed
<1>6. CASE SendSyncBegin \/ KickPush \/ OtherSend \/ Consume
  BY <1>6, MapFrame DEF SendSyncBegin, KickPush, OtherSend, Consume
<1>7. CASE \E w \in Writers : WriteMsg(w) \/ SendPingMsg(w)
  BY <1>7, MapFrame DEF WriteMsg, SendPingMsg
<1>8. CASE UNCHANGED vars
  BY <1>8, MapFrame DEF vars
<1> QED
  BY <1>1, <1>2, <1>3, <1>4, <1>5, <1>6, <1>7, <1>8 DEF Next

(* The connection manager implements the state machine of spec section    *)
(* 4.2 for every set of dial outcomes: Failed and KickedOffline are never  *)
(* left, a reconnect starts only from Idle, Disconnected or Connected, and *)
(* a dial ends in one of the four outcomes of Connecting.                  *)
THEOREM RefinesConnState == Spec => Implements
<1>1. Init => IInv /\ Abs!Init
  BY IInvInit, MapInit
<1>2. IInv /\ [Next]_vars => IInv'
  BY IInvStep
<1>3. IInv /\ IInv' /\ [Next]_vars => [Abs!Next]_ConnStateOf
  BY MapStep
<1> QED
  BY <1>1, <1>2, <1>3, PTL DEF Spec, Implements, Abs!Spec

=============================================================================
