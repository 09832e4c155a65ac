------------------------------- MODULE WsConn -------------------------------
(***************************************************************************)
(* The Connection Manager of src/internal/interaction/ws_conn.go.          *)
(*                                                                         *)
(* One WsConn.  stateMutex serialises ReConn, CloseConn, writeBinaryMsg    *)
(* and SendPingMsg.  All but ReConn hold it for one atomic step; ReConn    *)
(* holds it across the dial and across its two sends on ConversationCh,   *)
(* so those are steps of their own.  The callers of ReConn (the login     *)
(* path and the reconnection policy), the read loop that handles a kick   *)
(* pushed by the server, and the goroutine draining ConversationCh are    *)
(* not in this repository; they are modelled from the spec (sections 4.2 *)
(* and 5).  Connections are numbered by the dial that opened them.        *)
(***************************************************************************)
EXTENDS Naturals, Sequences, FiniteSets

CONSTANTS
    Writers,    \* goroutines calling writeBinaryMsg or SendPingMsg
    Codes,      \* dial outcomes the network and server may produce
    MaxDials,   \* bound on dial attempts
    ChCap,      \* buffer capacity of ConversationCh
    HasConvCh   \* ConversationCh != nil

\* The server's status codes of a refused upgrade (lines 202-226).
FatalCodes == {"expired", "invalid", "malformed", "notValidYet", "unknown",
               "diffPlatform", "diffUser"}
StatusCodes == FatalCodes \cup {"kicked", "other"}
\* "ok": the dial succeeds; "noResp": it fails with no HTTP response.
AllOutcomes == {"ok", "noResp"} \cup StatusCodes

ASSUME WsConnAssumption ==
    /\ Codes \subseteq AllOutcomes /\ "ok" \in Codes
    /\ MaxDials \in Nat /\ ChCap \in Nat \ {0} /\ HasConvCh \in BOOLEAN

Nil == 0
ConnIds == 1 .. MaxDials
Results == {"none", "ok", "errNil", "errClosed", "errTooLong"}

VARIABLES
    locked,      \* stateMutex is held by ReConn between its steps
    conn,        \* u.conn: a connection number, or Nil
    open,        \* connections dialed and not closed by either side
    dials,       \* dial attempts so far
    loginStatus, \* u.loginStatus: "none", "success", "failed", "kicked"
    isConnected, \* u.IsConnected
    rpc,         \* ReConn's caller: "new", "idle", "dial", "sigBegin", "sigFailed"
    retry,       \* third result of the last ReConn
    lastCode,    \* outcome of the last ReConn: a dial outcome, "refused" or "none"
    cbs,         \* listener callbacks of the last ReConn, in order
    convCh,      \* commands buffered in ConversationCh
    kickRead,    \* the read loop has read a kick frame not yet applied
    svrKicked,   \* the server has kicked this token
    wres,        \* result of each writer's last writeBinaryMsg
    pres         \* result of each writer's last SendPingMsg

vars == <<locked, conn, open, dials, loginStatus, isConnected, rpc, retry,
          lastCode, cbs, convCh, kickRead, svrKicked, wres, pres>>

TypeOK ==
    /\ locked \in BOOLEAN
    /\ conn \in {Nil} \cup ConnIds
    /\ open \subseteq ConnIds
    /\ dials \in 0 .. MaxDials
    /\ loginStatus \in {"none", "success", "failed", "kicked"}
    /\ isConnected \in BOOLEAN
    /\ rpc \in {"new", "idle", "dial", "sigBegin", "sigFailed"}
    /\ retry \in BOOLEAN
    /\ lastCode \in AllOutcomes \cup {"refused", "none"}
    /\ cbs \in Seq({"connecting", "success", "failed", "expired", "kicked"})
    /\ convCh \in Seq({"syncBegin", "syncFailed", "cmd"}) /\ Len(convCh) <= ChCap
    /\ kickRead \in BOOLEAN /\ svrKicked \in BOOLEAN
    /\ wres \in [Writers -> Results] /\ pres \in [Writers -> Results]

Init ==
    /\ locked = FALSE
    /\ conn = Nil
    /\ open = {}
    /\ dials = 0
    /\ loginStatus = "none"
    /\ isConnected = FALSE
    /\ rpc = "new"
    /\ retry = FALSE
    /\ lastCode = "none"
    /\ cbs = <<>>
    /\ convCh = <<>>
    /\ kickRead = FALSE /\ svrKicked = FALSE
    /\ wres = [w \in Writers |-> "none"] /\ pres = [w \in Writers |-> "none"]

-----------------------------------------------------------------------------
(* ReConn, lines 171-182: take the lock, close the old connection, refuse  *)
(* to reconnect a kicked session (the deferred Unlock releases the lock),  *)
(* otherwise call OnConnecting and go on to dial.  NewWsConn (line 40)     *)
(* calls it once; afterwards the reconnection policy calls it again while  *)
(* the last call said the session may be retried.                          *)
\* Mutant: the old connection is dropped without being closed.
ReConnLockNoClose ==
    /\ ~locked
    /\ \/ rpc = "new"
       \/ rpc = "idle" /\ retry
    /\ dials < MaxDials
    /\ conn' = Nil
    /\ IF loginStatus = "kicked"
         THEN /\ rpc' = "idle" /\ retry' = FALSE /\ lastCode' = "refused"
              /\ cbs' = <<>> /\ UNCHANGED locked
         ELSE /\ rpc' = "dial" /\ locked' = TRUE /\ cbs' = <<"connecting">>
              /\ UNCHANGED <<retry, lastCode>>
    /\ UNCHANGED <<open, dials, loginStatus, isConnected, convCh, kickRead, svrKicked, wres, pres>>

\* Mutant: the early return for a kicked session does not unlock.
ReConnLockKeepLock ==
    /\ ~locked
    /\ \/ rpc = "new"
       \/ rpc = "idle" /\ retry
    /\ dials < MaxDials
    /\ open' = open \ {conn}
    /\ conn' = Nil
    /\ locked' = TRUE
    /\ IF loginStatus = "kicked"
         THEN /\ rpc' = "idle" /\ retry' = FALSE /\ lastCode' = "refused"
              /\ cbs' = <<>>
         ELSE /\ rpc' = "dial" /\ cbs' = <<"connecting">>
              /\ UNCHANGED <<retry, lastCode>>
    /\ UNCHANGED <<dials, loginStatus, isConnected, convCh, kickRead, svrKicked, wres, pres>>

ReConnLock ==
    /\ ~locked
    /\ \/ rpc = "new"
       \/ rpc = "idle" /\ retry
    /\ dials < MaxDials
    /\ open' = open \ {conn}
    /\ conn' = Nil
    /\ IF loginStatus = "kicked"
         THEN /\ rpc' = "idle" /\ retry' = FALSE /\ lastCode' = "refused"
              /\ cbs' = <<>> /\ UNCHANGED locked
         ELSE /\ rpc' = "dial" /\ locked' = TRUE /\ cbs' = <<"connecting">>
              /\ UNCHANGED <<retry, lastCode>>
    /\ UNCHANGED <<dials, loginStatus, isConnected, convCh, kickRead, svrKicked, wres, pres>>

\* The callbacks after OnConnectFailed for a refused upgrade (lines 202-226):
\* expired adds OnUserTokenExpired, kicked OnKickedOffline, an unknown code
\* a second OnConnectFailed(1001).
CodeCallbacks(c) ==
    CASE c = "expired" -> <<"expired">>
      [] c = "kicked"  -> <<"kicked">>
      [] c = "other"   -> <<"failed">>
      [] OTHER         -> <<>>

\* Mutant: the invalid-token case is missing from the switch and falls to
\* the default.
RetryableNoInvalidCase(c) == c \in {"other", "invalid"}

\* ReConn's third result for a refused upgrade: only the default case of
\* the switch (line 226) lets the caller retry.
Retryable(c) == c = "other"

\* The outcomes the server may give a dial: once it kicked the token it
\* accepts no more upgrades with it and answers with the kicked code.
DialOutcomes ==
    IF svrKicked THEN (Codes \ {"ok"}) \cup {"kicked"} ELSE Codes

\* ReConn, lines 184-246: the dial and what follows it, still under the
\* lock.  A dial failing with no response goes on to signal ConversationCh.
ReConnDial ==
    /\ rpc = "dial"
    /\ \E c \in DialOutcomes :
        /\ dials' = dials + 1
        /\ lastCode' = c
        /\ IF c = "ok"
             THEN /\ open' = open \cup {dials + 1}
                  /\ conn' = dials + 1
                  /\ isConnected' = TRUE
                  /\ loginStatus' = "success"
                  /\ cbs' = Append(cbs, "success")
                  /\ retry' = TRUE /\ rpc' = "idle" /\ locked' = FALSE
             ELSE /\ loginStatus' = "failed"
                  /\ isConnected' = FALSE
                  /\ UNCHANGED <<open, conn>>
                  /\ IF c = "noResp"
                       THEN /\ cbs' = Append(cbs, "failed")
                            /\ IF HasConvCh
                                 THEN /\ rpc' = "sigBegin" /\ UNCHANGED <<retry, locked>>
                                 ELSE /\ rpc' = "idle" /\ retry' = TRUE /\ locked' = FALSE
                       ELSE /\ cbs' = (cbs \o <<"failed">>) \o CodeCallbacks(c)
                            /\ retry' = Retryable(c) /\ rpc' = "idle" /\ locked' = FALSE
    /\ UNCHANGED <<convCh, kickRead, svrKicked, wres, pres>>

\* Line 233: "sync begin" is sent on ConversationCh, blocking while it is full.
SendSyncBegin ==
    /\ rpc = "sigBegin"
    /\ Len(convCh) < ChCap
    /\ convCh' = Append(convCh, "syncBegin")
    /\ rpc' = "sigFailed"
    /\ UNCHANGED <<locked, conn, open, dials, loginStatus, isConnected, retry,
                   lastCode, cbs, kickRead, svrKicked, wres, pres>>

\* Lines 234-237: "sync failed" is sent, then ReConn returns and unlocks.
SendSyncFailed ==
    /\ rpc = "sigFailed"
    /\ Len(convCh) < ChCap
    /\ convCh' = Append(convCh, "syncFailed")
    /\ rpc' = "idle" /\ retry' = TRUE /\ locked' = FALSE
    /\ UNCHANGED <<conn, open, dials, loginStatus, isConnected, lastCode, cbs,
                   kickRead, svrKicked, wres, pres>>

-----------------------------------------------------------------------------
(* CloseConn, lines 45-55: close u.conn under the lock.  u.conn is not     *)
(* reset (line 51 is commented out), nor is IsConnected.  A connection     *)
(* closed by the network or the server leaves the same state.             *)
CloseConn ==
    /\ ~locked
    /\ conn # Nil
    /\ open' = open \ {conn}
    /\ UNCHANGED <<locked, conn, dials, loginStatus, isConnected, rpc, retry,
                   lastCode, cbs, convCh, kickRead, svrKicked, wres, pres>>

\* writeBinaryMsg, lines 100-137: under the lock, an error if u.conn is nil,
\* then the size check, then the write, which fails on a closed connection.
\* SetWriteTimeout (lines 91-94) always returns nil.
WriteResult(big) ==
    CASE conn = Nil      -> "errNil"
      [] big             -> "errTooLong"
      [] conn \in open   -> "ok"
      [] OTHER           -> "errClosed"

WriteMsg(w) ==
    /\ ~locked
    /\ \E big \in BOOLEAN : wres' = [wres EXCEPT ![w] = WriteResult(big)]
    /\ UNCHANGED <<locked, conn, open, dials, loginStatus, isConnected, rpc,
                   retry, lastCode, cbs, convCh, kickRead, svrKicked, pres>>

\* SendPingMsg, lines 73-89: the same checks without a size limit.
SendPingMsg(w) ==
    /\ ~locked
    /\ pres' = [pres EXCEPT ![w] = WriteResult(FALSE)]
    /\ UNCHANGED <<locked, conn, open, dials, loginStatus, isConnected, rpc,
                   retry, lastCode, cbs, convCh, kickRead, svrKicked, wres>>

\* The server kicks the token and the read loop reads the kick frame from
\* the live connection.
KickPush ==
    /\ conn \in open
    /\ ~svrKicked
    /\ svrKicked' = TRUE /\ kickRead' = TRUE
    /\ UNCHANGED <<locked, conn, open, dials, loginStatus, isConnected, rpc,
                   retry, lastCode, cbs, convCh, wres, pres>>

\* SetLoginStatus(TokenFailedKickedOffline), lines 61-63: the read loop
\* applies the kick, without taking the lock.
SetLoginStatus ==
    /\ kickRead
    /\ kickRead' = FALSE
    /\ loginStatus' = "kicked"
    /\ UNCHANGED <<locked, conn, open, dials, isConnected, rpc, retry,
                   lastCode, cbs, convCh, svrKicked, wres, pres>>

\* Message sync and the notification handlers send their own commands on
\* ConversationCh, competing with ReConn for its buffer.
OtherSend ==
    /\ Len(convCh) < ChCap
    /\ convCh' = Append(convCh, "cmd")
    /\ UNCHANGED <<locked, conn, open, dials, loginStatus, isConnected, rpc,
                   retry, lastCode, cbs, kickRead, svrKicked, wres, pres>>

\* The conversation goroutine takes the next command off ConversationCh.
Consume ==
    /\ convCh # <<>>
    /\ convCh' = Tail(convCh)
    /\ UNCHANGED <<locked, conn, open, dials, loginStatus, isConnected, rpc,
                   retry, lastCode, cbs, kickRead, svrKicked, wres, pres>>

Next ==
    \/ ReConnLock \/ ReConnDial \/ SendSyncBegin \/ SendSyncFailed
    \/ CloseConn \/ KickPush \/ SetLoginStatus \/ OtherSend \/ Consume
    \/ \E w \in Writers : WriteMsg(w) \/ SendPingMsg(w)

Spec == Init /\ [][Next]_vars

\* The goroutine inside ReConn and the conversation goroutine keep running;
\* the reconnection policy, the writers, the other senders and the server
\* may stay quiet.  A sender blocked on a full channel is served in FIFO
\* order by the Go runtime as soon as the receiver frees a slot, hence
\* strong fairness for ReConn's two sends.
FairSpec ==
    /\ Spec
    /\ WF_vars(ReConnDial) /\ SF_vars(SendSyncBegin) /\ SF_vars(SendSyncFailed)
    /\ WF_vars(Consume)

-----------------------------------------------------------------------------
(* The abstract state each code state stands for.                          *)
ConnStateOf ==
    IF rpc = "new" THEN "Idle"
    ELSE IF rpc = "dial" THEN "Connecting"
    ELSE IF lastCode = "kicked" THEN "KickedOffline"
    ELSE IF lastCode \in FatalCodes THEN "Failed"
    ELSE IF loginStatus = "kicked" THEN "KickedOffline"
    ELSE IF conn \in open THEN "Connected"
    ELSE "Disconnected"

Abs == INSTANCE ConnState WITH st <- ConnStateOf

\* The connection manager implements the state machine of spec section 4.2:
\* in particular no reconnect follows a fatal or kicked outcome of ReConn's
\* status-code switch, and a live connection is the one the last ReConn
\* established.
Implements == Abs!Spec

\* Only one physical connection is live, and it is u.conn: ReConn closes the
\* old connection before it dials, whatever CloseConn and the server did to
\* it before.
SingleLiveConn == open \subseteq {conn}

\* Whenever ReConn holds stateMutex across its dial and its ConversationCh
\* sends, it eventually releases it, so writers and pings are not blocked
\* for good.
LockReleased == locked ~> ~locked

\* ReConn refuses to reconnect a kicked session only while loginStatus
\* stays TokenFailedKickedOffline (line 179); spec section 7 makes a kick
\* terminal.  No step may overwrite that status.
KickStatusSticky == [][loginStatus = "kicked" => loginStatus' = "kicked"]_vars

=============================================================================
