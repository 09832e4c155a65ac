------------------------------ MODULE ConnState ------------------------------
(***************************************************************************)
(* What the Connection Manager promises (spec section 4.2), as a state     *)
(* machine over the six states the spec names.  Failed and KickedOffline   *)
(* are terminal: no automatic reconnect leaves them.                       *)
(***************************************************************************)

VARIABLE st

States == {"Idle", "Connecting", "Connected", "Disconnected", "Failed",
           "KickedOffline"}

TypeOK == st \in States

Init == st = "Idle"

\* Idle --connect--> Connecting, Disconnected --reconnect--> Connecting.
Connect == st \in {"Idle", "Disconnected"} /\ st' = "Connecting"

\* Establishing a new connection first closes the live one (section 4.2).
ForceReconnect == st = "Connected" /\ st' = "Connecting"

Succeed == st = "Connecting" /\ st' = "Connected"

FailTransient == st = "Connecting" /\ st' = "Disconnected"

FailFatal == st = "Connecting" /\ st' = "Failed"

FailKicked == st = "Connecting" /\ st' = "KickedOffline"

\* Connected --closed/ping-failure--> Disconnected.
Close == st = "Connected" /\ st' = "Disconnected"

\* A kick pushed by the server ends the session (sections 6 and 7: kicked
\* is fatal, terminal per session).
Kick == st \in {"Connecting", "Connected", "Disconnected"} /\ st' = "KickedOffline"

Next == Connect \/ ForceReconnect \/ Succeed \/ FailTransient \/ FailFatal
          \/ FailKicked \/ Close \/ Kick

Spec == Init /\ [][Next]_st

=============================================================================
