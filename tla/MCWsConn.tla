------------------------------ MODULE MCWsConn ------------------------------
(* Model values for checking WsConn with TLC. *)
EXTENDS WsConn, TLC

\* Every kind of dial outcome: success, no response, two fatal codes (one
\* with its own callback), kicked, and an unrecognised code.
MCCodes == {"ok", "noResp", "expired", "invalid", "kicked", "other"}

=============================================================================
