----------------------------- MODULE MCTaskPool -----------------------------
(* Model-checking instance of TaskPool.                                    *)
EXTENDS TaskPool, TLC

(* The caller may submit with either call.                                 *)
MCBothAPIs == {"Go", "TryGo"}

(* Only Go, as every caller in the repository does.                        *)
MCGoOnly == {"Go"}

=============================================================================
