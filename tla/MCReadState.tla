---------------------------- MODULE MCReadState ----------------------------
(* Model-checking instance of ReadState: the constants the .cfg files     *)
(* substitute.                                                             *)
EXTENDS ReadState, TLC

(* The two mark-as-read calls, without the watermark write of             *)
(* getConversationMaxSeqAndSetHasRead.                                     *)
MCMarkOps == {"markAll", "markByMsgID"}

(* All three API operations.                                               *)
MCAllOps == {"markAll", "markByMsgID", "setHasRead"}
(* Peers are interchangeable: they differ only in identity.              *)
MCPeerSymmetry == Permutations(Peers)
=============================================================================
