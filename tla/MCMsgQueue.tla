----------------------------- MODULE MCMsgQueue -----------------------------
(* Instances of MsgQueue for TLC: the constants are given in the .cfg files. *)
EXTENDS MsgQueue
=============================================================================
