------------------------------- MODULE MCMsgQ --------------------------------
(* Small instances of MsgQ for TLC. *)
EXTENDS MsgQ

CONSTANTS c1, c2, c3, s1
==============================================================================
