----------------------------- MODULE MCMsgQueue ----------------------------
(* Model checking of MsgQueue.                                             *)
EXTENDS MsgQueue
=============================================================================
