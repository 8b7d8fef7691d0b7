------------------------------ MODULE MCMsgTask ------------------------------
(* MsgTask with a few messages, for TLC.                                   *)
EXTENDS MsgTask, TLC

MsgSymmetry == Permutations(Msgs)
=============================================================================
