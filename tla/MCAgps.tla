------------------------------- MODULE MCAgps -------------------------------
(* Agps with a few handles, for TLC.                                       *)
EXTENDS Agps, TLC

HandleSymmetry == Permutations(Handles)
=============================================================================
