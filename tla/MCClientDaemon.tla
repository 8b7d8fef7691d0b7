---------------------------- MODULE MCClientDaemon ----------------------------
(* Instances of ClientDaemon for TLC.                                      *)
EXTENDS ClientDaemon, TLC

OneMask == {{"location"}}
TwoMasks == {{"location"}, {"sv"}}
=============================================================================
