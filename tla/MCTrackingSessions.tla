------------------------- MODULE MCTrackingSessions -------------------------
(* Instances of TrackingSessions for TLC.                                  *)
EXTENDS TrackingSessions, TLC

Opt(i, p, f) == [ivl |-> i, pm |-> p, far |-> f, longTbm |-> FALSE]
Two == 1..2
OneEach == (1 :> "A") @@ (2 :> "B")
MixedOptions == {[Opt(0, 4, FALSE) EXCEPT !.longTbm = TRUE],
                 Opt(3, 1, FALSE), Opt(2, 1, TRUE)}
=============================================================================
