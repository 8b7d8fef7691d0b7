----------------------------- MODULE MCBatching -----------------------------
(* Batching: the instances TLC checks.                                     *)
EXTENDS Batching

Two == {1, 2}
OneEach == [s \in Two |-> IF s = 1 THEN "A" ELSE "B"]
Trip(d, t) == [mode |-> "trip", d |-> d, t |-> t]
AllModes == {[mode |-> "routine", d |-> 0, t |-> 1],
             [mode |-> "noauto", d |-> 0, t |-> 1], Trip(1, 2), Trip(3, 1)}
=============================================================================
