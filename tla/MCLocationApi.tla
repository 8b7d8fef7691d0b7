---------------------------- MODULE MCLocationApi ----------------------------
(* Instances of LocationApi for TLC.                                       *)
EXTENDS LocationApi, TLC

(* A client of the daemon, one with batching, one with geofences too.      *)
Kinds == {{"gnss"}, {"gnss", "batching"}, {"gnss", "batching", "geofence"}}
=============================================================================
