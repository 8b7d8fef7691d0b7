------------------------------ MODULE MCSyncReq ------------------------------
(* Instances of SyncReq for TLC.                                           *)
EXTENDS SyncReq, TLC

OwnInds == [t \in Threads |-> t]
OneInd == [t \in Threads |-> "ind"]
=============================================================================
