-------------------------- MODULE MCIncidentQueue --------------------------
(* Small instances of IncidentQueue.                                       *)
EXTENDS IncidentQueue, TLC

CONSTANTS p1, p2, n1, main, init, w1

OneName == p1 :> n1 @@ p2 :> n1
=============================================================================
