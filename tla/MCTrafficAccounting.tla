------------------------ MODULE MCTrafficAccounting ------------------------
(* Constants for model checking TrafficAccounting. *)
EXTENDS TrafficAccounting

CONSTANTS n1, u1

OneNode == {n1}
OneUser == {u1}
=============================================================================
