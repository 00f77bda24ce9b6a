------------------------------ MODULE Metering ------------------------------
(***************************************************************************)
(* What traffic accounting promises: bytes are measured one by one, and    *)
(* each charge moves the billed amount of one node forward, never past     *)
(* what that node has measured.                                            *)
(***************************************************************************)
EXTENDS Integers

CONSTANTS Nodes, Counters

VARIABLES metered, billed

vars == <<metered, billed>>

Init ==
    /\ metered = [n \in Nodes |-> [c \in Counters |-> 0]]
    /\ billed = [n \in Nodes |-> [c \in Counters |-> 0]]

Measure(n, c) ==
    /\ metered' = [metered EXCEPT ![n][c] = @ + 1]
    /\ UNCHANGED billed

Bill(n) ==
    /\ \A c \in Counters :
        billed[n][c] <= billed'[n][c] /\ billed'[n][c] <= metered[n][c]
    /\ billed' = [billed EXCEPT ![n] = billed'[n]]
    /\ UNCHANGED metered

Next ==
    \/ \E n \in Nodes, c \in Counters : Measure(n, c)
    \/ \E n \in Nodes : Bill(n)

Spec == Init /\ [][Next]_vars
=============================================================================
