------------------------------ MODULE Replicas ------------------------------
(***************************************************************************)
(* What configuration delivery promises.  A node has a latest              *)
(* configuration, the set of changes made so far, and its agent holds a    *)
(* copy.  A copy is replaced only by one that contains it; an agent        *)
(* process that starts holds none; and once changes stop coming every copy *)
(* becomes the latest, unless the last attempt to hand it out was given    *)
(* up, which is the master's own affair at every step.                     *)
(***************************************************************************)
CONSTANTS Nodes, Changes

VARIABLES latest, held, givenUp

vars == <<latest, held, givenUp>>

Init ==
    /\ latest = [n \in Nodes |-> {}]
    /\ held = [n \in Nodes |-> {}]
    /\ givenUp = {}

Change(c, S) ==
    /\ latest' = [n \in Nodes |-> IF n \in S THEN latest[n] \cup {c} ELSE latest[n]]
    /\ UNCHANGED held

Give(n) ==
    /\ \E copy \in SUBSET latest[n] :
          held[n] \subseteq copy /\ held' = [held EXCEPT ![n] = copy]
    /\ UNCHANGED latest

StartOver(n) ==
    /\ held' = [held EXCEPT ![n] = {}]
    /\ UNCHANGED latest

Next ==
    /\ \/ \E c \in Changes, S \in SUBSET Nodes : Change(c, S)
       \/ \E n \in Nodes : Give(n) \/ StartOver(n)
    /\ givenUp' \in SUBSET Nodes

Safe == Init /\ [][Next]_vars

Settles == \A n \in Nodes : <>[](n \in givenUp \/ held[n] = latest[n])

Spec == Safe /\ Settles

=============================================================================
