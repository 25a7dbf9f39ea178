------------------------------ MODULE RobotLocks ------------------------------
(***************************************************************************)
(* What locking promises its clients: the robots an application may send   *)
(* programs and values to are its own. A robot comes into an application's *)
(* hands only when it is in nobody's, one at a time, and no step takes     *)
(* robots from one application because of another.                        *)
(***************************************************************************)
CONSTANTS Apps, Nodes

VARIABLE holds     \* holds[a]: the robots application a may use

Init == holds = [a \in Apps |-> {}]

Free(n) == \A a \in Apps : n \notin holds[a]

\* An application gets a robot; what it held under the same id goes.
Acquire(a, n, S) ==
    /\ Free(n)
    /\ holds' = [holds EXCEPT ![a] = (@ \ S) \cup {n}]

\* Robots are given up, or have gone.
Release(a, S) == holds' = [holds EXCEPT ![a] = @ \ S]

Next ==
    \E a \in Apps, S \in SUBSET Nodes :
        \/ Release(a, S)
        \/ \E n \in Nodes : Acquire(a, n, S)

Spec == Init /\ [][Next]_holds
=============================================================================
