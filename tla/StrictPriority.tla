--------------------------- MODULE StrictPriority ---------------------------
(***************************************************************************)
(* What a port of the simulator with strict priorities promises: packets   *)
(* come with a class each; of those that wait, one of the best class (the  *)
(* lowest number) leaves first, and within a class the one that came       *)
(* first.  Numbers say in which order packets came.                        *)
(***************************************************************************)
EXTENDS Integers

CONSTANTS Number, Class

VARIABLE waiting

Init == waiting = {}

Come(p) ==
    /\ \A r \in waiting : r.n < p.n
    /\ waiting' = waiting \cup {p}

Before(p, r) == p.class < r.class \/ (p.class = r.class /\ p.n <= r.n)

Leave(p) ==
    /\ p \in waiting
    /\ \A r \in waiting : Before(p, r)
    /\ waiting' = waiting \ {p}

Next == \/ \E n \in Number, c \in Class : Come([n |-> n, class |-> c])
        \/ \E p \in waiting : Leave(p)

Spec == Init /\ [][Next]_waiting
=============================================================================
