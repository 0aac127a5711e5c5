---------------------------- MODULE MCCongestion ----------------------------
(***************************************************************************)
(* Congestion and RttTimer, either the window or the timer of an agent.    *)
(* What the other part has stays as it was.                                *)
(***************************************************************************)
EXTENDS Congestion, RttTimer

VARIABLE part

MCVariants == {[min |-> TRUE, rfc2988_ |-> TRUE], [min |-> FALSE, rfc2988_ |-> TRUE],
               [min |-> FALSE, rfc2988_ |-> FALSE]}

MCInit ==
    /\ Init /\ TimerInit
    /\ \/ part = "window" /\ variant = [min |-> TRUE, rfc2988_ |-> TRUE]
       \/ part = "timer" /\ agent = "min" /\ s = Connecting(CHOOSE k \in Messages : TRUE)

MCNext ==
    \/ part = "window" /\ Next /\ UNCHANGED <<part, timerVars>>
    \/ part = "timer" /\ TimerNext /\ UNCHANGED <<part, vars>>

MCSpec == MCInit /\ [][MCNext]_<<part, vars, timerVars>>

=============================================================================
