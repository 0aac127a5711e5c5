------------------------------ MODULE CMSketch ------------------------------
(***************************************************************************)
(* The count-min sketch by which the simulator's approximate port          *)
(* (ns2/srpt_las_ddl/queue) learns how much a flow has sent: Init counts   *)
(* a full packet of a flow in every position the flow hashes to, and first *)
(* clears a position that has been idle; Query_count takes the least.  All *)
(* hash functions share one array, so a position may be hit by several     *)
(* flows and several times by one flow.                                    *)
(***************************************************************************)
EXTENDS Integers, FiniteSets, FiniteSetsExt

CONSTANTS
    Flow,
    Position,      \* 0 .. LENGTH - 1
    HashNum,       \* HASH_NUM, 4
    Hash,          \* Hash[f][i]: where hash function i sends flow f
    Interval,      \* interval_
    Mss,           \* 1460
    CounterSpace,  \* a counter is a uint: 2^32
    QueryMax,      \* 0x7fffffff
    MaxTime,       \* bounds the clock
    MaxPackets     \* bounds the packets; too few for a counter to overflow

HashIndex == 0 .. HashNum - 1

ASSUME SketchAssumption ==
    /\ HashNum \in Nat /\ HashNum > 0
    /\ Hash \in [Flow -> [HashIndex -> Position]]
    /\ Interval \in Nat
    /\ Mss \in Nat /\ Mss > 0
    /\ CounterSpace \in Nat /\ QueryMax \in Nat /\ QueryMax < CounterSpace
    /\ MaxTime \in Nat
    /\ MaxPackets \in Nat /\ MaxPackets * (HashNum * Mss) <= QueryMax

VARIABLES
    now,        \* clock of the simulator
    counter,    \* bytes counted in each position
    arrive,     \* when a packet was last counted there; -1: never
    packets,    \* packets counted so far
    sent,       \* history: bytes of each flow since its last idle interval
    last        \* history: when each flow last sent

vars == <<now, counter, arrive, packets, sent, last>>

TableInit ==
    /\ counter = [p \in Position |-> 0]
    /\ arrive  = [p \in Position |-> -1]

Init ==
    /\ now = 0
    /\ TableInit
    /\ packets = 0
    /\ sent = [f \in Flow |-> 0]
    /\ last = [f \in Flow |-> -1]

Hits(f, p) == Cardinality({i \in HashIndex : Hash[f][i] = p})

Idle(since) == now - since > Interval

\* Mutant of CountFlow: the arrival time of a busy position is not renewed.
CountFlowOld(f) ==
    /\ counter' = [p \in Position |->
           IF Hits(f, p) = 0 THEN counter[p]
           ELSE ((IF Idle(arrive[p]) THEN 0 ELSE counter[p]) + Hits(f, p) * Mss)
                % CounterSpace]
    /\ arrive' = [p \in Position |->
           IF Hits(f, p) > 0 /\ Idle(arrive[p]) THEN now ELSE arrive[p]]

\* Mutant of CountFlow: an idle position is not cleared.
CountFlowKeep(f) ==
    /\ counter' = [p \in Position |-> (counter[p] + Hits(f, p) * Mss) % CounterSpace]
    /\ arrive'  = [p \in Position |-> IF Hits(f, p) > 0 THEN now ELSE arrive[p]]

\* CM_Sketch::Init.  A position hit several times in the loop is tested when it
\* is hit first: then its arrival time is now.
CountFlow(f) ==
    /\ counter' = [p \in Position |->
           IF Hits(f, p) = 0 THEN counter[p]
           ELSE ((IF Idle(arrive[p]) THEN 0 ELSE counter[p]) + Hits(f, p) * Mss)
                % CounterSpace]
    /\ arrive' = [p \in Position |-> IF Hits(f, p) > 0 THEN now ELSE arrive[p]]

Query_count(f) == Min({QueryMax} \cup {counter[Hash[f][i]] : i \in HashIndex})

\* A full TCP packet of flow f arrives at the port.
Arrive(f) ==
    /\ packets < MaxPackets
    /\ packets' = packets + 1
    /\ CountFlow(f)
    /\ sent' = [sent EXCEPT ![f] = IF Idle(last[f]) THEN Mss ELSE @ + Mss]
    /\ last' = [last EXCEPT ![f] = now]
    /\ UNCHANGED now

Tick ==
    /\ now < MaxTime
    /\ now' = now + 1
    /\ UNCHANGED <<counter, arrive, packets, sent, last>>

Next == Tick \/ \E f \in Flow : Arrive(f)

Spec == Init /\ [][Next]_vars

------------------------------------------------------------------------------
(* Properties                                                              *)

\* The shape of the state; no position was hit after now.
TypeOK ==
    /\ now \in 0 .. MaxTime
    /\ counter \in [Position -> 0 .. CounterSpace - 1]
    /\ arrive \in [Position -> -1 .. MaxTime]
    /\ \A p \in Position : arrive[p] <= now
    /\ packets \in 0 .. MaxPackets
    /\ sent \in [Flow -> Nat]
    /\ last \in [Flow -> -1 .. MaxTime]

\* The port never takes a flow for shorter than it is (cm_sketch.h:21-44):
\* however other flows clear and refresh the shared positions, the estimate of a
\* flow that is not idle (as when the port asks, right after counting its packet)
\* is at least what the flow has sent since it was last idle for an interval.
NeverUnderestimates ==
    \A f \in Flow : ~Idle(last[f]) => sent[f] <= Query_count(f)

\* position p is hit once by f and by no other flow
Exclusive(f, p) ==
    /\ Hits(f, p) = 1
    /\ \A g \in Flow \ {f} : Hits(g, p) = 0

\* A flow with one position of its own is known exactly, and after an idle
\* interval it is a new flow again (cm_sketch.h:25-31, 36-44).
ExactWhenAlone ==
    \A f \in Flow :
        ~Idle(last[f]) /\ (\E p \in Position : Exclusive(f, p))
            => Query_count(f) = sent[f]
=============================================================================
