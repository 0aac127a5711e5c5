------------------------------- MODULE P4Depth -------------------------------
(***************************************************************************)
(* The egress of the switch (p4/qcluster.p4): a register holds the depth   *)
(* each queue had when a packet of it came, another the sum of these, by   *)
(* which packets are marked.  The registers sit in different stages, and   *)
(* several packets are between the two at a time, in order.  --clear of    *)
(* p4/qcluster.py resets the depths under traffic.                         *)
(***************************************************************************)
EXTENDS Integers, Sequences, FiniteSets, FiniteSetsExt, SequencesExt

CONSTANTS
    queue_id,    \* 0 .. 7, of all ports
    Depths,      \* eg_intr_md.enq_qdepth
    WordSpace,   \* 2^32
    SumSpace,    \* md.enq_qdepth_sum has 20 bits
    EcnStart, EcnEnd,  \* the range of mark_ecn_table
    Stages,      \* packets between the two registers
    MaxLost      \* bounds the resets

ASSUME P4DepthAssumption ==
    /\ IsFiniteSet(queue_id)
    /\ Depths \subseteq Nat
    /\ WordSpace \in Nat \ {0} /\ SumSpace \in Nat \ {0} /\ WordSpace % SumSpace = 0
    /\ EcnStart \in Nat /\ EcnEnd \in Nat
    /\ Stages \in Nat /\ MaxLost \in Nat

VARIABLES
    qdepth_i,     \* the depth last seen of each queue
    qdepth_sum,
    stages,       \* packets that have passed the first register
    marked,       \* the packet that left last: its sum, and whether it is marked
    cleared       \* history: the depths that were reset

depthVars == <<qdepth_i, qdepth_sum, stages, marked, cleared>>

DepthTotal == MapThenSumSet(LAMBDA q : qdepth_i[q], queue_id)

DepthInit ==
    /\ qdepth_i = [q \in queue_id |-> 0]
    /\ qdepth_sum = 0
    /\ stages = <<>>
    /\ marked = [sum |-> 0, total |-> 0, ecn |-> FALSE]
    /\ cleared = 0

\* Mutant of Delta: the register's new value comes out, not the old one.
DeltaNew(q, d) == 0

\* compute_qdepth_delta.
Delta(q, d) == (d - qdepth_i[q]) % WordSpace

\* A packet of queue q, which it found d deep, passes the first register; total is
\* history.
Egress(q, d) ==
    /\ Len(stages) < Stages
    /\ qdepth_i' = [qdepth_i EXCEPT ![q] = d]
    /\ stages' = Append(stages, [delta |-> Delta(q, d), total |-> DepthTotal' + cleared])
    /\ UNCHANGED <<qdepth_sum, marked, cleared>>

\* The first of them passes the second register and mark_ecn_table; ect: its ECN
\* field is 1 or 2.
Sum(ect) ==
    /\ stages # <<>>
    /\ qdepth_sum' = (qdepth_sum + Head(stages).delta) % WordSpace
    /\ LET enq_qdepth_sum == qdepth_sum' % SumSpace
       IN marked' = [sum |-> enq_qdepth_sum, total |-> Head(stages).total,
                     ecn |-> ect /\ enq_qdepth_sum \in EcnStart .. EcnEnd]
    /\ stages' = Tail(stages)
    /\ UNCHANGED <<qdepth_i, cleared>>

\* clear_all resets qdepth_i, and not qdepth_sum.
ClearDepths ==
    /\ cleared + DepthTotal <= MaxLost
    /\ cleared' = cleared + DepthTotal
    /\ qdepth_i' = [q \in queue_id |-> 0]
    /\ UNCHANGED <<qdepth_sum, stages, marked>>

DepthNext ==
    \/ \E q \in queue_id, d \in Depths : Egress(q, d)
    \/ \E ect \in BOOLEAN : Sum(ect)
    \/ ClearDepths

DepthSpec == DepthInit /\ [][DepthNext]_depthVars

------------------------------------------------------------------------------
(* Properties                                                              *)

\* With any number of packets between the stages and through resets
\* (qcluster.p4:280-350, qcluster.py:296-303): a packet is marked only by the depths
\* of all queues as the packets before it found them, and those that were reset,
\* which stay in the sum for good; what is under way is missing from the register
\* and nothing else.
SumIsDepths ==
    /\ marked.sum = marked.total % SumSpace
    /\ (qdepth_sum + FoldSeq(LAMBDA p, s : p.delta + s, 0, stages)) % WordSpace
         = (DepthTotal + cleared) % WordSpace
=============================================================================
