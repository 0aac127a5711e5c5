------------------------------- MODULE FairQC -------------------------------
(***************************************************************************)
(* The fair-queuing port of the simulator (ns2/fairqueuing/queue/FQ_QC).   *)
(* A packet's queue depends on how many packets its flow has sent in the   *)
(* current message; the queues are served round by round, each for as many *)
(* packets as it held flows when the round began.  ns-2 is single-threaded *)
(* and calls enque and deque in any order, so each is one step.            *)
(*                                                                         *)
(* pkt_sum is never assigned after the constructor: every average in enque *)
(* is 0 / pkt_num = 0, whatever pkt_num holds.  Neither they nor           *)
(* count_flow_in, which only serves to update itself, are kept here.       *)
(***************************************************************************)
EXTENDS Integers, Sequences, FiniteSets, SequencesExt

CONSTANTS
    Flow,       \* flow identifiers
    Message,    \* message_start of a packet; compared with the last one only
    NoMessage,  \* a flow the port has not seen
    NumQueues,  \* queue_num_ after clamping: 1 .. 8
    Sizes,      \* packet sizes in bytes
    Limit,      \* qlim_ * mean_pktsize_
    MarkAbove,  \* thresh_ * mean_pktsize_
    MaxCount    \* flow_count is cut off here, above the last threshold

ASSUME FairAssumption ==
    /\ NumQueues \in Nat /\ NumQueues > 0
    /\ NoMessage \notin Message
    /\ Sizes \subseteq Nat \ {0}
    /\ MaxCount \in Nat /\ MaxCount > NumQueues + 1

VARIABLES
    q,             \* q_: packets of each queue
    message_id,    \* last message of each flow
    flow_count,    \* packets of the flow in that message
    current_flow,  \* packets of each flow in each queue; 0 for no entry
    rr_times       \* packets each queue may still send in this round

vars == <<q, message_id, flow_count, current_flow, rr_times>>

Queues == 0 .. NumQueues - 1

Init ==
    /\ q            = [i \in Queues |-> <<>>]
    /\ message_id   = [f \in Flow |-> NoMessage]
    /\ flow_count   = [f \in Flow |-> 0]
    /\ current_flow = [i \in Queues |-> [f \in Flow |-> 0]]
    /\ rr_times     = [i \in Queues |-> 0]

ByteLength(s) == FoldLeft(LAMBDA n, p : n + p.size, 0, s)
TotalByteLength == FoldLeft(LAMBDA n, i : n + ByteLength(q[i - 1]), 0,
                            [i \in 1 .. NumQueues |-> i])

\* thre1 and thre2 are both 1: the square root of their product is exact.
Qthres[i \in 0 .. NumQueues - 2] == 1 + (IF i > 0 THEN Qthres[i - 1] ELSE 0)

QueueFor(p_num) ==
    CHOOSE i \in Queues :
        /\ i = NumQueues - 1 \/ p_num <= Qthres[i] + 1
        /\ \A j \in 0 .. i - 1 : p_num > Qthres[j] + 1

\* Packets of the flow in message m so far.  With a single queue nothing is
\* counted and every flow stays unknown.
Count(f, m) == IF message_id[f] = m THEN flow_count[f] ELSE 0

\* A packet beyond the limit is dropped and changes nothing.
Enque(f, m, size, ect) ==
    LET i == QueueFor(Count(f, m))
        total == TotalByteLength + size
        p == [flow |-> f, size |-> size, ce |-> ect /\ total > MarkAbove]
    IN  /\ total <= Limit
        /\ q' = [q EXCEPT ![i] = Append(@, p)]
        /\ current_flow' = [current_flow EXCEPT ![i][f] = @ + 1]
        /\ IF NumQueues > 1
           THEN /\ flow_count' = [flow_count EXCEPT ![f] =
                       IF Count(f, m) < MaxCount THEN Count(f, m) + 1 ELSE MaxCount]
                /\ message_id' = [message_id EXCEPT ![f] = m]
           ELSE UNCHANGED <<flow_count, message_id>>
        /\ UNCHANGED rr_times

\* current_flow[i].size()
FlowsIn(i) == Cardinality({f \in Flow : current_flow[i][f] > 0})

\* Mutant of Round: the next round begins as soon as the first queue is done.
RoundEarly ==
    IF rr_times[0] # 0 THEN rr_times ELSE [i \in Queues |-> FlowsIn(i)]

\* The allowances in force: when all are used up, a new round begins.
Round ==
    IF \E i \in Queues : rr_times[i] # 0 THEN rr_times
    ELSE [i \in Queues |-> FlowsIn(i)]

Serves(i) ==
    /\ Round[i] # 0
    /\ \A j \in 0 .. i - 1 : Round[j] = 0

\* Mutant of Deque: an entry of current_flow is never counted down.
DequeKeepsFlow(i) ==
    /\ TotalByteLength > 0
    /\ Serves(i)
    /\ rr_times' = [Round EXCEPT ![i] = @ - 1]
    /\ q' = [q EXCEPT ![i] = Tail(@)]
    /\ UNCHANGED <<current_flow, message_id, flow_count>>

Deque(i) ==
    /\ TotalByteLength > 0
    /\ Serves(i)
    /\ rr_times' = [Round EXCEPT ![i] = @ - 1]
    /\ q' = [q EXCEPT ![i] = Tail(@)]
    /\ current_flow' = [current_flow EXCEPT ![i][Head(q[i]).flow] = @ - 1]
    /\ UNCHANGED <<message_id, flow_count>>

Arrive == \E f \in Flow, m \in Message, size \in Sizes, ect \in BOOLEAN :
              Enque(f, m, size, ect)
Depart == \E i \in Queues : Deque(i)

Next == Arrive \/ Depart

Spec == Init /\ [][Next]_vars

------------------------------------------------------------------------------
(* Properties                                                              *)

Packet == [flow : Flow, size : Sizes, ce : BOOLEAN]

\* The shape of the state.
TypeOK ==
    /\ q \in [Queues -> Seq(Packet)]
    /\ message_id \in [Flow -> Message \cup {NoMessage}]
    /\ flow_count \in [Flow -> 0 .. MaxCount]
    /\ current_flow \in [Queues -> [Flow -> Nat]]
    /\ rr_times \in [Queues -> Nat]

PacketsOf(f, i) == {k \in DOMAIN q[i] : q[i][k].flow = f}

\* The flow table of a queue (FQ_QC.cc:91-95, 148-152) says how many packets of
\* each flow the queue holds, so that its size is the number of flows in it.
FlowsAreContents ==
    \A i \in Queues, f \in Flow :
        current_flow[i][f] = Cardinality(PacketsOf(f, i))

\* deque dereferences what the chosen queue returns without a test
\* (FQ_QC.cc:144-147): the allowance of a round, fixed when it began, must
\* never ask a queue for more packets than it holds.
RoundFits == \A i \in Queues : rr_times[i] <= Len(q[i])

\* deque returns a packet whenever the port holds one (FQ_QC.cc:123-143): after
\* a refill some queue has an allowance.
WorkConserving ==
    TotalByteLength > 0 => \E i \in Queues : Serves(i)
=============================================================================
