--------------------------------- MODULE AFQ ---------------------------------
(***************************************************************************)
(* Approximate fair queuing of the simulator                               *)
(* (ns2/fairqueuing/queue/FQ_AFQ): queues are rounds, a message may put    *)
(* BpR packets into each, and the current round R moves on when its queue  *)
(* is empty.  Each call of enque and deque is one step.                    *)
(***************************************************************************)
EXTENDS Integers, Sequences, SequencesExt, FiniteSets

CONSTANTS
    Flow, Message,
    NoMessage,   \* a flow the port has not seen
    NumQueues,   \* MAX_QUEUE_NUM, 8
    BpR,         \* 100 packets
    LastRound,   \* 15
    Limit,       \* qlim_ * mean_pktsize_, in packets of one size
    MarkAbove,   \* thresh_ * mean_pktsize_, the same
    MaxCount     \* flow_count is cut off here, beyond the last round

\* Assumed of the constants where the port is checked.
AFQAssumption ==
    /\ NoMessage \notin Message
    /\ NumQueues \in Nat /\ NumQueues > 1
    /\ BpR \in Nat \ {0}
    /\ LastRound = 2 * NumQueues - 1
    /\ MaxCount \in Nat /\ MaxCount >= (LastRound + 1) * BpR

VARIABLES
    q,           \* q_: packets of each queue
    R,           \* the current round
    message_id,  \* last message of each flow
    flow_count   \* packets of the flow in that message

vars == <<q, R, message_id, flow_count>>

Queues == 0 .. NumQueues - 1

Init ==
    /\ q = [i \in Queues |-> <<>>]
    /\ R = 0
    /\ message_id = [f \in Flow |-> NoMessage]
    /\ flow_count = [f \in Flow |-> 0]

TotalLength == FoldLeft(LAMBDA n, i : n + Len(q[i - 1]), 0, [i \in 1 .. NumQueues |-> i])

\* Packets of the flow in message m so far.
Count(f, m) == IF message_id[f] = m THEN flow_count[f] ELSE 0

\* The absolute number of the next packet's slot (enque adds one, so the first
\* round of a message has one slot less).
Bid(count) == count + R * BpR + 1

RoundOf(bid) == bid \div BpR

QueueFor(round) ==
    IF round > LastRound THEN (R + NumQueues - 1) % NumQueues ELSE round % NumQueues

\* count and near are history: the packets of the message before this one, and
\* whether it was put less than a turn of the queues ahead and its flow is still
\* sending the message.
Enque(f, m) ==
    LET count == Count(f, m)
        round == RoundOf(Bid(count))
        near == round - R < NumQueues
        p == [flow |-> f, ce |-> TotalLength + 1 > MarkAbove,
              near |-> near, count |-> IF near THEN count ELSE 0]
        Age(r) == IF r.flow = f /\ message_id[f] # m
                  THEN [r EXCEPT !.near = FALSE, !.count = 0] ELSE r
    IN  /\ TotalLength + 1 <= Limit
        /\ q' = [i \in Queues |->
                    LET s == [k \in DOMAIN q[i] |-> Age(q[i][k])]
                    IN  IF i = QueueFor(round) THEN Append(s, p) ELSE s]
        /\ flow_count' = [flow_count EXCEPT ![f] = IF count < MaxCount THEN count + 1 ELSE count]
        /\ message_id' = [message_id EXCEPT ![f] = m]
        /\ UNCHANGED R

\* Mutant of Current: the round moves on after each packet.
CurrentAlways ==
    CHOOSE r \in Queues :
        \E k \in 1 .. NumQueues :
            /\ r = (R + k) % NumQueues /\ q[r] # <<>>
            /\ \A j \in 1 .. k - 1 : q[(R + j) % NumQueues] = <<>>

\* The first round from R on that has packets: the loop moves on from empty ones.
Current ==
    CHOOSE r \in Queues :
        \E k \in Queues :
            /\ r = (R + k) % NumQueues /\ q[r] # <<>>
            /\ \A j \in 0 .. k - 1 : q[(R + j) % NumQueues] = <<>>

Deque ==
    /\ TotalLength > 0
    /\ R' = Current
    /\ q' = [q EXCEPT ![Current] = Tail(@)]
    /\ UNCHANGED <<message_id, flow_count>>

Next == Deque \/ \E f \in Flow, m \in Message : Enque(f, m)

Spec == Init /\ [][Next]_vars

------------------------------------------------------------------------------
(* Properties                                                              *)

Packet == [flow : Flow, ce : BOOLEAN, near : BOOLEAN, count : 0 .. NumQueues * BpR]

\* The shape of the state.
TypeOK ==
    /\ q \in [Queues -> Seq(Packet)]
    /\ R \in Queues
    /\ message_id \in [Flow -> Message \cup {NoMessage}]
    /\ flow_count \in [Flow -> 0 .. MaxCount]

NearPackets(f, i) == {k \in DOMAIN q[i] : q[i][k].flow = f /\ q[i][k].near}

\* rounds until queue i is served
Distance(i) == (i - R) % NumQueues

\* Rounds keep the order of a message (FQ_AFQ.cc:56-63), however often R has gone
\* around, as long as the message is less than a turn of the queues ahead of R.
NearInOrder ==
    \A f \in Flow, i, j \in Queues :
        \A k \in NearPackets(f, i), l \in NearPackets(f, j) :
            q[i][k].count < q[j][l].count =>
                Distance(i) < Distance(j) \/ (i = j /\ k < l)

\* The fair share (FQ_AFQ.cc:56-60): no message has more than BpR packets in one
\* round, even if R moves on between them.
RoundShare == \A f \in Flow, i \in Queues : Cardinality(NearPackets(f, i)) <= BpR
=============================================================================
