---------------------------- MODULE AdaptivePort ----------------------------
(***************************************************************************)
(* The strict-priority ports of the simulator (ns2/srpt_las_ddl/queue):    *)
(* Priority takes the class from the packet; Known (SRPT, deadlines),      *)
(* Unknown (LAS) and Appro_Unknown (LAS by a sketch) find it by thresholds *)
(* between the average values of neighbouring classes, and learn from the  *)
(* packets they classify.  ns-2 is single-threaded and calls enque and     *)
(* deque in any order, so each is one step.                                *)
(*                                                                         *)
(* Sums, numbers of packets, averages and thresholds have a fraction: they *)
(* are counted in units, Unit to one, and rounded down to a unit.          *)
(***************************************************************************)
EXTENDS Integers, Sequences, SequencesExt, FiniteSets

CONSTANTS
    Kind,         \* the ports: "priority", "known", "unknown", "appro"
    Flow, Message,
    NoMessage,    \* a flow the port has not seen
    NumQueues,    \* queue_num_ after clamping: 1 .. 8
    Header,       \* 40
    Full,         \* 1460, payload of a full packet
    Payloads,     \* payloads of packets
    Prios,        \* values of iph->prio()
    Estimates,    \* what the sketch may answer for a full packet
    Limit,        \* qlim_ * mean_pktsize_
    MarkAbove,    \* thresh_ * mean_pktsize_; marking is per port
    Jump,         \* 2^25, between thresholds of classes without packets
    Step,         \* 1460, between thresholds that would not rise
    Aging,        \* 128 packets
    Second,       \* between two ageings
    Unit,
    MaxArrivals   \* bounds the packets

ASSUME PortAssumption ==
    /\ Kind \subseteq {"priority", "known", "unknown", "appro"}
    /\ NoMessage \notin Message
    /\ NumQueues \in Nat \ {0}
    /\ Header \in Nat \ {0} /\ Full \in Nat \ {0}
    /\ Payloads \subseteq Nat /\ Prios \subseteq Nat
    /\ Estimates \subseteq {e \in Nat : e >= Full}
    /\ Jump \in Nat \ {0} /\ Step \in Nat \ {0}
    /\ Aging \in Nat /\ Aging > 1 /\ Second \in Nat /\ Unit \in Nat \ {0}
    /\ MaxArrivals \in Nat

VARIABLES
    kind,         \* which port this is
    q,            \* q_: packets of each class
    counting,     \* info[i].counting, in units
    distinct,     \* info[i].distinct, in units
    since,        \* time since last_update; all times above Second act alike
    last_time,    \* Unknown: last message of each flow
    count_item,   \* Unknown: bytes of the flow in that message
    n,            \* packets that have come in
    attained      \* history: bytes in full packets of each message of each flow

info == <<counting, distinct, since>>
vars == <<kind, q, info, last_time, count_item, n, attained>>

Classes == 0 .. NumQueues - 1

Init ==
    /\ kind \in Kind
    /\ q = [i \in Classes |-> <<>>]
    /\ counting = [i \in Classes |-> 0] /\ distinct = [i \in Classes |-> 0]
    /\ since = 0
    /\ last_time = [f \in Flow |-> NoMessage]
    /\ count_item = [f \in Flow |-> 0]
    /\ n = 0
    /\ attained = [f \in Flow |-> [m \in Message |-> 0]]

------------------------------------------------------------------------------
(* Thresholds                                                              *)

\* Info::average
Average(i) == IF distinct[i] < Unit THEN 0 ELSE (counting[i] * Unit) \div distinct[i]

Larger(a, b) == IF a > b THEN a ELSE b

Root(x) == CHOOSE r \in 0 .. x : r * r <= x /\ x < (r + 1) * (r + 1)

\* The threshold above class i when class i has packets, before it is made to rise.
Between(i) == Larger(Average(i), Root(Average(i) * Average(i + 1)))

\* Mutant of Threshold: thresholds are left as they come out.
ThresholdAsIs(i, below) ==
    IF distinct[i] < Unit THEN below + Jump * Unit ELSE Between(i)

Threshold(i, below) ==
    IF distinct[i] < Unit THEN below + Jump * Unit
    ELSE IF i > 0 /\ Between(i) <= below THEN below + Step * Unit ELSE Between(i)

\* thresholds, in units; the last class has none.
thresholds[i \in 0 .. NumQueues - 2] ==
    Threshold(i, IF i = 0 THEN 0 ELSE thresholds[i - 1])

ClassOf(value) ==
    CHOOSE i \in Classes :
        /\ i = NumQueues - 1 \/ value * Unit <= thresholds[i] + Unit
        /\ \A j \in 0 .. i - 1 : value * Unit > thresholds[j] + Unit

------------------------------------------------------------------------------
(* enque                                                                   *)

ByteLength(s) == FoldLeft(LAMBDA b, p : b + p.size, 0, s)
TotalByteLength == FoldLeft(LAMBDA b, i : b + ByteLength(q[i - 1]), 0,
                            [i \in 1 .. NumQueues |-> i])

\* A packet that does not fit is dropped and changes nothing.
Fits(size) == TotalByteLength + size <= Limit

Put(i, size) ==
    /\ n < MaxArrivals
    /\ Fits(size)
    /\ n' = n + 1
    /\ q' = [q EXCEPT ![i] =
                Append(@, [n |-> n + 1, size |-> size,
                           ce |-> TotalByteLength + size > MarkAbove])]

\* Mutant of Learn: every class is halved, however few packets it has.
LearnHalvesAll(i, value) ==
    LET c == [counting EXCEPT ![i] = @ + value * Unit]
        d == [distinct EXCEPT ![i] = @ + Unit]
    IN  IF since > Second
        THEN /\ counting' = [j \in Classes |-> c[j] \div 2]
             /\ distinct' = [j \in Classes |-> d[j] \div 2]
             /\ since' = 0
        ELSE counting' = c /\ distinct' = d /\ UNCHANGED since

\* A packet of the given value was put into class i; once in a while the
\* classes age (Update).
Learn(i, value) ==
    LET c == [counting EXCEPT ![i] = @ + value * Unit]
        d == [distinct EXCEPT ![i] = @ + Unit]
        Old(j) == d[j] > Aging * Unit
    IN  IF since > Second
        THEN /\ counting' = [j \in Classes |-> IF Old(j) THEN c[j] \div 2 ELSE c[j]]
             /\ distinct' = [j \in Classes |-> IF Old(j) THEN d[j] \div 2 ELSE d[j]]
             /\ since' = 0
        ELSE counting' = c /\ distinct' = d /\ UNCHANGED since

EnquePriority(payload, prio) ==
    /\ kind = "priority"
    /\ Put(IF prio >= NumQueues THEN NumQueues - 1 ELSE prio, Header + payload)
    /\ UNCHANGED <<kind, info, last_time, count_item, attained>>

\* No TCP data: acknowledgements, and for Known packets without a priority.
EnqueOther(payload) ==
    /\ kind # "priority"
    /\ Put(0, Header + payload)
    /\ UNCHANGED <<kind, info, last_time, count_item, attained>>

EnqueKnown(payload, prio) ==
    /\ kind = "known" /\ prio > 0
    /\ Put(ClassOf(prio), Header + payload)
    /\ Learn(ClassOf(prio), prio)
    /\ UNCHANGED <<kind, last_time, count_item, attained>>

\* Mutant of CountBefore: a new message does not start from nothing.
CountBeforeAny(f, m) == count_item[f]

\* The flow's bytes before this packet of message m.
CountBefore(f, m) == IF last_time[f] = m THEN count_item[f] ELSE 0

\* Only full packets are counted; a smaller one has its own size for a value.
EnqueUnknown(f, m, payload) ==
    LET full  == payload >= Full
        count == CountBefore(f, m) + (IF full THEN payload ELSE 0)
        value == IF full THEN count ELSE payload
    IN  /\ kind = "unknown" /\ payload > 0
        /\ Put(ClassOf(value), Header + payload)
        /\ Learn(ClassOf(value), value)
        /\ count_item' = [count_item EXCEPT ![f] = count]
        /\ last_time' = [last_time EXCEPT ![f] = m]
        /\ attained' = [attained EXCEPT ![f][m] = @ + (IF full THEN payload ELSE 0)]
        /\ UNCHANGED kind

\* What the sketch answers for a full packet is the subject of CMSketch.
EnqueAppro(payload) ==
    /\ kind = "appro" /\ payload > 0
    /\ \E value \in IF payload >= Full THEN Estimates ELSE {payload} :
          /\ Put(ClassOf(value), Header + payload)
          /\ Learn(ClassOf(value), value)
    /\ UNCHANGED <<kind, last_time, count_item, attained>>

------------------------------------------------------------------------------
(* deque                                                                   *)

\* Mutant of Deque: the worst class first.
DequeLast(i) ==
    /\ q[i] # <<>> /\ \A j \in i + 1 .. NumQueues - 1 : q[j] = <<>>
    /\ q' = [q EXCEPT ![i] = Tail(@)]
    /\ UNCHANGED <<kind, info, last_time, count_item, n, attained>>

Deque(i) ==
    /\ q[i] # <<>> /\ \A j \in 0 .. i - 1 : q[j] = <<>>
    /\ q' = [q EXCEPT ![i] = Tail(@)]
    /\ UNCHANGED <<kind, info, last_time, count_item, n, attained>>

Tick ==
    /\ since <= Second
    /\ since' = since + 1
    /\ UNCHANGED <<kind, q, counting, distinct, last_time, count_item, n, attained>>

Arrive ==
    \E payload \in Payloads :
        \/ EnqueOther(payload)
        \/ \E prio \in Prios : EnquePriority(payload, prio) \/ EnqueKnown(payload, prio)
        \/ \E f \in Flow, m \in Message : EnqueUnknown(f, m, payload)
        \/ EnqueAppro(payload)

Depart == \E i \in Classes : Deque(i)

Next == Arrive \/ Depart \/ Tick

Spec == Init /\ [][Next]_vars

------------------------------------------------------------------------------
(* Properties                                                              *)

Packet == [n : 1 .. MaxArrivals, size : Nat, ce : BOOLEAN]

\* The shape of the state; no packet is counted more than once.
TypeOK ==
    /\ kind \in Kind
    /\ q \in [Classes -> Seq(Packet)]
    /\ counting \in [Classes -> Nat] /\ distinct \in [Classes -> 0 .. n * Unit]
    /\ since \in 0 .. Second + 1
    /\ last_time \in [Flow -> Message \cup {NoMessage}]
    /\ count_item \in [Flow -> Nat]
    /\ n \in 0 .. MaxArrivals
    /\ attained \in [Flow -> [Message -> Nat]]

Used(i) == distinct[i] >= Unit

\* Whatever the averages have come to, equal or inverted after ageing, no class is
\* unreachable: thresholds rise strictly (known.cc:55-67, unknown.cc:60-73), and
\* classes come into use one after the other (known.cc:56-61), one without packets
\* having so wide a range that no packet of a value up to Jump skips it.
ClassesReachable ==
    /\ \A i \in 1 .. NumQueues - 2 : thresholds[i - 1] < thresholds[i]
    /\ \A i \in Classes : Used(i) => \A j \in 0 .. i - 1 : Used(j)

\* Ageing never takes a class out of use again (known.h:85-100): its average does
\* not fall back to 0, nor its threshold leap.
UsedStaysUsed == [][\A i \in Classes : Used(i) => Used(i)']_vars

\* A flow is never taken for longer than its message is (unknown.cc:49-57), in
\* whatever order packets of two messages come.
NeverOverestimates ==
    \A f \in Flow :
        last_time[f] # NoMessage => count_item[f] <= attained[f][last_time[f]]

SP == INSTANCE StrictPriority WITH
    Number <- 1 .. MaxArrivals,
    Class <- Classes,
    waiting <- UNION {{[n |-> q[i][k].n, class |-> i] : k \in DOMAIN q[i]} : i \in Classes}

\* All four ports serve packets by strict priority, in the order of arrival within
\* a class, and lose none that they accepted.
ImplementsPriority == SP!Spec
=============================================================================
