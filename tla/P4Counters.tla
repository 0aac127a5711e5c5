----------------------------- MODULE P4Counters -----------------------------
(***************************************************************************)
(* One queue's packet and weight registers of the switch (p4/qcluster.p4)  *)
(* and the control plane that reads them (p4/qcluster.py).  Packets keep   *)
(* passing while the control plane reads one register after the other; it  *)
(* adds the difference to the last reading to counters that it ages.       *)
(*                                                                         *)
(* Queues are independent of each other here, and a port lies in one pipe, *)
(* so that the sum over the pipes is the one register.                     *)
(***************************************************************************)
EXTENDS Integers

CONSTANTS
    Half,        \* 2^31: carry of the weight register, added to a difference
    Weights,     \* values of md.minCount, below 2^20
    MaxWeight,   \* the largest of them
    Aging,       \* counters above it are halved: 256
    InitPkt,     \* initial pkt_counters, 10
    InitWeight,  \* initial weight_counters, at most 10 * 802
    MaxHi        \* bounds the carries; far below 2^32 in practice

PktSpace == 2 * Half

ASSUME CounterAssumption ==
    /\ Half \in Nat /\ Half > 1
    /\ MaxWeight \in Nat /\ MaxWeight < Half
    /\ Weights \subseteq 0 .. MaxWeight
    /\ Aging \in Nat
    /\ InitPkt \in Nat /\ InitWeight \in Nat /\ InitWeight <= MaxWeight * InitPkt
    /\ MaxHi \in Nat

VARIABLES
    pkt,                            \* register pkt, 32 bits
    register_hi, register_lo,       \* register weight
    pc,                             \* what the control plane does next
    pkt_tmp, weight_tmp,            \* this reading
    pkt_rec, weight_rec,            \* the last reading
    pkt_counters, weight_counters,  \* sums of differences, aged
    unread, unreadW,  \* history: packets, weight since the register was read
    seen, seenW,      \* history: the same when it was read last
    ahead,            \* history: packets counted between the two readings
    lag               \* history: the same in the loop before

registers == <<pkt, register_hi, register_lo>>
reading   == <<pkt_tmp, weight_tmp>>
record    == <<pkt_rec, weight_rec>>
counters  == <<pkt_counters, weight_counters>>
ghosts    == <<unread, unreadW, seen, seenW, ahead, lag>>
countersVars == <<registers, pc, reading, record, counters, ghosts>>

\* set_qcluster_threholds writes zeros to the registers before it begins.
CountersInit ==
    /\ pkt = 0 /\ register_hi = 0 /\ register_lo = 0
    /\ pc = "age"
    /\ pkt_tmp = 0 /\ weight_tmp = 0
    /\ pkt_rec = 0 /\ weight_rec = 0
    /\ pkt_counters = InitPkt /\ weight_counters = InitWeight
    /\ unread = 0 /\ unreadW = 0 /\ seen = 0 /\ seenW = 0
    /\ ahead = 0 /\ lag = 0

------------------------------------------------------------------------------
(* The data plane                                                          *)

\* Mutant of WeightAlu: the carry keeps the low word.
WeightAluKeep(m) ==
    LET carry == register_lo + m > Half - 1
    IN  /\ register_lo' = IF carry THEN register_lo ELSE register_lo + m
        /\ register_hi' = IF carry THEN register_hi + 1 ELSE register_hi

\* The stateful ALU of the weight register.
WeightAlu(m) ==
    LET carry == register_lo + m > Half - 1
    IN  /\ register_lo' = IF carry THEN 0 ELSE register_lo + m
        /\ register_hi' = IF carry THEN register_hi + 1 ELSE register_hi

\* A packet of weight m is counted.  Fewer than Half packets pass between two
\* readings.
Packet(m) ==
    /\ unread < Half - 1
    /\ register_lo + m > Half - 1 => register_hi < MaxHi
    /\ WeightAlu(m)
    /\ pkt' = (pkt + 1) % PktSpace
    /\ unread' = unread + 1
    /\ unreadW' = unreadW + m
    /\ UNCHANGED <<pc, reading, record, counters, seen, seenW, ahead, lag>>

------------------------------------------------------------------------------
(* The control plane: one loop of set_qcluster_threholds                   *)

\* Mutant of Age: only the packets are halved.
AgePackets ==
    /\ pc = "age"
    /\ pc' = "packets"
    /\ pkt_counters' = IF pkt_counters > Aging THEN pkt_counters \div 2 ELSE pkt_counters
    /\ UNCHANGED <<registers, reading, record, weight_counters, ghosts>>

\* set_aging(1) makes every loop age.
Age ==
    /\ pc = "age"
    /\ pc' = "packets"
    /\ IF pkt_counters > Aging
       THEN /\ pkt_counters' = pkt_counters \div 2
            /\ weight_counters' = weight_counters \div 2
       ELSE UNCHANGED counters
    /\ UNCHANGED <<registers, reading, record, ghosts>>

\* register_read_pkt returns a signed 32-bit integer.
Signed(x) == IF x >= Half THEN x - PktSpace ELSE x

ReadPkt ==
    /\ pc = "packets"
    /\ pc' = "weights"
    /\ pkt_tmp' = Signed(pkt)
    /\ seen' = unread
    /\ unread' = 0
    /\ UNCHANGED <<registers, weight_tmp, record, counters, unreadW, seenW, ahead, lag>>

\* (e.f0 << 31) + signToUnsign(e.f1); the low word is never negative.
ReadWeight ==
    /\ pc = "weights"
    /\ pc' = "account"
    /\ weight_tmp' = register_hi * Half + register_lo
    /\ seenW' = unreadW
    /\ unreadW' = 0
    /\ ahead' = unread
    /\ UNCHANGED <<registers, pkt_tmp, record, counters, unread, seen, lag>>

\* Mutant of Difference: a negative difference is taken for an empty interval.
DifferenceZero(new, old) == IF new - old < 0 THEN 0 ELSE new - old

\* Half is added while the difference is negative.
Difference(new, old) == IF new - old < 0 THEN (new - old) % Half ELSE new - old

pkt_diff    == Difference(pkt_tmp, pkt_rec)
weight_diff == Difference(weight_tmp, weight_rec)

\* The differences are added; the readings become the last ones.
AddReadings ==
    /\ pc = "account"
    /\ pc' = "age"
    /\ pkt_counters' = pkt_counters + pkt_diff
    /\ weight_counters' = weight_counters + weight_diff
    /\ pkt_rec' = pkt_tmp
    /\ weight_rec' = weight_tmp
    /\ seen' = 0 /\ seenW' = 0
    /\ ahead' = 0 /\ lag' = ahead
    /\ UNCHANGED <<registers, reading, unread, unreadW>>

Control == Age \/ ReadPkt \/ ReadWeight \/ AddReadings

CountersNext == Control \/ \E m \in Weights : Packet(m)

CountersSpec == CountersInit /\ [][CountersNext]_countersVars

------------------------------------------------------------------------------
(* Properties                                                              *)

\* The shape of the state.
CountersTypeOK ==
    /\ pkt \in 0 .. PktSpace - 1
    /\ register_hi \in 0 .. MaxHi /\ register_lo \in 0 .. Half - 1
    /\ pc \in {"age", "packets", "weights", "account"}
    /\ pkt_tmp \in -Half .. Half - 1 /\ pkt_rec \in -Half .. Half - 1
    /\ weight_tmp \in Nat /\ weight_rec \in Nat
    /\ pkt_counters \in Nat /\ weight_counters \in Nat
    /\ unread \in 0 .. Half - 1 /\ seen \in 0 .. Half - 1
    /\ unreadW \in Nat /\ seenW \in Nat /\ ahead \in Nat /\ lag \in Nat

\* Across the wrap of the 32-bit register, which the control plane sees as a
\* signed number and corrects by 2^31 at a time, the difference is the number
\* of packets that passed between the readings (qcluster.py:178-206).
PacketsExact == pc = "account" => pkt_diff = seen

\* The weight register drops what does not fit below a carry
\* (qcluster.p4:257-265): a difference of readings never exceeds the weight that
\* passed, and misses at most one packet's weight for each carry.
WeightClose ==
    pc = "account" =>
        /\ weight_diff <= seenW
        /\ seenW <= weight_diff
                    + MaxWeight * ((weight_tmp \div Half) - (weight_rec \div Half))

\* The two registers are read at different moments and aged with rounding
\* (qcluster.py:166-183): the average exceeds the heaviest weight by no more than
\* the packets between the readings of one loop account for, however often both
\* have been halved.
AverageBounded ==
    weight_counters <= MaxWeight * (pkt_counters + lag + 1)
=============================================================================
