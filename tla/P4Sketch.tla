------------------------------ MODULE P4Sketch ------------------------------
(***************************************************************************)
(* The ingress of the switch up to the weight of a packet                  *)
(* (p4/qcluster.p4): three registers of time stamps and counters, one for  *)
(* each hash function, and the least of what a packet finds there.  Time   *)
(* stamps have 32 bits of a clock that goes on, a counter has 32 bits and  *)
(* the weight has 20.                                                      *)
(***************************************************************************)
EXTENDS Integers, FiniteSetsExt

CONSTANTS
    Stream,      \* what flow_id_list tells apart
    Cell,        \* 0 .. CM_LEN - 1
    cm_hash,     \* cm_hash[r][f]: the cell of f in register r
    INTERVAL,    \* 500000
    TstampSpace, \* 2^32
    WeightSpace, \* md.minCount has 20 bits
    totalLen,    \* lengths of packets that are not small
    MaxClock,    \* bounds the clock
    MaxPassed    \* bounds the packets; too few for a counter of 32 bits

Row == 1 .. 3

ASSUME P4SketchAssumption ==
    /\ cm_hash \in [Row -> [Stream -> Cell]]
    /\ INTERVAL \in Nat /\ TstampSpace \in Nat /\ INTERVAL < TstampSpace
    /\ WeightSpace \in Nat \ {0}
    /\ totalLen \subseteq Nat \ {0}
    /\ MaxClock \in Nat /\ MaxPassed \in Nat

VARIABLES
    clock,           \* ingress_global_tstamp, before it is cut to 32 bits
    tstamp_counter,  \* the registers: hi is the time, lo the count
    passed,          \* packets counted so far
    burst,           \* history: what a stream has sent since it was last idle
    latest,          \* history: when it last sent
    noticed          \* history: that idle time was not a wrap of the time stamp

sketchVars == <<clock, tstamp_counter, passed, burst, latest, noticed>>

tstamp == clock % TstampSpace

\* md.tstamp - register_hi > INTERVAL, in 32 bits.
Stale(hi) == (tstamp - hi) % TstampSpace > INTERVAL

\* Mutant of CmAlu: the time of a fresh cell stays.
CmAluKeep(c, len) ==
    IF Stale(c.hi) THEN [hi |-> tstamp, lo |-> 1] ELSE [c EXCEPT !.lo = @ + len]

\* The stateful ALU: a stale cell begins at 1, whatever the packet's length.
CmAlu(c, len) ==
    [hi |-> tstamp, lo |-> IF Stale(c.hi) THEN 1 ELSE c.lo + len]

count(f, r) == tstamp_counter[r][cm_hash[r][f]].lo

Lesser(a, b) == IF a < b THEN a ELSE b

\* getMinCount1, getMinCount2: both results are cut to 20 bits.
minCount(f) ==
    LET two == Lesser(count(f, 1), count(f, 2)) % WeightSpace
    IN Lesser(two, count(f, 3)) % WeightSpace

SketchInit ==
    /\ clock = 0 /\ passed = 0
    /\ tstamp_counter = [r \in Row |-> [c \in Cell |-> [hi |-> 0, lo |-> 0]]]
    /\ burst = [f \in Stream |-> 0]
    /\ latest = [f \in Stream |-> 0]
    /\ noticed = [f \in Stream |-> TRUE]

\* f has sent nothing for an interval.
Quiet(f) == clock - latest[f] > INTERVAL

\* A packet of f that is not small passes the ingress.
Ingress(f, len) ==
    /\ passed < MaxPassed
    /\ passed' = passed + 1
    /\ tstamp_counter' = [r \in Row |->
           [tstamp_counter[r] EXCEPT ![cm_hash[r][f]] = CmAlu(@, len)]]
    /\ burst' = [burst EXCEPT ![f] = IF Quiet(f) THEN 1 ELSE @ + len]
    /\ latest' = [latest EXCEPT ![f] = clock]
    /\ noticed' = [noticed EXCEPT ![f] =
           IF Quiet(f) THEN (clock - latest[f]) % TstampSpace > INTERVAL ELSE @]
    /\ UNCHANGED clock

ClockTick ==
    /\ clock < MaxClock
    /\ clock' = clock + 1
    /\ UNCHANGED <<tstamp_counter, passed, burst, latest, noticed>>

SketchNext == ClockTick \/ \E f \in Stream, len \in totalLen : Ingress(f, len)

SketchSpec == SketchInit /\ [][SketchNext]_sketchVars

------------------------------------------------------------------------------
(* Properties                                                              *)

Alone(f, r) == \A g \in Stream \ {f} : cm_hash[r][g] # cm_hash[r][f]

\* Across the wrap of the time stamp and under any collisions (qcluster.p4:93-208):
\* while no cell of a stream has counted past 20 bits, the weight of its packets
\* is no less than what it has sent since it was idle, its first packet taken for
\* one byte; and with a cell of its own it is exactly that, but for a stream that
\* comes back when the 32 bits have gone around.
WeightIsBurst ==
    \A f \in Stream :
        ~Quiet(f) /\ (\A r \in Row : count(f, r) < WeightSpace) =>
            /\ burst[f] <= minCount(f)
            /\ noticed[f] /\ (\E r \in Row : Alone(f, r)) => minCount(f) = burst[f]
=============================================================================
