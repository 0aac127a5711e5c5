------------------------------ MODULE RttTimer ------------------------------
(***************************************************************************)
(* The retransmission timer of a TCP agent (tcp/tcp.cc): the estimates of  *)
(* the round-trip time in fixed point, the backoff, and what the timer is  *)
(* set to.  Times count ticks.  MinTCP sets its timer to minrto_ always.   *)
(***************************************************************************)
EXTENDS Integers

CONSTANTS
    Variants,    \* agents: [min : MinTCP, rfc2988_ : BOOLEAN]
    Samples,     \* round-trip times, in ticks
    ShortHalf,        \* a difference is a short: 2^15
    MinRto, MaxRto,              \* minrto_, maxrto_
    RttvarInit, RtxcurInit,      \* rttvar_init_, rtxcur_init_; srtt_init_ is 0
    MaxBackoff   \* bound of t_backoff_, which MinTCP's has none

ASSUME RttTimerAssumption ==
    /\ Variants \subseteq [min : BOOLEAN, rfc2988_ : BOOLEAN]
    /\ Samples \subseteq Nat /\ ShortHalf \in Nat /\ ShortHalf >= 2 /\ MinRto \in Nat /\ MinRto >= 2
    /\ MaxRto \in Nat /\ MaxRto >= MinRto
    /\ RttvarInit \in Nat /\ RtxcurInit \in Nat \ {0} /\ MaxBackoff \in Nat

VARIABLES
    variant,  \* does not change
    rtt,      \* the estimates and the backoff
    timer,    \* what rtx_timer_ was set to, 0 when it is off
    last      \* history: the last sample, 0 before the first

timerVars == <<variant, rtt, timer, last>>

AtLeast(x, y) == IF x > y THEN x ELSE y
AtMost(x, y) == IF x < y THEN x ELSE y

------------------------------------------------------------------------------
(* The estimates                                                           *)

rtt_init == [t_srtt_ |-> 0, t_rttvar_ |-> 4 * RttvarInit, t_rtxcur_ |-> RtxcurInit,
             t_backoff_ |-> 1, ecn_backoff_ |-> FALSE]

rtt_timeout(v) ==
    IF variant.min THEN MinRto
    ELSE AtLeast(2, AtMost(MaxRto,
           IF variant.rfc2988_ THEN AtLeast(v.t_rtxcur_, MinRto) * v.t_backoff_
           ELSE AtLeast(v.t_rtxcur_ * v.t_backoff_, MinRto)))

\* A number as a short holds it: the low 16 bits with their sign.
Short(x) == ((x + ShortHalf) % (2 * ShortHalf)) - ShortHalf

Abs(d) == IF d < 0 THEN Short(-d) ELSE d

\* Mutant of Rtxcur: the deviation counts once, not four times.
RtxcurOnce(srtt, rttvar) == (2 * rttvar + srtt) \div 8

\* The timer's value: the smoothed time and four times the deviation.
Rtxcur(srtt, rttvar) == (8 * rttvar + srtt) \div 8

Estimates(v, srtt, rttvar) ==
    [v EXCEPT !.t_srtt_ = srtt, !.t_rttvar_ = rttvar, !.t_rtxcur_ = Rtxcur(srtt, rttvar)]

\* t_srtt_ counts eighths, t_rttvar_ quarters; neither falls to nothing.
rtt_update(v, sample) ==
    LET delta == Short(sample - v.t_srtt_ \div 8)
    IN IF v.t_srtt_ = 0 THEN Estimates(v, 8 * sample, 2 * sample)
       ELSE Estimates(v, AtLeast(v.t_srtt_ + delta, 1),
                      AtLeast(v.t_rttvar_ + Short(Abs(delta) - v.t_rttvar_ \div 4), 1))

\* Backed off this far, the smoothed time goes into the deviation.
rtt_backoff(v) ==
    LET b == [v EXCEPT !.t_backoff_ =
                IF @ < 64 \/ (variant.rfc2988_ /\ rtt_timeout(v) < MaxRto) THEN 2 * @ ELSE @]
    IN IF b.t_backoff_ > 8
       THEN [b EXCEPT !.t_rttvar_ = @ + v.t_srtt_ \div 8, !.t_srtt_ = 0] ELSE b

------------------------------------------------------------------------------
(* Actions                                                                 *)

TimerInit == variant \in Variants /\ rtt = rtt_init /\ timer = 0 /\ last = 0

\* A segment leaves and the timer is off.
SetTimer == timer = 0 /\ timer' = rtt_timeout(rtt) /\ UNCHANGED <<variant, rtt, last>>

\* newack ends the backoff, unless the window is one segment and echoes go on.
NotBackedOff(v, echo) ==
    IF v.ecn_backoff_ /\ echo THEN v ELSE [v EXCEPT !.t_backoff_ = 1, !.ecn_backoff_ = FALSE]

\* ecn with a window of one segment backs the timer off, the second time.
EcnBackoff(v, one) ==
    IF one /\ v.ecn_backoff_ THEN rtt_backoff(v) ELSE [v EXCEPT !.ecn_backoff_ = one]

\* An acknowledgement that leaves the estimates v.  The timer was set before, or
\* taken off when all is acknowledged.  cut: ecn responds, one: with a window of
\* one segment.
Ack(v, all, echo, cut, one) ==
    /\ timer # 0 /\ (cut => echo)
    /\ rtt.t_backoff_ < MaxBackoff
    /\ timer' = IF all THEN 0 ELSE rtt_timeout(rtt)
    /\ rtt' = IF cut THEN EcnBackoff(NotBackedOff(v, echo), one) ELSE NotBackedOff(v, echo)
    /\ UNCHANGED variant

\* The segment that was timed is acknowledged, m ticks after it was sent.
Timed(m, all, echo, cut, one) ==
    /\ last' = AtLeast(m, 1)
    /\ Ack(rtt_update(rtt, AtLeast(m, 1)), all, echo, cut, one)

Untimed(all, echo, cut, one) == Ack(rtt, all, echo, cut, one) /\ UNCHANGED last

\* reset_rtx_timer after the timer has gone off.
TimerOff ==
    /\ timer # 0 /\ rtt.t_backoff_ < MaxBackoff
    /\ rtt' = rtt_backoff(rtt)
    /\ timer' = rtt_timeout(rtt')
    /\ UNCHANGED <<variant, last>>

TimerNext ==
    \/ SetTimer
    \/ \E all, echo, cut, one \in BOOLEAN :
         \/ \E m \in Samples : Timed(m, all, echo, cut, one)
         \/ Untimed(all, echo, cut, one)
    \/ TimerOff

TimerSpec == TimerInit /\ [][TimerNext]_timerVars

------------------------------------------------------------------------------
(* Properties                                                              *)

TimerTypeOK ==
    /\ variant \in Variants /\ timer \in Nat /\ last \in Nat
    /\ rtt \in [t_srtt_ : Nat, t_rttvar_ : Nat, t_rtxcur_ : Nat, t_backoff_ : Nat \ {0},
                ecn_backoff_ : BOOLEAN]

\* The timer runs for minrto_ to maxrto_, and but for MinTCP the backoff stops
\* where it makes no difference any more (tcp.cc:547-580, 632-651).
TimerBounded ==
    /\ timer # 0 => timer \in MinRto .. MaxRto
    /\ ~variant.min => rtt.t_backoff_ <= AtLeast(64, (2 * MaxRto) \div MinRto)

\* Samples differ by less than a short holds.
Narrow == \A m \in Samples : m < ShortHalf

\* What the timer is computed from covers the sample that was taken last, a jump
\* up as well as down, and before and after a backoff has discarded the smoothed
\* time (tcp.cc:609-626).
TimerCoversSample == Narrow => last < rtt.t_rtxcur_

\* The timer is neither early nor late, whatever round-trip times, backoffs and
\* echoes come in which order (tcp.cc:547-651).
TimerInTime == TimerBounded /\ TimerCoversSample
=============================================================================
