-------------------------- MODULE CongestionProofs --------------------------
(***************************************************************************)
(* For every size of window, every threshold and every agent: the window   *)
(* stays between one segment and its limit, and the estimate of marks      *)
(* moves only the way the echoes of its window say.                        *)
(*                                                                         *)
(* Good says of any record what WindowInRange says of w, so that it passes *)
(* through slowdown, opencwnd and the actions composed of them.  For the   *)
(* estimate the invariant says that echoes are marked bytes (Counts).      *)
(***************************************************************************)
EXTENDS Congestion, RttTimer, Arithmetic

\* A window of the agent in its range.
Good(v) ==
    /\ v \in WindowRecord
    /\ v.cwnd_ >= Unit /\ v.ssthresh_ >= 2
    /\ agent \notin Reno => v.cwnd_ < Unit * (MaxCwnd + 1)

------------------------------------------------------------------------------
(* The window                                                              *)

\* What windowd leaves of a window.
LEMMA WindowdRange ==
    ASSUME NEW v \in WindowRecord
    PROVE  windowd(v) \in Nat /\ windowd(v) <= v.cwnd_
<1>1. Unit * Wnd \in Nat /\ v.cwnd_ \in Nat
  BY CongestionAssumption DEF WindowRecord
<1>. QED BY <1>1 DEF windowd, Least

\* A halved window is no larger.
LEMMA HalfwinRange ==
    ASSUME NEW v \in WindowRecord
    PROVE  halfwin(v) \in Nat /\ halfwin(v) <= v.cwnd_
<1>1. windowd(v) \in Nat /\ windowd(v) <= v.cwnd_ /\ v.cwnd_ \in Nat
  BY WindowdRange DEF WindowRecord
<1>2. CASE PreciseReduce
  BY <1>1, <1>2, HalfBounds DEF halfwin
<1>3. CASE ~PreciseReduce
  <2> DEFINE k == window(v) 
  <2>1. k \in Nat /\ Unit * k <= windowd(v)
    BY <1>1, CongestionAssumption DEF window
  <2>. HIDE DEF k
  <2>2. k \div 2 \in Nat /\ k \div 2 <= k
    BY <2>1, HalfBounds
  <2>3. Unit * (k \div 2) <= Unit * k /\ Unit * (k \div 2) \in Nat
    BY <2>1, <2>2, TimesMonotone, CongestionAssumption
  <2>. QED BY <2>1, <2>3, <1>1, <1>3, CongestionAssumption DEF halfwin, k
<1>. QED BY <1>2, <1>3, CongestionAssumption

\* Nor is one that an echo has reduced.
LEMMA ReducedRange ==
    ASSUME NEW v \in WindowRecord, NEW b \in 0 .. One
    PROVE  Reduced(v, b) \in Nat /\ Reduced(v, b) <= v.cwnd_
<1> DEFINE d == 2 * One
           n == windowd(v)
<1>1. n \in Nat /\ n <= v.cwnd_ /\ v.cwnd_ \in Nat
  BY WindowdRange DEF WindowRecord
<1>2. d \in Nat \ {0} /\ d - b \in Nat /\ d - b <= d
  BY CongestionAssumption
<1>. HIDE DEF n, d
<1>3. n * (d - b) <= n * d /\ n * (d - b) \in Nat
  BY <1>1, <1>2, TimesMonotone
<1>4. (d - b) * n = n * (d - b) /\ d * n = n * d
  BY <1>1, <1>2
<1>5. ((d - b) * n) \div d \in Nat /\ ((d - b) * n) \div d <= n
  BY <1>1, <1>2, <1>3, <1>4, DivAtMost
<1>. QED BY <1>1, <1>5 DEF Reduced, n, d

\* Windows in the range of a limit.
LEMMA Limits ==
    /\ Unit * InitWindow \in Nat /\ Unit * InitWindow >= Unit
    /\ Unit * InitWindow < Unit * (MaxCwnd + 1)
    /\ Unit < Unit * (MaxCwnd + 1)
    /\ Unit * MaxCwnd \in Nat /\ Unit * MaxCwnd >= Unit
    /\ Unit * MaxCwnd < Unit * (MaxCwnd + 1)
<1>1. Unit \in Nat \ {0} /\ InitWindow \in Nat /\ InitWindow >= 1 /\ MaxCwnd \in Nat
      /\ InitWindow <= MaxCwnd
  BY CongestionAssumption
<1>2. Unit * InitWindow <= Unit * MaxCwnd /\ Unit * InitWindow \in Nat /\ Unit * MaxCwnd \in Nat
  BY <1>1, TimesMonotone
<1>3. Unit * 1 <= Unit * InitWindow
  BY <1>1, TimesMonotone
<1>4. Unit * (MaxCwnd + 1) = Unit * MaxCwnd + Unit
  BY <1>1
<1>. QED BY <1>1, <1>2, <1>3, <1>4

\* A cut leaves a window in its range, and what it does not name as it was.
LEMMA SlowdownGood ==
    ASSUME NEW v \in WindowRecord, Good(v), NEW how, NEW b \in 0 .. One
    PROVE  /\ Good(slowdown(v, how, b))
           /\ slowdown(v, how, b).dupacks_ = v.dupacks_
<1> DEFINE ssthresh == CASE "CLOSE_SSTHRESH_HALF" \in how -> halfwin(v) \div Unit
                         [] "CLOSE_SSTHRESH_ECNHAT" \in how -> Reduced(v, b) \div Unit
                         [] OTHER -> v.ssthresh_
           cwnd == CASE "CLOSE_CWND_HALF" \in how -> halfwin(v)
                     [] "CLOSE_CWND_ECNHAT" \in how -> Reduced(v, b)
                     [] "CLOSE_CWND_INIT" \in how -> Unit * InitWindow
                     [] OTHER -> Unit
           r == [v EXCEPT !.ssthresh_ = Largest(2, ssthresh), !.cwnd_ = Largest(Unit, cwnd),
                          !.count_ = 0]
<1>1. halfwin(v) \in Nat /\ halfwin(v) <= v.cwnd_ /\ Reduced(v, b) \in Nat /\ Reduced(v, b) <= v.cwnd_
  BY HalfwinRange, ReducedRange
<1>2. v.cwnd_ \in Nat /\ v.ssthresh_ \in Nat /\ Unit \in Nat /\ Unit > 0
  BY CongestionAssumption DEF WindowRecord
<1>3. ssthresh \in Nat
  BY <1>1, <1>2, DivNat
<1>4. cwnd \in Nat /\ (cwnd <= v.cwnd_ \/ cwnd = Unit * InitWindow \/ cwnd = Unit)
  BY <1>1, <1>2, Limits
<1>. HIDE DEF ssthresh, cwnd
<1>5. Largest(2, ssthresh) \in Nat /\ Largest(2, ssthresh) >= 2
  BY <1>3 DEF Largest
<1>6. Largest(Unit, cwnd) \in Nat /\ Largest(Unit, cwnd) >= Unit
  BY <1>2, <1>4 DEF Largest
<1>7. agent \notin Reno => Largest(Unit, cwnd) < Unit * (MaxCwnd + 1)
  <2>1. SUFFICES ASSUME agent \notin Reno PROVE Largest(Unit, cwnd) < Unit * (MaxCwnd + 1)
    OBVIOUS
  <2>2. v.cwnd_ < Unit * (MaxCwnd + 1) /\ Unit * (MaxCwnd + 1) \in Nat
    BY <2>1, CongestionAssumption DEF Good
  <2>3. cwnd < Unit * (MaxCwnd + 1)
    BY <1>2, <1>4, <2>2, Limits
  <2>. QED BY <1>2, <1>4, <2>2, <2>3, Limits DEF Largest
<1>8. r \in WindowRecord /\ r.cwnd_ = Largest(Unit, cwnd) /\ r.ssthresh_ = Largest(2, ssthresh)
      /\ r.dupacks_ = v.dupacks_
  BY <1>5, <1>6 DEF WindowRecord
<1>9. r = slowdown(v, how, b)
  BY DEF slowdown, ssthresh, cwnd
<1>. HIDE DEF r
<1>. QED BY <1>5, <1>6, <1>7, <1>8, <1>9 DEF Good

\* The limit keeps a window that has a segment or more in its range.
LEMMA CappedRange ==
    ASSUME NEW c \in Nat, c >= Unit
    PROVE  Capped(c) \in Nat /\ Capped(c) >= Unit /\ Capped(c) < Unit * (MaxCwnd + 1)
<1>1. Unit \in Nat \ {0} /\ MaxCwnd \in Nat
  BY CongestionAssumption
<1>2. CASE c \div Unit > MaxCwnd
  BY <1>2, Limits DEF Capped
<1>3. CASE ~(c \div Unit > MaxCwnd)
  <2>1. CASE c >= Unit * (MaxCwnd + 1)
    BY <1>1, <1>3, <2>1, DivAtLeast
  <2>2. CASE ~(c >= Unit * (MaxCwnd + 1))
    BY <1>1, <1>3, <2>2 DEF Capped
  <2>. QED BY <2>1, <2>2
<1>. QED BY <1>2, <1>3

\* An opened window is in its range.
LEMMA OpencwndGood ==
    ASSUME NEW v \in WindowRecord, Good(v), NEW lldct \in BOOLEAN, NEW weight
    PROVE  Good(opencwnd(v, lldct, weight))
<1> DEFINE n == v.count_ + (IF lldct THEN 2 ELSE 1)
           more == \/ v.cwnd_ < Unit * v.ssthresh_
                   \/ lldct /\ Unit * (v.count_ + 1) * weight >= v.cwnd_ * MaxWeight
                   \/ Unit * n >= v.cwnd_
           grown == IF more THEN v.cwnd_ + Unit ELSE v.cwnd_
           count == CASE v.cwnd_ < Unit * v.ssthresh_ -> v.count_
                      [] more -> 0
                      [] OTHER -> n
           r == [v EXCEPT !.cwnd_ = Capped(grown), !.count_ = count]
<1>1. v.cwnd_ \in Nat /\ v.cwnd_ >= Unit /\ Unit \in Nat /\ v.count_ \in Nat /\ n \in Nat
  BY CongestionAssumption DEF WindowRecord, Good
<1>. HIDE DEF n
<1>2. count \in Nat
  BY <1>1
<1>3. grown \in Nat /\ grown >= Unit
  BY <1>1
<1>. HIDE DEF more, grown, count
<1>4. Capped(grown) \in Nat /\ Capped(grown) >= Unit /\ Capped(grown) < Unit * (MaxCwnd + 1)
  BY <1>3, CappedRange
<1>5. r \in WindowRecord /\ r.cwnd_ = Capped(grown) /\ r.ssthresh_ = v.ssthresh_
  BY <1>2, <1>4 DEF WindowRecord
<1>6. r = opencwnd(v, lldct, weight)
  BY DEF opencwnd, r, count, grown, more, n
<1>. HIDE DEF r
<1>. QED BY <1>4, <1>5, <1>6 DEF Good

\* Whatever else a step sets, the window stays in its range.
LEMMA KeepsGood ==
    ASSUME NEW v \in WindowRecord, Good(v), NEW u \in WindowRecord,
           u.cwnd_ = v.cwnd_, u.ssthresh_ = v.ssthresh_
    PROVE  Good(u)
BY DEF Good

\* To note what was sent at a loss leaves the window in its range.
LEMMA FastRetransmitGood ==
    ASSUME NEW v \in WindowRecord, Good(v), s \in NumbersRecord
    PROVE  /\ Good(fast_retransmit(v))
           /\ fast_retransmit(v).ssthresh_ = v.ssthresh_
           /\ fast_retransmit(v).dupacks_ = v.dupacks_
<1>1. s.maxseq_ \in Nat
  BY DEF NumbersRecord
<1>2. /\ fast_retransmit(v) \in WindowRecord
      /\ fast_retransmit(v).cwnd_ = v.cwnd_ /\ fast_retransmit(v).ssthresh_ = v.ssthresh_
      /\ fast_retransmit(v).dupacks_ = v.dupacks_
  BY <1>1 DEF fast_retransmit, WindowRecord
<1>. QED BY <1>2, KeepsGood

\* The window of a recovery, of which Reno's may be inflated.
LEMMA DupackGood ==
    ASSUME NEW v \in WindowRecord, Good(v), s \in NumbersRecord, agent \in Agents
    PROVE  Good(dupack_action(v))
<1> DEFINE u == [v EXCEPT !.fastrecov_ = TRUE]
<1>1. u \in WindowRecord /\ u.cwnd_ = v.cwnd_ /\ u.ssthresh_ = v.ssthresh_ /\ Good(u)
  <2>1. u \in WindowRecord /\ u.cwnd_ = v.cwnd_ /\ u.ssthresh_ = v.ssthresh_
    BY DEF WindowRecord
  <2>. QED BY <2>1, KeepsGood
<1>. HIDE DEF u
<1>2. 0 \in 0 .. One
  BY CongestionAssumption
<1>3. \A how : /\ Good(slowdown(u, how, 0)) /\ slowdown(u, how, 0) \in WindowRecord
               /\ slowdown(u, how, 0).dupacks_ = u.dupacks_
  BY <1>1, <1>2, SlowdownGood DEF Good
<1>4. \A how : LET f == fast_retransmit(slowdown(u, how, 0))
               IN Good(f) /\ f \in WindowRecord
  BY <1>3, FastRetransmitGood DEF Good
<1>5. CASE agent \in Sack
  <2> DEFINE f == fast_retransmit(slowdown(u, Half, 0))
             r == [f EXCEPT !.pipectrl_ = TRUE]
  <2>1. Good(f) /\ f \in WindowRecord
    BY <1>4
  <2>. HIDE DEF f
  <2>2. r \in WindowRecord /\ r.cwnd_ = f.cwnd_ /\ r.ssthresh_ = f.ssthresh_
    BY <2>1 DEF WindowRecord
  <2>. HIDE DEF r
  <2>3. Good(r)
    BY <2>1, <2>2, KeepsGood
  <2>4. Good(SackDupack(u))
    BY <2>3 DEF SackDupack, f, r
  <2>5. dupack_action(v) = SackDupack(u)
    BY <1>5 DEF dupack_action, u, Sack
  <2>. QED BY <2>4, <2>5
<1>6. CASE agent = "tahoe"
  <2> DEFINE f == slowdown(u, {"CLOSE_CWND_ONE"}, 0)
             r == [f EXCEPT !.action_ = "DUPACK"]
  <2>1. Good(f) /\ f \in WindowRecord
    BY <1>3
  <2>. HIDE DEF f
  <2>2. r \in WindowRecord /\ r.cwnd_ = f.cwnd_ /\ r.ssthresh_ = f.ssthresh_
    BY <2>1 DEF WindowRecord
  <2>. HIDE DEF r
  <2>3. Good(r)
    BY <2>1, <2>2, KeepsGood
  <2>4. Good(TahoeDupack(u))
    BY <1>4, <2>3 DEF TahoeDupack, f, r
  <2>5. dupack_action(v) = TahoeDupack(u)
    BY <1>6 DEF dupack_action, u, Sack
  <2>. QED BY <2>4, <2>5
<1>7. CASE agent \in Reno
  <2> DEFINE f == fast_retransmit(slowdown(u, Half, 0))
             c == Unit * (f.ssthresh_ + u.dupacks_)
             r == [f EXCEPT !.cwnd_ = c]
  <2>1. Good(f) /\ f \in WindowRecord
    BY <1>4
  <2>2. f.ssthresh_ \in Nat /\ f.ssthresh_ >= 2 /\ u.dupacks_ \in Nat /\ Unit \in Nat
    BY <2>1, <1>1, CongestionAssumption DEF Good, WindowRecord
  <2>3. c \in Nat /\ c >= Unit
    <3>1. f.ssthresh_ + u.dupacks_ \in Nat /\ 1 <= f.ssthresh_ + u.dupacks_
      BY <2>2
    <3>. HIDE DEF f
    <3>2. Unit * 1 <= Unit * (f.ssthresh_ + u.dupacks_) /\ Unit * (f.ssthresh_ + u.dupacks_) \in Nat
      BY <3>1, <2>2, TimesMonotone
    <3>. QED BY <3>2, <2>2
  <2>. HIDE DEF f, c
  <2>4. r \in WindowRecord /\ r.cwnd_ = c /\ r.ssthresh_ = f.ssthresh_
    BY <2>1, <2>3 DEF WindowRecord
  <2>. HIDE DEF r
  <2>5. Good(r)
    BY <2>2, <2>3, <2>4, <1>7 DEF Good
  <2>6. Good(RenoDupack(u))
    BY <1>4, <2>5 DEF RenoDupack, f, c, r
  <2>7. agent \notin Sack /\ agent # "tahoe"
    BY <1>7 DEF Reno, Sack
  <2>8. dupack_action(v) = RenoDupack(u)
    BY <2>7 DEF dupack_action, u
  <2>. QED BY <2>6, <2>8
<1>. QED BY <1>5, <1>6, <1>7, CongestionAssumption DEF Sack, Reno

\* The window after a timeout.
LEMMA TimeoutGood ==
    ASSUME NEW v \in WindowRecord, Good(v), s \in NumbersRecord
    PROVE  Good(timeout_action(v))
<1> DEFINE u == [v EXCEPT !.recover_ = s.maxseq_, !.fastrecov_ = FALSE, !.dupacks_ = 0]
           f == slowdown(u, {"CLOSE_SSTHRESH_HALF", "CLOSE_CWND_RESTART"}, 0)
           g == slowdown(u, {"CLOSE_CWND_ONE"}, 0)
           r == [f EXCEPT !.action_ = "TIMEOUT"]
<1>1. u \in WindowRecord /\ u.cwnd_ = v.cwnd_ /\ u.ssthresh_ = v.ssthresh_
  BY DEF WindowRecord, NumbersRecord
<1>. HIDE DEF u
<1>2. Good(u)
  BY <1>1, KeepsGood
<1>0. 0 \in 0 .. One
  BY CongestionAssumption
<1>3. Good(f) /\ f \in WindowRecord /\ Good(g)
  BY <1>0, <1>1, <1>2, SlowdownGood DEF Good
<1>. HIDE DEF f, g
<1>4. r \in WindowRecord /\ r.cwnd_ = f.cwnd_ /\ r.ssthresh_ = f.ssthresh_
  BY <1>3 DEF WindowRecord
<1>. HIDE DEF r
<1>5. Good(r)
  BY <1>3, <1>4, KeepsGood
<1>. QED BY <1>3, <1>5 DEF timeout_action, u, f, g, r

\* The window after an echo, whatever the penalty.
LEMMA EchoedGood ==
    ASSUME NEW v \in WindowRecord, Good(v), s \in NumbersRecord,
           NEW ackno, NEW echo \in BOOLEAN, NEW b \in 0 .. One
    PROVE  Good(Echoed(v, ackno, echo, b))
<1> DEFINE f == slowdown(v, {"CLOSE_SSTHRESH_ECNHAT", "CLOSE_CWND_ECNHAT"}, b)
           r == [f EXCEPT !.recover_ = s.maxseq_, !.action_ = "ECN"]
<1>1. Good(f) /\ f \in WindowRecord
  BY SlowdownGood DEF Good
<1>. HIDE DEF f
<1>2. r \in WindowRecord /\ r.cwnd_ = f.cwnd_ /\ r.ssthresh_ = f.ssthresh_
  BY <1>1 DEF WindowRecord, NumbersRecord
<1>. HIDE DEF r
<1>3. Good(r)
  BY <1>1, <1>2, KeepsGood
<1>. QED BY <1>3 DEF Echoed, ecn, f, r

\* The window after an acknowledgement has ended a recovery or not.
LEMMA AckActionGood ==
    ASSUME NEW v \in WindowRecord, Good(v), s \in NumbersRecord, NEW partial \in BOOLEAN
    PROVE  Good(AckAction(v, partial))
<1>1. v.ssthresh_ \in Nat /\ v.ssthresh_ >= 2 /\ Unit \in Nat
  BY CongestionAssumption DEF Good, WindowRecord
<1>2. Unit * v.ssthresh_ \in Nat /\ Unit * 1 <= Unit * v.ssthresh_
  BY <1>1, TimesMonotone
<1>3. CASE partial /\ agent \in Sack
  <2>1. AckAction(v, partial) = v
    BY <1>3 DEF AckAction, Sack
  <2>. QED BY <2>1
<1>4. CASE partial /\ agent = "newreno"
  <2> DEFINE f == fast_retransmit(v)
             r == [f EXCEPT !.cwnd_ = Unit * v.ssthresh_]
  <2>1. Good(f) /\ f \in WindowRecord /\ f.ssthresh_ = v.ssthresh_
    BY FastRetransmitGood DEF Good
  <2>. HIDE DEF f
  <2>2. r \in WindowRecord /\ r.cwnd_ = Unit * v.ssthresh_ /\ r.ssthresh_ = v.ssthresh_
    BY <1>2, <2>1 DEF WindowRecord
  <2>. HIDE DEF r
  <2>3. Good(r)
    BY <1>1, <1>2, <1>4, <2>2 DEF Good, Reno
  <2>4. agent \notin Sack
    BY <1>4 DEF Sack
  <2>. QED BY <1>4, <2>3, <2>4 DEF AckAction, f, r
<1>5. CASE ~(partial /\ (agent \in Sack \/ agent = "newreno"))
  <2> DEFINE d == Deflated(v)
             r == [d EXCEPT !.fastrecov_ = FALSE, !.dupacks_ = 0, !.pipectrl_ = FALSE]
  <2>1. Good(d) /\ d \in WindowRecord
    <3>1. CASE agent \in Reno /\ v.fastrecov_ /\ v.cwnd_ > Unit * v.ssthresh_
      <4>1. /\ [v EXCEPT !.cwnd_ = Unit * v.ssthresh_] \in WindowRecord
            /\ [v EXCEPT !.cwnd_ = Unit * v.ssthresh_].cwnd_ = Unit * v.ssthresh_
            /\ [v EXCEPT !.cwnd_ = Unit * v.ssthresh_].ssthresh_ = v.ssthresh_
        BY <1>2 DEF WindowRecord
      <4>2. Good([v EXCEPT !.cwnd_ = Unit * v.ssthresh_])
        BY <1>1, <1>2, <3>1, <4>1 DEF Good
      <4>. QED BY <3>1, <4>1, <4>2 DEF Deflated
    <3>2. CASE ~(agent \in Reno /\ v.fastrecov_ /\ v.cwnd_ > Unit * v.ssthresh_)
      BY <3>2 DEF Deflated
    <3>. QED BY <3>1, <3>2
  <2>. HIDE DEF d
  <2>2. r \in WindowRecord /\ r.cwnd_ = d.cwnd_ /\ r.ssthresh_ = d.ssthresh_
    BY <2>1 DEF WindowRecord
  <2>. HIDE DEF r
  <2>3. Good(r)
    BY <2>1, <2>2, KeepsGood
  <2>. QED BY <1>5, <2>3 DEF AckAction, d, r
<1>. QED BY <1>3, <1>4, <1>5

------------------------------------------------------------------------------
(* The estimate                                                            *)

\* x is an estimate after e, with echoes those of its window: marked bytes are
\* echoes, and alpha has moved only as they say.
Follows(x, echoes) ==
    /\ x \in EstimateRecord /\ x.marked <= x.total
    /\ x.total > 0 /\ x.marked > 0 => TRUE \in echoes
    /\ x.total > 0 /\ x.marked < x.total => FALSE \in echoes
    /\ x.alpha > e.alpha => TRUE \in echoes
    /\ x.alpha < e.alpha => FALSE \in echoes

\* The echoes of the window, with that of the acknowledgement received.
Echoes(echo) == {echo} \cup (IF e.total = 0 THEN {} ELSE h.echoes)

\* A weighted average lies between what it averages.
LEMMA AverageBetween ==
    ASSUME NEW a \in Nat, NEW f \in Nat
    PROVE  LET r == ((Gain - 1) * a + f) \div Gain
           IN /\ r \in Nat
              /\ r > a => f > a
              /\ r < a => f < a
              /\ \A m \in Nat : a <= m /\ f <= m => r <= m
<1> DEFINE g == Gain - 1
           n == g * a + f
           r == n \div Gain
<1>1. g \in Nat /\ Gain \in Nat \ {0} /\ Gain = g + 1
  BY CongestionAssumption
<1>2. n \in Nat /\ g * a \in Nat
  BY <1>1
<1>3. \A m \in Nat : Gain * m = g * m + m /\ g * m \in Nat
  BY <1>1
<1>4. r \in Nat
  BY <1>1, <1>2, DivNat
<1>5. \A m \in Nat : a <= m /\ f <= m => r <= m
  <2>1. SUFFICES ASSUME NEW m \in Nat, a <= m, f <= m PROVE r <= m
    OBVIOUS
  <2>2. g * a <= g * m
    BY <1>1, <2>1, TimesMonotone
  <2>3. n <= Gain * m
    BY <1>2, <1>3, <2>1, <2>2
  <2>. HIDE DEF n
  <2>. QED BY <1>1, <1>2, <2>3, DivAtMost
<1>6. ASSUME f <= a PROVE r <= a
  BY <1>5, <1>6
<1>7. ASSUME a <= f PROVE a <= r
  <2>1. Gain * a <= n
    BY <1>2, <1>3, <1>7
  <2>. HIDE DEF n
  <2>. QED BY <1>1, <1>2, <2>1, DivAtLeast
<1>. HIDE DEF n, g
<1>8. (r > a => f > a) /\ (r < a => f < a)
  <2>. HIDE DEF r
  <2>. QED BY <1>4, <1>6, <1>7
<1>. QED BY <1>4, <1>5, <1>8 DEF n, g

\* The fraction of a window: one at most, none without an echo, and one where
\* every byte is an echo.
LEMMA FractionRange ==
    ASSUME NEW marked \in Nat, NEW total \in Nat \ {0}, marked <= total
    PROVE  LET f == (One * marked) \div total
           IN f \in Nat /\ f <= One /\ (marked = 0 => f = 0) /\ (marked = total => f = One)
<1> DEFINE n == One * marked
<1>1. One \in Nat \ {0}
  BY CongestionAssumption
<1>2. n <= One * total /\ n \in Nat /\ One * total = total * One
  BY <1>1, TimesMonotone
<1>3. marked = 0 => n = 0
  BY <1>1
<1>4. marked = total => n = total * One
  BY <1>1, <1>2
<1>. HIDE DEF n
<1>5. n \div total \in Nat /\ n \div total <= One
  BY <1>1, <1>2, DivAtMost
<1>6. marked = 0 => n \div total = 0
  <2>1. SUFFICES ASSUME marked = 0 PROVE n \div total = 0
    OBVIOUS
  <2>2. n <= total * 0
    BY <1>3, <2>1
  <2>3. n \div total <= 0
    BY <1>2, <2>2, DivAtMost
  <2>. QED BY <1>5, <2>3
<1>7. marked = total => n \div total = One
  <2>1. SUFFICES ASSUME marked = total PROVE n \div total = One
    OBVIOUS
  <2>2. total * One <= n
    BY <1>2, <1>4, <2>1
  <2>3. One <= n \div total
    BY <1>1, <1>2, <2>2, DivAtLeast
  <2>. QED BY <1>1, <1>5, <2>3
<1>. QED BY <1>5, <1>6, <1>7 DEF n

------------------------------------------------------------------------------
(* The invariant                                                           *)

\* What is counted is counted for an echo, or for none, of its window.
Counts ==
    /\ e.total > 0 /\ e.marked > 0 => TRUE \in h.echoes
    /\ e.total > 0 /\ e.marked < e.total => FALSE \in h.echoes

IInv == TypeOK /\ WindowInRange /\ Counts

\* A packet that is counted follows.
LEMMA CountedFollows ==
    ASSUME TypeOK, Counts, NEW bytes \in Nat, bytes >= 1, NEW echo \in BOOLEAN
    PROVE  LET x == counted(e, bytes, echo)
           IN /\ Follows(x, Echoes(echo))
              /\ x.total > 0 /\ x.alpha = e.alpha /\ x.recalc_seq = e.recalc_seq
<1> DEFINE x == counted(e, bytes, echo)
<1>1. e \in EstimateRecord /\ e.marked <= e.total /\ h.echoes \in SUBSET BOOLEAN
  BY DEF TypeOK, HistoryRecord
<1>2. e.total \in Nat /\ e.marked \in Nat
  BY <1>1 DEF EstimateRecord
<1>3. /\ x \in EstimateRecord /\ x.alpha = e.alpha /\ x.recalc_seq = e.recalc_seq
      /\ x.total = e.total + bytes
      /\ echo => x.marked = e.marked + bytes
      /\ ~echo => x.marked = e.marked
  <2>1. CASE echo
    <3>1. x = [e EXCEPT !.total = @ + bytes, !.marked = @ + bytes]
      BY <2>1 DEF counted
    <3>2. e.total + bytes \in Nat /\ e.marked + bytes \in Nat
      BY <1>2
    <3>. HIDE DEF x
    <3>3. /\ x.alpha = e.alpha /\ x.recalc_seq = e.recalc_seq
          /\ x.total = e.total + bytes /\ x.marked = e.marked + bytes
      BY <1>1, <3>1 DEF EstimateRecord
    <3>4. x \in EstimateRecord
      BY <1>1, <3>1, <3>2 DEF EstimateRecord
    <3>. QED BY <2>1, <3>3, <3>4
  <2>2. CASE ~echo
    <3>1. x = [e EXCEPT !.total = @ + bytes]
      BY <1>1, <2>2 DEF counted, EstimateRecord
    <3>. HIDE DEF x
    <3>. QED BY <1>1, <1>2, <2>2, <3>1 DEF EstimateRecord
  <2>. QED BY <2>1, <2>2
<1>4. x.alpha \in Nat
  BY <1>3, CongestionAssumption DEF EstimateRecord
<1>. HIDE DEF x
<1>5. x.marked <= x.total /\ x.total > 0
  BY <1>1, <1>2, <1>3
<1>6. x.marked > 0 => TRUE \in Echoes(echo)
  <2>1. CASE echo
    BY <2>1 DEF Echoes
  <2>2. CASE ~echo /\ x.marked > 0
    <3>1. e.marked > 0 /\ e.total > 0 /\ e.total # 0
      BY <1>1, <1>2, <1>3, <2>2
    <3>2. TRUE \in h.echoes
      BY <3>1 DEF Counts
    <3>. QED BY <3>1, <3>2 DEF Echoes
  <2>. QED BY <2>1, <2>2
<1>7. x.marked < x.total => FALSE \in Echoes(echo)
  <2>1. CASE ~echo
    BY <2>1 DEF Echoes
  <2>2. CASE echo /\ x.marked < x.total
    <3>1. e.marked < e.total /\ e.total > 0 /\ e.total # 0
      BY <1>1, <1>2, <1>3, <2>2
    <3>2. FALSE \in h.echoes
      BY <3>1 DEF Counts
    <3>. QED BY <3>1, <3>2 DEF Echoes
  <2>. QED BY <2>1, <2>2
<1>8. ~(x.alpha > e.alpha) /\ ~(x.alpha < e.alpha)
  BY <1>3, <1>4
<1>. QED BY <1>3, <1>5, <1>6, <1>7, <1>8 DEF Follows, x

\* A packet received moves the estimate only as its window's echoes say.
LEMMA UpdateFollows ==
    ASSUME TypeOK, Counts, NEW ackno \in Nat, NEW echo \in BOOLEAN
    PROVE  Follows(update_ecnhat_alpha(ackno, echo), Echoes(echo))
<1> DEFINE bytes == Largest(ackno - s.highest_ack_, 1)
           x == counted(e, bytes, echo)
           f == (One * x.marked) \div x.total
           r == ((Gain - 1) * x.alpha + f) \div Gain
           y == estimated(x)
           m == Echoes(echo)
<1>1. bytes \in Nat /\ bytes >= 1
  BY DEF TypeOK, NumbersRecord, Largest
<1>. HIDE DEF bytes
<1>2. Follows(x, m) /\ x.total > 0 /\ x.alpha = e.alpha
  BY <1>1, CountedFollows
<1>. HIDE DEF x, m
<1>3. x \in EstimateRecord /\ x.marked <= x.total /\ x.marked \in Nat /\ x.total \in Nat \ {0}
  BY <1>2 DEF Follows, EstimateRecord
<1>4. x.alpha \in Nat /\ x.alpha <= One /\ One \in Nat
  BY <1>3, CongestionAssumption DEF EstimateRecord
<1>5. f \in Nat /\ f <= One /\ (x.marked = 0 => f = 0) /\ (x.marked = x.total => f = One)
  BY <1>3, FractionRange
<1>. HIDE DEF f
<1>6. r \in Nat /\ r <= One /\ (r > x.alpha => f > x.alpha) /\ (r < x.alpha => f < x.alpha)
  BY <1>4, <1>5, AverageBetween
<1>7. (r > x.alpha => x.marked > 0) /\ (r < x.alpha => x.marked < x.total)
  BY <1>3, <1>4, <1>5, <1>6
<1>8. y \in EstimateRecord /\ y.alpha = r /\ y.marked = 0 /\ y.total = 0
  <2>. HIDE DEF r
  <2>1. y = [x EXCEPT !.recalc_seq = x.maxseq, !.alpha = r, !.marked = 0, !.total = 0]
    BY DEF y, estimated, r, f
  <2>2. r \in 0 .. One
    BY <1>4, <1>6
  <2>3. x.maxseq \in Nat
    BY <1>3 DEF EstimateRecord
  <2>. HIDE DEF y
  <2>. QED BY <1>3, <2>1, <2>2, <2>3 DEF EstimateRecord
<1>. HIDE DEF r, y
<1>9. (y.alpha > e.alpha => TRUE \in m) /\ (y.alpha < e.alpha => FALSE \in m)
  BY <1>2, <1>3, <1>7, <1>8 DEF Follows
<1>10. Follows(y, m)
  <2>1. y.marked <= y.total /\ ~(y.total > 0)
    BY <1>8
  <2>. QED BY <1>8, <1>9, <2>1 DEF Follows
<1>11. update_ecnhat_alpha(ackno, echo) \in {x, y}
  BY DEF update_ecnhat_alpha, x, y, bytes
<1>. QED BY <1>2, <1>10, <1>11 DEF m

\* Nor does it matter what else of the estimate a step sets.
LEMMA KeepsFollowing ==
    ASSUME NEW x, NEW m, Follows(x, m), NEW y \in EstimateRecord,
           y.alpha = x.alpha, y.total = x.total, y.marked = x.marked
    PROVE  Follows(y, m)
BY DEF Follows

\* What a step leaves, m the echoes since the last estimate.
Leaves(m) == /\ w' \in WindowRecord /\ Good(w') /\ s' \in NumbersRecord /\ Follows(e', m)

\* How much is sent matters to none of it.
LEMMA SendsLeaves ==
    ASSUME NEW v \in WindowRecord, Good(v), NEW q \in NumbersRecord,
           NEW x, NEW m, Follows(x, m), Sends(v, q, x) \/ Stays(v, q, x)
    PROVE  Leaves(m)
<1>1. CASE Stays(v, q, x)
  BY <1>1 DEF Stays, Leaves
<1>2. CASE Sends(v, q, x)
  <2>1. PICK t \in SendsTo(v, q) :
            /\ w' = v
            /\ s' = [q EXCEPT !.t_seqno_ = t, !.maxseq_ = Largest(@, t)]
            /\ e' = IF t > q.t_seqno_ THEN [x EXCEPT !.maxseq = Largest(@, t)] ELSE x
    BY <1>2 DEF Sends
  <2>2. /\ q.t_seqno_ \in Nat /\ q.curseq_ \in Nat /\ q.highest_ack_ \in Nat
        /\ q.maxseq_ \in Nat
    BY DEF NumbersRecord
  <2>3. window(v) \in Nat
    BY WindowdRange, DivNat, CongestionAssumption DEF window
  <2>4. t \in Nat
    BY <2>1, <2>2, <2>3 DEF SendsTo, Largest, Least
  <2>5. s' \in NumbersRecord
    BY <2>1, <2>2, <2>4 DEF NumbersRecord, Largest
  <2>6. x \in EstimateRecord /\ x.maxseq \in Nat
    BY DEF Follows, EstimateRecord
  <2>7. Largest(x.maxseq, t) \in Nat
    BY <2>4, <2>6 DEF Largest
  <2>8. /\ e' \in EstimateRecord
        /\ e'.alpha = x.alpha /\ e'.total = x.total /\ e'.marked = x.marked
    BY <2>1, <2>6, <2>7 DEF EstimateRecord
  <2>9. Follows(e', m)
    BY <2>8, KeepsFollowing
  <2>. QED BY <2>1, <2>5, <2>9 DEF Leaves
<1>. QED BY <1>1, <1>2

\* A step of which AlphaFollowsEchoes is true.
Followed ==
    /\ e'.alpha > e.alpha => TRUE \in h'.echoes
    /\ e'.alpha < e.alpha => FALSE \in h'.echoes

\* What a step that has left that has to show for the invariant.
LEMMA LeavesInvariant ==
    ASSUME TypeOK, NEW m, Leaves(m), h' \in HistoryRecord, h'.echoes = m,
           opened' \in BOOLEAN, agent' = agent
    PROVE  IInv' /\ Followed
<1>1. TypeOK'
  BY DEF TypeOK, Leaves, Follows
<1>2. WindowInRange'
  BY DEF WindowInRange, Leaves, Good
<1>3. Counts' /\ Followed
  BY DEF Counts, Followed, Leaves, Follows
<1>. QED BY <1>1, <1>2, <1>3 DEF IInv

\* The step of an acknowledgement.
LEMMA AckInvariant ==
    ASSUME TypeOK, NEW echo \in BOOLEAN, Leaves(Echoes(echo)), Remember(echo),
           opened' \in BOOLEAN, agent' = agent
    PROVE  IInv' /\ Followed
<1>1. h \in HistoryRecord /\ s.maxseq_ \in Nat /\ opened \in BOOLEAN
  BY DEF TypeOK, NumbersRecord
<1>2. Echoes(echo) \in SUBSET BOOLEAN
  BY <1>1 DEF Echoes, HistoryRecord
<1>3. h' \in HistoryRecord /\ h'.echoes = Echoes(echo)
  <2>1. PICK cut \in Nat, sent \in Nat, marked \in BOOLEAN :
          h' = [h EXCEPT !.cut = cut, !.sent = sent, !.marked = marked, !.echoes = Echoes(echo)]
    <3>1. h.cut \in Nat /\ h.sent \in Nat /\ h.marked \in BOOLEAN
      BY ONLY <1>1 DEF HistoryRecord
    <3> DEFINE cut == IF Cut THEN s.maxseq_ ELSE h.cut
               sent == IF e'.total = 0 THEN s.maxseq_ ELSE h.sent
               marked == h.marked \/ (echo /\ opened)
    <3>2. h' = [h EXCEPT !.cut = cut, !.sent = sent, !.marked = marked, !.echoes = Echoes(echo)]
      BY DEF Remember, Echoes
    <3>3. cut \in Nat /\ sent \in Nat /\ marked \in BOOLEAN
      BY ONLY <3>1, <1>1
    <3>. QED BY <3>2, <3>3
  <2>2. h' \in HistoryRecord
    BY ONLY <2>1, <1>1, <1>2 DEF HistoryRecord
  <2>3. h'.echoes = Echoes(echo)
    BY ONLY <2>1, <1>1 DEF HistoryRecord
  <2>. QED BY <2>2, <2>3
<1>. QED BY <1>3, LeavesInvariant

------------------------------------------------------------------------------
(* The steps                                                               *)

\* What the invariant says of the variables one by one.
LEMMA Unpacked ==
    ASSUME IInv
    PROVE  /\ TypeOK /\ Counts /\ w \in WindowRecord /\ Good(w)
           /\ s \in NumbersRecord /\ e \in EstimateRecord /\ h \in HistoryRecord
           /\ agent \in Agents /\ opened \in BOOLEAN
           /\ s.highest_ack_ \in Nat /\ s.maxseq_ \in Nat /\ s.t_seqno_ \in Nat
           /\ s.curseq_ \in Nat /\ w.dupacks_ \in Nat
BY DEF IInv, TypeOK, WindowInRange, Good, NumbersRecord, WindowRecord

\* A window opened for the initial window is in its range.
LEMMA InitialGood ==
    ASSUME NEW v \in WindowRecord, v.cwnd_ = Unit * InitWindow, v.ssthresh_ >= 2
    PROVE  Good(v)
BY Limits DEF Good

\* A duplicate acknowledgement is counted in the window it leaves.
LEMMA CountedDupGood ==
    ASSUME IInv
    PROVE  LET v == [w EXCEPT !.dupacks_ = @ + 1] IN v \in WindowRecord /\ Good(v)
<1> DEFINE v == [w EXCEPT !.dupacks_ = @ + 1]
<1>1. w \in WindowRecord /\ Good(w) /\ w.dupacks_ + 1 \in Nat
  BY Unpacked
<1>2. v \in WindowRecord /\ v.cwnd_ = w.cwnd_ /\ v.ssthresh_ = w.ssthresh_
  BY <1>1 DEF WindowRecord
<1>. HIDE DEF v
<1>3. Good(v)
  BY <1>1, <1>2, KeepsGood
<1>. QED BY <1>2, <1>3 DEF v

\* The SYN/ACK opens the connection with the initial window.
LEMMA SynAckStep == ASSUME IInv, RecvSynAck PROVE IInv' /\ Followed
<1> DEFINE x == update_ecnhat_alpha(1, TRUE)
           y == [x EXCEPT !.burst = TRUE]
           q == [s EXCEPT !.highest_ack_ = 1]
           v == [w EXCEPT !.cwnd_ = initial_window, !.dupacks_ = 0]
           m == Echoes(TRUE)
<1>1. Follows(x, m)
  BY Unpacked, UpdateFollows
<1>. HIDE DEF x, m
<1>2. /\ y \in EstimateRecord
      /\ y.alpha = x.alpha /\ y.total = x.total /\ y.marked = x.marked
  BY <1>1 DEF Follows, EstimateRecord
<1>. HIDE DEF y
<1>3. Follows(y, m)
  BY <1>1, <1>2, KeepsFollowing
<1>4. q \in NumbersRecord
  BY Unpacked DEF NumbersRecord
<1>5. v \in WindowRecord /\ v.cwnd_ = Unit * InitWindow /\ v.ssthresh_ = w.ssthresh_
  BY Unpacked, Limits DEF WindowRecord, initial_window
<1>. HIDE DEF v
<1>6. Good(v)
  BY <1>5, Unpacked, InitialGood DEF Good
<1>7. Sends(v, q, y)
  BY DEF RecvSynAck, x, y, q, v
<1>. HIDE DEF q
<1>8. Leaves(m)
  BY <1>3, <1>4, <1>5, <1>6, <1>7, SendsLeaves
<1>9. Remember(TRUE) /\ opened' \in BOOLEAN /\ agent' = agent
  BY DEF RecvSynAck
<1>. QED BY <1>8, <1>9, Unpacked, AckInvariant DEF m

\* An acknowledgement of something new: recovery, echo and growth, in this order.
LEMMA AckStep ==
    ASSUME IInv, NEW ackno \in 1 .. MaxSeq, NEW echo \in BOOLEAN, RecvAck(ackno, echo)
    PROVE  IInv' /\ Followed
<1> DEFINE partial == pack(ackno)
           x == update_ecnhat_alpha(ackno, echo)
           q == [s EXCEPT !.highest_ack_ = ackno, !.t_seqno_ = Largest(@, ackno)]
           y == IF partial /\ agent = "newreno"
                THEN [x EXCEPT !.maxseq = Largest(@, ackno + 1)] ELSE x
           z == [y EXCEPT !.burst = echo]
           lldct == agent = "lldct"
           m == Echoes(echo)
<1>1. ackno \in Nat
  BY CongestionAssumption
<1>2. partial \in BOOLEAN
  BY Unpacked DEF pack, WindowRecord
<1>3. Follows(x, m)
  BY <1>1, Unpacked, UpdateFollows
<1>4. PICK b \in IF echo THEN Penalty(agent, x.alpha) ELSE {0},
           weight \in IF agent = "lldct" THEN Weights ELSE {MaxWeight} :
          LET v == Echoed(AckAction(w, partial), ackno, echo, b)
          IN Sends(IF Opens(partial, echo) THEN opencwnd(v, lldct, weight) ELSE v, q, z)
  BY DEF RecvAck
<1> DEFINE v == Echoed(AckAction(w, partial), ackno, echo, b)
           u == IF Opens(partial, echo) THEN opencwnd(v, lldct, weight) ELSE v
<1>5. Sends(u, q, z)
  BY <1>4
<1>6. q \in NumbersRecord
  BY <1>1, Unpacked DEF NumbersRecord, Largest
<1>. HIDE DEF x, m, q
<1>7. x \in EstimateRecord /\ x.maxseq \in Nat /\ x.alpha \in 0 .. One
  BY <1>3 DEF Follows, EstimateRecord
<1>8. Follows(z, m)
  <2>1. /\ y \in EstimateRecord
        /\ y.alpha = x.alpha /\ y.total = x.total /\ y.marked = x.marked
    BY <1>1, <1>7 DEF EstimateRecord, Largest
  <2>. HIDE DEF y
  <2>2. /\ z \in EstimateRecord
        /\ z.alpha = y.alpha /\ z.total = y.total /\ z.marked = y.marked
    BY <2>1 DEF EstimateRecord
  <2>. HIDE DEF z
  <2>. QED BY <1>3, <2>1, <2>2, KeepsFollowing
<1>9. b \in 0 .. One
  BY <1>4, <1>7, CongestionAssumption DEF Penalty, DDPenalty, LldctPenalty, Powers
<1>. HIDE DEF z, partial
<1>10. AckAction(w, partial) \in WindowRecord /\ Good(AckAction(w, partial))
  BY <1>2, Unpacked, AckActionGood DEF Good
<1>11. v \in WindowRecord /\ Good(v)
  BY <1>9, <1>10, Unpacked, EchoedGood DEF Good
<1>. HIDE DEF v
<1>12. u \in WindowRecord /\ Good(u)
  BY <1>11, OpencwndGood DEF Good
<1>. HIDE DEF u
<1>13. Leaves(m)
  BY <1>5, <1>6, <1>8, <1>12, SendsLeaves
<1>14. Remember(echo) /\ opened' \in BOOLEAN /\ agent' = agent
  BY Unpacked DEF RecvAck
<1>. QED BY <1>13, <1>14, Unpacked, AckInvariant DEF m

\* An acknowledgement of what is acknowledged changes the estimate alone.
LEMMA OldAckStep ==
    ASSUME IInv, NEW ackno \in 1 .. MaxSeq, NEW echo \in BOOLEAN, OldAck(ackno, echo)
    PROVE  IInv' /\ Followed
<1> DEFINE x == update_ecnhat_alpha(ackno, echo)
           v == [w EXCEPT !.dupacks_ = 0]
<1>1. ackno \in Nat
  BY CongestionAssumption
<1>2. Follows(x, Echoes(echo))
  BY <1>1, Unpacked, UpdateFollows
<1>3. v \in WindowRecord /\ v.cwnd_ = w.cwnd_ /\ v.ssthresh_ = w.ssthresh_
  BY Unpacked DEF WindowRecord
<1>4. Sends(v, s, x)
  BY DEF OldAck
<1>. HIDE DEF x, v
<1>5. Good(v)
  BY <1>3, Unpacked, KeepsGood
<1>6. Leaves(Echoes(echo))
  BY <1>2, <1>3, <1>4, <1>5, Unpacked, SendsLeaves
<1>7. Remember(echo) /\ opened' \in BOOLEAN /\ agent' = agent
  BY Unpacked DEF OldAck
<1>. QED BY <1>6, <1>7, Unpacked, AckInvariant

\* A duplicate that is only counted.
LEMMA CountDupStep ==
    ASSUME IInv, NEW echo \in BOOLEAN, CountDup(echo) PROVE IInv' /\ Followed
<1> DEFINE v == [w EXCEPT !.dupacks_ = @ + 1]
           x == update_ecnhat_alpha(s.highest_ack_, echo)
<1>1. Follows(x, Echoes(echo))
  BY Unpacked, UpdateFollows
<1>2. v \in WindowRecord /\ Good(v)
  BY CountedDupGood
<1>3. Sends(v, s, x) /\ Remember(echo) /\ opened' = opened /\ agent' = agent
  BY DEF CountDup, Dup
<1>. HIDE DEF x, v
<1>4. Leaves(Echoes(echo))
  BY <1>1, <1>2, <1>3, Unpacked, SendsLeaves
<1>. QED BY <1>3, <1>4, Unpacked, AckInvariant

\* The duplicate that starts a recovery.
LEMMA RecoverStep ==
    ASSUME IInv, NEW echo \in BOOLEAN, Recover(echo) PROVE IInv' /\ Followed
<1> DEFINE v == [w EXCEPT !.dupacks_ = @ + 1]
           x == update_ecnhat_alpha(s.highest_ack_, echo)
           y == Resends(x)
           back == [s EXCEPT !.t_seqno_ = s.highest_ack_]
           f == [v EXCEPT !.fastrecov_ = TRUE]
           d == dupack_action(v)
           m == Echoes(echo)
<1>1. Follows(x, m)
  BY Unpacked, UpdateFollows
<1>2. v \in WindowRecord /\ Good(v)
  BY CountedDupGood
<1>3. /\ Stays(f, s, x) \/ Sends(d, s, y) \/ Stays(d, s, y) \/ Sends(d, back, x)
         \/ Stays(d, back, x)
      /\ Remember(echo) /\ opened' = opened /\ agent' = agent
  BY DEF Recover, Dup
<1>. HIDE DEF v, m, x
<1>4. /\ y \in EstimateRecord
      /\ y.alpha = x.alpha /\ y.total = x.total /\ y.marked = x.marked
  <2>1. x \in EstimateRecord /\ x.maxseq \in Nat
    BY <1>1 DEF Follows, EstimateRecord
  <2>2. Largest(x.maxseq, s.highest_ack_ + 1) \in Nat
    BY <2>1, Unpacked DEF Largest
  <2>. QED BY <2>1, <2>2 DEF Resends, EstimateRecord
<1>. HIDE DEF y
<1>5. Follows(y, m)
  BY <1>1, <1>4, KeepsFollowing
<1>6. back \in NumbersRecord
  BY Unpacked DEF NumbersRecord
<1>7. f \in WindowRecord /\ f.cwnd_ = v.cwnd_ /\ f.ssthresh_ = v.ssthresh_
  BY <1>2 DEF WindowRecord
<1>. HIDE DEF f, d, back
<1>8. Good(f)
  BY <1>2, <1>7, KeepsGood
<1>9. d \in WindowRecord /\ Good(d)
  BY <1>2, Unpacked, DupackGood DEF Good, d
<1>10. Leaves(m)
  <2>1. CASE Stays(f, s, x)
    BY <2>1, <1>1, <1>7, <1>8, Unpacked, SendsLeaves
  <2>2. CASE Sends(d, s, y) \/ Stays(d, s, y)
    BY <2>2, <1>5, <1>9, Unpacked, SendsLeaves
  <2>3. CASE Sends(d, back, x) \/ Stays(d, back, x)
    BY <2>3, <1>1, <1>6, <1>9, SendsLeaves
  <2>. QED BY <1>3, <2>1, <2>2, <2>3
<1>. QED BY <1>3, <1>10, Unpacked, AckInvariant DEF m

\* A further duplicate, which may inflate the window of Reno alone.
LEMMA ExtraAckStep ==
    ASSUME IInv, NEW echo \in BOOLEAN, ExtraAck(echo) PROVE IInv' /\ Followed
<1> DEFINE v == [w EXCEPT !.dupacks_ = @ + 1]
           g == [v EXCEPT !.cwnd_ = @ + Unit]
           u == IF agent \in Reno THEN g ELSE v
           x == update_ecnhat_alpha(s.highest_ack_, echo)
<1>1. Follows(x, Echoes(echo))
  BY Unpacked, UpdateFollows
<1>2. v \in WindowRecord /\ Good(v)
  BY CountedDupGood
<1>3. Sends(u, s, x) /\ Remember(echo) /\ opened' = opened /\ agent' = agent
  BY DEF ExtraAck, Dup
<1>. HIDE DEF x, v
<1>4. v.cwnd_ + Unit \in Nat /\ v.cwnd_ + Unit >= Unit
  BY <1>2, CongestionAssumption DEF WindowRecord
<1>5. g \in WindowRecord /\ g.cwnd_ = v.cwnd_ + Unit /\ g.ssthresh_ = v.ssthresh_
  BY <1>2, <1>4 DEF WindowRecord
<1>. HIDE DEF g
<1>6. u \in WindowRecord /\ Good(u)
  BY <1>2, <1>4, <1>5 DEF Good
<1>. HIDE DEF u
<1>7. Leaves(Echoes(echo))
  BY <1>1, <1>3, <1>6, Unpacked, SendsLeaves
<1>. QED BY <1>3, <1>7, Unpacked, AckInvariant

\* The estimate follows the echoes of its window when no step has changed it.
LEMMA UnchangedFollows == ASSUME IInv PROVE Follows(e, h.echoes)
<1>1. e \in EstimateRecord /\ e.marked <= e.total /\ Counts
  BY DEF IInv, TypeOK
<1>2. e.alpha \in Nat
  BY <1>1, CongestionAssumption DEF EstimateRecord
<1>3. ~(e.alpha > e.alpha) /\ ~(e.alpha < e.alpha)
  BY <1>2
<1>. QED BY <1>1, <1>3 DEF Follows, Counts

\* A timeout starts the window afresh and keeps what was counted.
LEMMA TimeoutStep == ASSUME IInv, Timeout PROVE IInv' /\ Followed
<1> DEFINE x == Rewound(e)
           q == [s EXCEPT !.t_seqno_ = s.highest_ack_]
           v == timeout_action(w)
<1>1. /\ x \in EstimateRecord
      /\ x.alpha = e.alpha /\ x.total = e.total /\ x.marked = e.marked
  BY Unpacked DEF Rewound, EstimateRecord
<1>. HIDE DEF x
<1>2. Follows(x, h.echoes)
  BY <1>1, UnchangedFollows, KeepsFollowing
<1>3. q \in NumbersRecord
  BY Unpacked DEF NumbersRecord
<1>4. v \in WindowRecord /\ Good(v)
  BY Unpacked, TimeoutGood DEF Good
<1>5. /\ Sends(v, q, x)
      /\ h' = [h EXCEPT !.cut = 0, !.lost = s.maxseq_]
      /\ opened' = opened /\ agent' = agent
  BY DEF Timeout, x
<1>. HIDE DEF v, q
<1>6. Leaves(h.echoes)
  BY <1>2, <1>3, <1>4, <1>5, SendsLeaves
<1>7. h' \in HistoryRecord /\ h'.echoes = h.echoes
  BY <1>5, Unpacked DEF HistoryRecord
<1>. QED BY <1>5, <1>6, <1>7, Unpacked, LeavesInvariant

\* Another message starts with the initial window, the estimate as it was.
LEMMA NewMessageStep ==
    ASSUME IInv, NEW k \in Messages, NEW idle \in {FALSE, SlowStartRestart},
           NewMessage(k, idle)
    PROVE  IInv' /\ Followed
<1> DEFINE v == [w EXCEPT !.cwnd_ = initial_window]
           q == [s EXCEPT !.curseq_ = @ + k]
           r == slowdown(v, {"CLOSE_CWND_INIT"}, 0)
           u == Restarted(v, idle)
<1>1. k \in Nat /\ 0 \in 0 .. One
  BY CongestionAssumption
<1>2. v \in WindowRecord /\ v.cwnd_ = Unit * InitWindow /\ v.ssthresh_ = w.ssthresh_
  BY Unpacked, Limits DEF WindowRecord, initial_window
<1>3. /\ IF opened THEN Sends(u, q, e) ELSE Stays(v, q, e)
      /\ UNCHANGED <<agent, opened, h>>
  BY DEF NewMessage
<1>4. q \in NumbersRecord
  BY <1>1, Unpacked DEF NumbersRecord
<1>. HIDE DEF v, q
<1>5. Good(v)
  BY <1>2, Unpacked, InitialGood DEF Good
<1>6. r \in WindowRecord /\ Good(r)
  BY <1>1, <1>2, <1>5, SlowdownGood DEF Good
<1>7. u \in WindowRecord /\ Good(u)
  BY <1>2, <1>5, <1>6 DEF Restarted
<1>. HIDE DEF u
<1>8. Leaves(h.echoes)
  BY <1>2, <1>3, <1>4, <1>5, <1>7, UnchangedFollows, SendsLeaves
<1>. QED BY <1>3, <1>8, Unpacked, LeavesInvariant

\* An agent that is new or used again has the initial window.
LEMMA FreshGood ==
    ASSUME NEW count \in Nat, NEW pipectrl \in BOOLEAN
    PROVE  Fresh(count, pipectrl) \in WindowRecord /\ Good(Fresh(count, pipectrl))
<1>1. Wnd \in Nat /\ Wnd >= 2
  BY CongestionAssumption
<1>2. /\ Fresh(count, pipectrl) \in WindowRecord
      /\ Fresh(count, pipectrl).cwnd_ = Unit * InitWindow
      /\ Fresh(count, pipectrl).ssthresh_ = Wnd
  BY <1>1, Limits DEF Fresh, WindowRecord, initial_window
<1>. QED BY <1>1, <1>2, InitialGood

\* The agent used again keeps its estimate and what it has counted.
LEMMA NewConnectionStep ==
    ASSUME IInv, NEW k \in Messages, NewConnection(k) PROVE IInv' /\ Followed
<1> DEFINE x == [e EXCEPT !.maxseq = Largest(@, 1)]
<1>1. k \in Nat
  BY CongestionAssumption
<1>2. w.count_ \in Nat /\ w.pipectrl_ \in BOOLEAN /\ e.maxseq \in Nat
  BY Unpacked DEF WindowRecord, EstimateRecord
<1>3. /\ x \in EstimateRecord
      /\ x.alpha = e.alpha /\ x.total = e.total /\ x.marked = e.marked
  BY <1>2, Unpacked DEF EstimateRecord, Largest
<1>4. /\ w' = Fresh(w.count_, w.pipectrl_) /\ s' = Connecting(k) /\ e' = x
      /\ h' = [h EXCEPT !.connections = @ + 1, !.cut = 0, !.lost = 0]
      /\ opened' = FALSE /\ agent' = agent
  BY DEF NewConnection
<1>. HIDE DEF x
<1>5. Follows(x, h.echoes)
  BY <1>3, UnchangedFollows, KeepsFollowing
<1>6. w' \in WindowRecord /\ Good(w')
  BY <1>2, <1>4, FreshGood
<1>7. s' \in NumbersRecord
  BY <1>1, <1>4 DEF Connecting, NumbersRecord
<1>8. h' \in HistoryRecord /\ h'.echoes = h.echoes
  <2>1. h.connections + 1 \in Nat
    BY Unpacked DEF HistoryRecord
  <2>. QED BY <1>4, <2>1, Unpacked DEF HistoryRecord
<1>9. Leaves(h.echoes)
  BY <1>4, <1>5, <1>6, <1>7 DEF Leaves
<1>. QED BY <1>4, <1>8, <1>9, Unpacked, LeavesInvariant

\* Every step of the agent, whatever arrives.
LEMMA StepKeeps == ASSUME IInv, [Next]_vars PROVE IInv' /\ Followed
<1>1. CASE Next
  BY <1>1, SynAckStep, AckStep, OldAckStep, CountDupStep, RecoverStep, ExtraAckStep,
     TimeoutStep, NewMessageStep, NewConnectionStep DEF Next
<1>2. CASE UNCHANGED vars
  <2>1. IInv'
    BY <1>2 DEF vars, IInv, TypeOK, WindowInRange, Counts
  <2>2. e' = e /\ Follows(e, h.echoes)
    BY <1>2, UnchangedFollows DEF vars
  <2>3. Followed
    BY <1>2, <2>2 DEF Followed, Follows, vars
  <2>. QED BY <2>1, <2>3
<1>. QED BY <1>1, <1>2

\* A new agent.
LEMMA InitKeeps == ASSUME Init PROVE IInv
<1>1. agent \in Agents /\ opened = FALSE /\ w = Fresh(0, FALSE) /\ e.total = 0
      /\ \E k \in Messages : s = Connecting(k)
  BY DEF Init
<1>2. w \in WindowRecord /\ Good(w)
  <2>1. 0 \in Nat /\ FALSE \in BOOLEAN
    OBVIOUS
  <2>2. Fresh(0, FALSE) \in WindowRecord /\ Good(Fresh(0, FALSE))
    BY <2>1, FreshGood
  <2>. QED BY <1>1, <2>2
<1>3. s \in NumbersRecord
  BY <1>1, CongestionAssumption DEF Connecting, NumbersRecord
<1>4. e \in EstimateRecord /\ e.marked <= e.total
  BY CongestionAssumption DEF Init, EstimateRecord
<1>5. h \in HistoryRecord
  BY DEF Init, HistoryRecord
<1>6. Counts
  BY <1>1 DEF Counts
<1>. QED BY <1>1, <1>2, <1>3, <1>4, <1>5, <1>6 DEF IInv, TypeOK, WindowInRange, Good

\* The strengthened invariant of the agent.
THEOREM Invariant == Spec => []IInv
BY InitKeeps, StepKeeps, PTL DEF Spec

\* The variables of the window and of the estimate keep their types, for every
\* order of acknowledgements, echoes and timeouts.
THEOREM TypeCorrect == Spec => []TypeOK
<1>1. IInv => TypeOK
  BY DEF IInv
<1>. QED BY <1>1, Invariant, PTL

\* The window always lets a segment out and, but for Reno's inflation, never
\* passes maxcwnd_ by a whole segment.
THEOREM WindowStaysInRange == Spec => []WindowInRange
<1>1. IInv => WindowInRange
  BY DEF IInv
<1>. QED BY <1>1, Invariant, PTL

\* The estimate rises only in a window with an echo, and falls only in one with
\* an acknowledgement without.
THEOREM EstimateFollowsEchoes == Spec => AlphaFollowsEchoes
<1>1. IInv /\ [Next]_vars
        => [/\ e'.alpha > e.alpha => TRUE \in h'.echoes
            /\ e'.alpha < e.alpha => FALSE \in h'.echoes]_vars
  BY StepKeeps DEF Followed
<1>. QED BY <1>1, Invariant, PTL DEF Spec, AlphaFollowsEchoes

------------------------------------------------------------------------------
(***************************************************************************)
(* What was sent at the last cut and at the last estimate.  The agent does *)
(* not remember that; the history h does, and the invariant relates it to  *)
(* what the agent remembers instead: recover_ and the action behind it for *)
(* a cut (CutNoted), recalc_seq for an estimate (EstimateNoted).           *)
(***************************************************************************)

Numbers ==
    /\ s.highest_ack_ <= s.maxseq_ /\ s.t_seqno_ <= s.maxseq_ /\ s.maxseq_ >= 1
    /\ w.recover_ <= s.maxseq_

\* The next cut waits for all that was sent at the last one.
CutNoted ==
    agent \in Sack => /\ h.cut <= w.recover_
                      /\ w.action_ = "TIMEOUT" => h.cut = 0

Unopened == ~opened => w.cwnd_ <= initial_window /\ s.highest_ack_ = 0

\* So does the next estimate, but for what was sent before a timeout.
EstimateNoted ==
    h.connections = 1 =>
        /\ e.recalc_seq <= h.sent /\ s.highest_ack_ <= h.sent
        /\ h.sent <= s.maxseq_ /\ e.maxseq <= s.maxseq_
        /\ s.maxseq_ <= Largest(e.maxseq, h.lost)
        /\ h.sent <= Largest(e.recalc_seq, h.lost)

HistoryInv == IInv /\ h.connections >= 1 /\ Numbers /\ CutNoted /\ Unopened /\ EstimateNoted

\* Steps of which OneCutPerWindow, EstimatePerWindow and DeflatedAfterRecovery
\* are true.
CutOnce ==
    agent \in Sack /\ opened /\ s'.highest_ack_ > s.highest_ack_ /\ Cut
      => s'.highest_ack_ > h.cut /\ 2 * w'.cwnd_ >= windowd(w) - 1

EstimateTaken ==
    h.connections = 1 /\ s'.highest_ack_ > s.highest_ack_
      => /\ s'.highest_ack_ > h.sent => e'.total = 0
         /\ e'.total = 0 => s'.highest_ack_ > h.sent \/ s.highest_ack_ < h.lost

Deflates ==
    agent = "reno" /\ w.fastrecov_ /\ ~w'.fastrecov_ => w'.cwnd_ <= Unit * (w'.ssthresh_ + 1)

Promised == CutOnce /\ EstimateTaken /\ Deflates

\* A cut sets the window and its threshold, nothing else that matters here.
LEMMA SlowdownFields ==
    ASSUME NEW v \in WindowRecord, NEW how, NEW b
    PROVE  LET u == slowdown(v, how, b)
           IN /\ u.recover_ = v.recover_ /\ u.action_ = v.action_
              /\ u.fastrecov_ = v.fastrecov_ /\ u.count_ = 0
BY DEF slowdown, WindowRecord

\* A cut for an echo leaves the part that the penalty says.
LEMMA EcnSlowdown ==
    ASSUME NEW v \in WindowRecord, NEW b
    PROVE  LET u == slowdown(v, {"CLOSE_SSTHRESH_ECNHAT", "CLOSE_CWND_ECNHAT"}, b)
           IN /\ u.cwnd_ = Largest(Unit, Reduced(v, b))
              /\ u.ssthresh_ = Largest(2, Reduced(v, b) \div Unit)
BY DEF slowdown, WindowRecord

\* An opened window has grown by a segment at most, or the limit has taken a part
\* of a segment off; it has not grown past its threshold when it was just cut.
LEMMA OpencwndFields ==
    ASSUME NEW v \in WindowRecord, v.cwnd_ >= Unit, NEW lldct \in BOOLEAN, NEW weight
    PROVE  LET u == opencwnd(v, lldct, weight)
           IN /\ u.recover_ = v.recover_ /\ u.action_ = v.action_
              /\ u.fastrecov_ = v.fastrecov_ /\ u.ssthresh_ = v.ssthresh_
              /\ u.cwnd_ \in Nat /\ u.cwnd_ <= v.cwnd_ + Unit
              /\ u.cwnd_ >= Least(v.cwnd_, Unit * MaxCwnd)
              /\ ~lldct /\ v.count_ = 0 /\ v.cwnd_ >= Unit * v.ssthresh_ /\ v.cwnd_ > Unit
                   => u.cwnd_ <= v.cwnd_
<1> DEFINE n == v.count_ + (IF lldct THEN 2 ELSE 1)
           more == \/ v.cwnd_ < Unit * v.ssthresh_
                   \/ lldct /\ Unit * (v.count_ + 1) * weight >= v.cwnd_ * MaxWeight
                   \/ Unit * n >= v.cwnd_
           grown == IF more THEN v.cwnd_ + Unit ELSE v.cwnd_
           count == CASE v.cwnd_ < Unit * v.ssthresh_ -> v.count_
                      [] more -> 0
                      [] OTHER -> n
           r == [v EXCEPT !.cwnd_ = Capped(grown), !.count_ = count]
<1>1. v.cwnd_ \in Nat /\ Unit \in Nat /\ Unit > 0 /\ v.ssthresh_ \in Nat
  BY CongestionAssumption DEF WindowRecord
<1>2. ~lldct /\ v.count_ = 0 /\ v.cwnd_ >= Unit * v.ssthresh_ /\ v.cwnd_ > Unit => ~more
  <2>1. Unit * 1 = Unit /\ 0 + 1 = 1 /\ Unit * v.ssthresh_ \in Nat
    BY <1>1
  <2>. SUFFICES ASSUME ~lldct, v.count_ = 0, v.cwnd_ >= Unit * v.ssthresh_, v.cwnd_ > Unit
                PROVE  ~more
    OBVIOUS
  <2>2. n = 1
    BY <2>1
  <2>. HIDE DEF n
  <2>. QED BY <1>1, <2>1, <2>2
<1>. HIDE DEF n, more
<1>3. grown \in Nat /\ grown >= v.cwnd_ /\ grown <= v.cwnd_ + Unit /\ (~more => grown = v.cwnd_)
  BY <1>1
<1>. HIDE DEF grown, count
<1>4. Capped(grown) \in Nat /\ Capped(grown) <= grown /\ Capped(grown) >= Least(grown, Unit * MaxCwnd)
  <2>1. Unit * MaxCwnd \in Nat /\ Unit * MaxCwnd < Unit * (MaxCwnd + 1) /\ MaxCwnd \in Nat
        /\ MaxCwnd + 1 \in Nat /\ Unit \in Nat \ {0}
    BY Limits, CongestionAssumption
  <2>2. CASE grown \div Unit > MaxCwnd
    <3>1. ~(grown <= Unit * MaxCwnd)
      <4>1. grown <= Unit * MaxCwnd => grown \div Unit <= MaxCwnd
        BY <1>3, <2>1, DivAtMost
      <4>. QED BY <4>1, <2>2, <1>3, <2>1, DivNat
    <3>. QED BY <3>1, <2>1, <2>2, <1>3 DEF Capped, Least
  <2>3. CASE ~(grown \div Unit > MaxCwnd)
    BY <2>1, <2>3, <1>3 DEF Capped, Least
  <2>. QED BY <2>2, <2>3
<1>5. /\ r.cwnd_ = Capped(grown) /\ r.recover_ = v.recover_ /\ r.action_ = v.action_
      /\ r.fastrecov_ = v.fastrecov_ /\ r.ssthresh_ = v.ssthresh_
  BY DEF WindowRecord
<1>6. r = opencwnd(v, lldct, weight)
  BY DEF opencwnd, r, count, grown, more, n
<1>7. Unit * MaxCwnd \in Nat
  BY Limits
<1>8. Least(grown, Unit * MaxCwnd) >= Least(v.cwnd_, Unit * MaxCwnd)
  BY <1>1, <1>3, <1>7 DEF Least
<1>9. Least(grown, Unit * MaxCwnd) \in Nat /\ Least(v.cwnd_, Unit * MaxCwnd) \in Nat
  BY <1>1, <1>3, <1>7 DEF Least
<1>. HIDE DEF r
<1>. QED BY <1>1, <1>2, <1>3, <1>4, <1>5, <1>6, <1>8, <1>9

\* A cut leaves half of the window at least.
LEMMA ReducedHalf ==
    ASSUME NEW v \in WindowRecord, NEW b \in 0 .. One
    PROVE  Reduced(v, b) \in Nat /\ 2 * Reduced(v, b) >= windowd(v) - 1
<1> DEFINE d == 2 * One
           n == windowd(v)
           k == n \div 2
<1>1. n \in Nat /\ Reduced(v, b) \in Nat
  BY WindowdRange, ReducedRange
<1>2. d \in Nat \ {0} /\ d - b \in Nat /\ One <= d - b /\ One \in Nat
  BY CongestionAssumption
<1>. HIDE DEF n
<1>3. k \in Nat /\ 2 * k <= n /\ n <= 2 * k + 1
  BY <1>1
<1>4. One * (2 * k) = d * k
  BY <1>2, <1>3
<1>. HIDE DEF d, k
<1>5. One * (2 * k) <= One * n /\ n * One <= n * (d - b) /\ (d - b) * n \in Nat
  BY <1>1, <1>2, <1>3, TimesMonotone
<1>6. n * One = One * n /\ n * (d - b) = (d - b) * n /\ n * (d - b) \in Nat /\ One * n \in Nat
      /\ d * k \in Nat
  BY <1>1, <1>2, <1>3
<1>7. d * k <= (d - b) * n
  BY <1>4, <1>5, <1>6
<1>8. k <= ((d - b) * n) \div d
  BY <1>2, <1>3, <1>6, <1>7, DivAtLeast
<1>9. Reduced(v, b) = ((d - b) * n) \div d
  BY DEF Reduced, d, n
<1>. QED BY <1>1, <1>3, <1>8, <1>9 DEF n

\* What is sent raises both largest numbers alike.
LEMMA SendsNumbers ==
    ASSUME NEW v \in WindowRecord, NEW q \in NumbersRecord, NEW x \in EstimateRecord,
           q.t_seqno_ <= q.maxseq_, Sends(v, q, x) \/ Stays(v, q, x)
    PROVE  /\ w' = v /\ s'.highest_ack_ = q.highest_ack_
           /\ s'.t_seqno_ <= s'.maxseq_ /\ q.maxseq_ <= s'.maxseq_
           /\ s'.maxseq_ \in Nat /\ e'.maxseq \in Nat
           /\ e'.recalc_seq = x.recalc_seq /\ e'.total = x.total
           /\ x.maxseq <= q.maxseq_ => e'.maxseq <= s'.maxseq_
           /\ \A m \in Nat : q.maxseq_ <= Largest(x.maxseq, m) => s'.maxseq_ <= Largest(e'.maxseq, m)
<1>0. /\ q.t_seqno_ \in Nat /\ q.curseq_ \in Nat /\ q.highest_ack_ \in Nat
      /\ q.maxseq_ \in Nat /\ x.maxseq \in Nat
  BY DEF NumbersRecord, EstimateRecord
<1>1. CASE Stays(v, q, x)
  BY <1>0, <1>1 DEF Stays
<1>2. CASE Sends(v, q, x)
  <2>1. PICK t \in SendsTo(v, q) :
            /\ w' = v
            /\ s' = [q EXCEPT !.t_seqno_ = t, !.maxseq_ = Largest(@, t)]
            /\ e' = IF t > q.t_seqno_ THEN [x EXCEPT !.maxseq = Largest(@, t)] ELSE x
    BY <1>2 DEF Sends
  <2>2. window(v) \in Nat
    BY WindowdRange, DivNat, CongestionAssumption DEF window
  <2>3. t \in Nat /\ t >= q.t_seqno_
    BY <2>1, <1>0, <2>2 DEF SendsTo, Largest, Least
  <2>4. /\ s'.highest_ack_ = q.highest_ack_ /\ s'.t_seqno_ = t
        /\ s'.maxseq_ = Largest(q.maxseq_, t)
    BY <2>1 DEF NumbersRecord
  <2>5. /\ e'.recalc_seq = x.recalc_seq /\ e'.total = x.total
        /\ e'.maxseq = IF t > q.t_seqno_ THEN Largest(x.maxseq, t) ELSE x.maxseq
    BY <2>1 DEF EstimateRecord
  <2>6. Largest(q.maxseq_, t) = IF q.maxseq_ > t THEN q.maxseq_ ELSE t
    BY DEF Largest
  <2>7. \A m \in Nat : q.maxseq_ <= Largest(x.maxseq, m) => s'.maxseq_ <= Largest(e'.maxseq, m)
    BY <1>0, <2>3, <2>4, <2>5 DEF Largest
  <2>8. /\ s'.t_seqno_ <= s'.maxseq_ /\ q.maxseq_ <= s'.maxseq_
        /\ s'.maxseq_ \in Nat /\ e'.maxseq \in Nat
        /\ x.maxseq <= q.maxseq_ => e'.maxseq <= s'.maxseq_
    BY <1>0, <2>3, <2>4, <2>5 DEF Largest
  <2>. QED BY <2>1, <2>4, <2>5, <2>7, <2>8
<1>. QED BY <1>1, <1>2

\* The estimate is taken when an acknowledgement passes recalc_seq, and then waits
\* for what has been sent (tcp.cc:1571).
LEMMA UpdateNoted ==
    ASSUME TypeOK, NEW ackno \in Nat, NEW echo \in BOOLEAN
    PROVE  LET x == update_ecnhat_alpha(ackno, echo)
           IN /\ x.maxseq = e.maxseq
              /\ x.total = 0 <=> ackno > e.recalc_seq
              /\ x.recalc_seq = IF ackno > e.recalc_seq THEN e.maxseq ELSE e.recalc_seq
<1> DEFINE bytes == Largest(ackno - s.highest_ack_, 1)
           c == counted(e, bytes, echo)
<1>1. bytes \in Nat /\ bytes >= 1
  BY DEF TypeOK, NumbersRecord, Largest
<1>2. e \in EstimateRecord /\ e.total \in Nat
  BY DEF TypeOK, EstimateRecord
<1>. HIDE DEF bytes
<1>3. /\ c.total = e.total + bytes /\ c.maxseq = e.maxseq /\ c.recalc_seq = e.recalc_seq
      /\ DOMAIN c = DOMAIN e
  BY <1>2 DEF counted, EstimateRecord
<1>. HIDE DEF c
<1>4. /\ estimated(c).total = 0 /\ estimated(c).maxseq = c.maxseq
      /\ estimated(c).recalc_seq = c.maxseq
  BY <1>2, <1>3 DEF estimated, EstimateRecord
<1>5. c.total # 0
  BY <1>1, <1>2, <1>3
<1>6. update_ecnhat_alpha(ackno, echo) = IF ackno > e.recalc_seq THEN estimated(c) ELSE c
  BY DEF update_ecnhat_alpha, c, bytes
<1>. QED BY <1>3, <1>4, <1>5, <1>6

\* An acknowledgement and what it makes the agent send: q are the numbers and y the
\* estimate with which it sends.
LEMMA AckNoted ==
    ASSUME HistoryInv, NEW ackno \in Nat, NEW echo \in BOOLEAN,
           NEW v \in WindowRecord, NEW q \in NumbersRecord, NEW y \in EstimateRecord,
           NEW x \in EstimateRecord, x = update_ecnhat_alpha(ackno, echo),
           y.recalc_seq = x.recalc_seq, y.total = x.total,
           x.maxseq <= y.maxseq, y.maxseq <= Largest(x.maxseq, s.maxseq_),
           ackno <= s.maxseq_, q.highest_ack_ = Largest(s.highest_ack_, ackno),
           q.maxseq_ = s.maxseq_, q.t_seqno_ <= s.maxseq_, v.recover_ <= s.maxseq_,
           Sends(v, q, y) \/ Stays(v, q, y), Remember(echo)
    PROVE  /\ h'.connections = h.connections /\ w' = v /\ s'.highest_ack_ = q.highest_ack_
           /\ h'.cut = IF Cut THEN s.maxseq_ ELSE h.cut
           /\ Numbers' /\ EstimateNoted' /\ EstimateTaken
<1>1. /\ TypeOK /\ Numbers /\ EstimateNoted /\ s \in NumbersRecord /\ h \in HistoryRecord
      /\ e \in EstimateRecord /\ v.recover_ \in Nat
  BY Unpacked DEF HistoryInv, WindowRecord
<1>2. /\ x.maxseq = e.maxseq
      /\ x.total = 0 <=> ackno > e.recalc_seq
      /\ x.recalc_seq = IF ackno > e.recalc_seq THEN e.maxseq ELSE e.recalc_seq
  BY <1>1, UpdateNoted
<1>3. /\ w' = v /\ s'.highest_ack_ = q.highest_ack_
      /\ s'.t_seqno_ <= s'.maxseq_ /\ s.maxseq_ <= s'.maxseq_
      /\ s'.maxseq_ \in Nat /\ e'.maxseq \in Nat
      /\ e'.recalc_seq = x.recalc_seq /\ e'.total = x.total
      /\ y.maxseq <= s.maxseq_ => e'.maxseq <= s'.maxseq_
      /\ \A m \in Nat : s.maxseq_ <= Largest(y.maxseq, m) => s'.maxseq_ <= Largest(e'.maxseq, m)
  BY SendsNumbers
<1>4. /\ h'.connections = h.connections /\ h'.lost = h.lost
      /\ h'.sent = IF e'.total = 0 THEN s.maxseq_ ELSE h.sent
      /\ h'.cut = IF Cut THEN s.maxseq_ ELSE h.cut
  BY <1>1 DEF Remember, HistoryRecord
<1>5. /\ s.highest_ack_ \in Nat /\ s.maxseq_ \in Nat /\ e.maxseq \in Nat /\ e.recalc_seq \in Nat
      /\ h.sent \in Nat /\ h.lost \in Nat /\ x.maxseq \in Nat /\ y.maxseq \in Nat
  BY <1>1 DEF NumbersRecord, EstimateRecord, HistoryRecord
<1>6. Numbers'
  <2>1. q.highest_ack_ <= s.maxseq_ /\ q.highest_ack_ \in Nat
    BY <1>1, <1>5 DEF Numbers, Largest
  <2>2. w'.recover_ = v.recover_
    BY <1>3
  <2>. QED BY <1>1, <1>3, <1>5, <2>1, <2>2 DEF Numbers
<1>7. EstimateNoted' /\ EstimateTaken
  <2>. SUFFICES ASSUME h.connections = 1 PROVE EstimateNoted' /\ EstimateTaken
    BY <1>4 DEF EstimateNoted, EstimateTaken
  <2>1. /\ e.recalc_seq <= h.sent /\ s.highest_ack_ <= h.sent
        /\ h.sent <= s.maxseq_ /\ e.maxseq <= s.maxseq_
        /\ s.maxseq_ <= Largest(e.maxseq, h.lost)
        /\ h.sent <= Largest(e.recalc_seq, h.lost)
    BY <1>1 DEF EstimateNoted
  <2>2. e'.maxseq <= s'.maxseq_ /\ s'.maxseq_ <= Largest(e'.maxseq, h.lost)
    <3>1. y.maxseq <= s.maxseq_ /\ s.maxseq_ <= Largest(y.maxseq, h.lost)
      BY <1>2, <1>5, <2>1 DEF Largest
    <3>. QED BY <1>3, <1>5, <3>1
  <2>3. CASE ackno > e.recalc_seq
    <3>1. /\ h'.sent = s.maxseq_ /\ e'.recalc_seq = e.maxseq /\ e'.total = 0
      BY <2>3, <1>2, <1>3, <1>4
    <3>2. EstimateNoted'
      BY <3>1, <2>1, <2>2, <1>1, <1>3, <1>4, <1>5 DEF EstimateNoted, Numbers, Largest
    <3>3. EstimateTaken
      BY <3>1, <2>3, <2>1, <1>3, <1>5 DEF EstimateTaken, Largest
    <3>. QED BY <3>2, <3>3
  <2>4. CASE ~(ackno > e.recalc_seq)
    <3>1. /\ h'.sent = h.sent /\ e'.recalc_seq = e.recalc_seq /\ e'.total # 0
      BY <2>4, <1>2, <1>3, <1>4
    <3>2. ackno <= h.sent
      BY <2>4, <2>1, <1>5
    <3>3. EstimateNoted'
      BY <3>1, <3>2, <2>1, <2>2, <1>3, <1>4, <1>5 DEF EstimateNoted, Largest
    <3>4. EstimateTaken
      BY <3>1, <3>2, <2>1, <1>3, <1>5 DEF EstimateTaken, Largest
    <3>. QED BY <3>3, <3>4
  <2>. QED BY <2>3, <2>4
<1>. QED BY <1>3, <1>4, <1>6, <1>7

\* The fields of the window at a loss.
LEMMA DupackFields ==
    ASSUME NEW v \in WindowRecord, Good(v), s \in NumbersRecord, agent \in Agents
    PROVE  LET d == dupack_action(v)
           IN /\ d.recover_ = v.recover_ \/ d.recover_ = s.maxseq_
              /\ d.fastrecov_ = TRUE
              /\ agent \in Sack => d.recover_ = s.maxseq_ /\ d.action_ = "DUPACK"
<1> DEFINE u == [v EXCEPT !.fastrecov_ = TRUE]
<1>1. u \in WindowRecord /\ u.recover_ = v.recover_ /\ u.fastrecov_ = TRUE /\ Good(u)
  <2>1. /\ u \in WindowRecord /\ u.cwnd_ = v.cwnd_ /\ u.ssthresh_ = v.ssthresh_
        /\ u.recover_ = v.recover_ /\ u.fastrecov_ = TRUE
    BY DEF WindowRecord
  <2>. QED BY <2>1, KeepsGood
<1>. HIDE DEF u
<1>2. 0 \in 0 .. One /\ s.maxseq_ \in Nat
  BY CongestionAssumption DEF NumbersRecord
<1>3. \A how : LET f == slowdown(u, how, 0)
               IN f \in WindowRecord /\ f.recover_ = v.recover_ /\ f.fastrecov_ = TRUE
  BY <1>1, <1>2, SlowdownGood, SlowdownFields DEF Good
<1>4. ASSUME NEW f \in WindowRecord
      PROVE  LET g == fast_retransmit(f)
             IN /\ g \in WindowRecord /\ g.recover_ = s.maxseq_ /\ g.action_ = "DUPACK"
                /\ g.fastrecov_ = f.fastrecov_
  BY <1>2 DEF fast_retransmit, WindowRecord
<1>5. \A how : LET g == fast_retransmit(slowdown(u, how, 0))
               IN /\ g \in WindowRecord /\ g.recover_ = s.maxseq_ /\ g.action_ = "DUPACK"
                  /\ g.fastrecov_ = TRUE
  BY <1>3, <1>4
<1>6. CASE agent \in Sack
  <2> DEFINE g == fast_retransmit(slowdown(u, Half, 0))
             r == [g EXCEPT !.pipectrl_ = TRUE]
  <2>1. g \in WindowRecord /\ g.recover_ = s.maxseq_ /\ g.action_ = "DUPACK" /\ g.fastrecov_ = TRUE
    BY <1>5
  <2>2. dupack_action(v) = r
    BY <1>6 DEF dupack_action, u, Sack, SackDupack
  <2>. HIDE DEF g
  <2>3. r.recover_ = s.maxseq_ /\ r.action_ = "DUPACK" /\ r.fastrecov_ = TRUE
    BY <2>1 DEF WindowRecord
  <2>. QED BY <2>2, <2>3
<1>7. CASE agent = "tahoe"
  <2> DEFINE f == slowdown(u, {"CLOSE_CWND_ONE"}, 0)
             r == [f EXCEPT !.action_ = "DUPACK"]
             g == fast_retransmit(slowdown(u, {"CLOSE_SSTHRESH_HALF", "CLOSE_CWND_ONE"}, 0))
  <2>1. f \in WindowRecord /\ f.recover_ = v.recover_ /\ f.fastrecov_ = TRUE
        /\ g.recover_ = s.maxseq_ /\ g.fastrecov_ = TRUE
    BY <1>3, <1>5
  <2>2. dupack_action(v) = IF TahoeEcn(u) THEN r ELSE g
    BY <1>7 DEF dupack_action, u, Sack, TahoeDupack
  <2>. HIDE DEF f, g
  <2>3. r.recover_ = v.recover_ /\ r.fastrecov_ = TRUE
    BY <2>1 DEF WindowRecord
  <2>. QED BY <1>7, <2>1, <2>2, <2>3 DEF Sack
<1>8. CASE agent \in Reno
  <2> DEFINE g == fast_retransmit(slowdown(u, Half, 0))
             r == [g EXCEPT !.cwnd_ = Unit * (g.ssthresh_ + u.dupacks_)]
             k == fast_retransmit(slowdown(u, {"CLOSE_CWND_HALF"}, 0))
  <2>1. g \in WindowRecord /\ g.recover_ = s.maxseq_ /\ g.fastrecov_ = TRUE
        /\ k.recover_ = s.maxseq_ /\ k.fastrecov_ = TRUE
    BY <1>5
  <2>0. agent \notin Sack /\ agent # "tahoe"
    BY <1>8 DEF Reno, Sack
  <2>2. dupack_action(v) = IF u.action_ = "ECN" /\ ~Recovered(u) THEN k ELSE r
    BY <2>0 DEF dupack_action, u, RenoDupack
  <2>. HIDE DEF g, k
  <2>3. r.recover_ = s.maxseq_ /\ r.fastrecov_ = TRUE
    BY <2>1 DEF WindowRecord
  <2>. QED BY <2>0, <2>1, <2>2, <2>3
<1>. QED BY <1>6, <1>7, <1>8, CongestionAssumption DEF Sack, Reno

\* The fields of the window after a timeout.
LEMMA TimeoutFields ==
    ASSUME s \in NumbersRecord, w \in WindowRecord, Good(w)
    PROVE  LET d == timeout_action(w)
           IN /\ d.recover_ = s.maxseq_ /\ d.cwnd_ = Unit /\ d.ssthresh_ \in Nat
<1> DEFINE u == [w EXCEPT !.recover_ = s.maxseq_, !.fastrecov_ = FALSE, !.dupacks_ = 0]
           f == slowdown(u, {"CLOSE_SSTHRESH_HALF", "CLOSE_CWND_RESTART"}, 0)
           g == slowdown(u, {"CLOSE_CWND_ONE"}, 0)
           r == [f EXCEPT !.action_ = "TIMEOUT"]
<1>1. u \in WindowRecord /\ u.recover_ = s.maxseq_
      /\ u.cwnd_ = w.cwnd_ /\ u.ssthresh_ = w.ssthresh_
  BY DEF WindowRecord, NumbersRecord
<1>2. Unit \in Nat /\ 0 \in 0 .. One
  BY CongestionAssumption
<1>3. timeout_action(w) = IF w.action_ = "ECN" THEN g ELSE r
  BY DEF timeout_action
<1>. HIDE DEF u
<1>4. Good(u)
  BY <1>1, KeepsGood
<1>5. f \in WindowRecord /\ g \in WindowRecord
  BY <1>1, <1>2, <1>4, SlowdownGood DEF Good
<1>6. f.recover_ = s.maxseq_ /\ g.recover_ = s.maxseq_
  BY <1>1, SlowdownFields
<1>7. f.cwnd_ = Unit /\ g.cwnd_ = Unit
  BY <1>1, <1>2 DEF slowdown, WindowRecord, Largest
<1>. HIDE DEF f, g
<1>8. r \in WindowRecord /\ r.recover_ = s.maxseq_ /\ r.cwnd_ = Unit
  BY <1>5, <1>6, <1>7 DEF WindowRecord
<1>. HIDE DEF r
<1>. QED BY <1>3, <1>5, <1>6, <1>7, <1>8 DEF WindowRecord

\* r is the window that an echo leaves of v.
EchoOf(r, v, ackno, b) ==
    \/ r = v
    \/ /\ ackno > v.recover_ \/ v.action_ = "TIMEOUT"
       /\ r.recover_ = s.maxseq_ /\ r.action_ = "ECN" /\ r.fastrecov_ = v.fastrecov_
       /\ r.count_ = 0 /\ r.cwnd_ = Largest(Unit, Reduced(v, b))
       /\ r.ssthresh_ = Largest(2, Reduced(v, b) \div Unit)

\* What an echo does to the window that the acknowledgement has left.
LEMMA EchoedFields ==
    ASSUME NEW v \in WindowRecord, Good(v), s \in NumbersRecord,
           NEW ackno, NEW echo \in BOOLEAN, NEW b \in 0 .. One
    PROVE  EchoOf(Echoed(v, ackno, echo, b), v, ackno, b)
<1> DEFINE f == slowdown(v, {"CLOSE_SSTHRESH_ECNHAT", "CLOSE_CWND_ECNHAT"}, b)
           r == [f EXCEPT !.recover_ = s.maxseq_, !.action_ = "ECN"]
<1>1. f \in WindowRecord
  BY SlowdownGood DEF Good
<1>2. /\ f.fastrecov_ = v.fastrecov_ /\ f.count_ = 0
      /\ f.cwnd_ = Largest(Unit, Reduced(v, b))
      /\ f.ssthresh_ = Largest(2, Reduced(v, b) \div Unit)
  BY SlowdownFields, EcnSlowdown
<1>3. Echoed(v, ackno, echo, b)
        = IF echo /\ (ackno > v.recover_ \/ v.action_ = "TIMEOUT") THEN r ELSE v
  BY DEF Echoed, ecn
<1>. HIDE DEF f
<1>4. /\ r.fastrecov_ = f.fastrecov_ /\ r.count_ = f.count_ /\ r.cwnd_ = f.cwnd_
      /\ r.ssthresh_ = f.ssthresh_ /\ r.recover_ = s.maxseq_ /\ r.action_ = "ECN"
  BY <1>1 DEF WindowRecord
<1>. HIDE DEF r
<1>5. EchoOf(v, v, ackno, b)
  BY DEF EchoOf
<1>6. ackno > v.recover_ \/ v.action_ = "TIMEOUT" => EchoOf(r, v, ackno, b)
  BY ONLY <1>2, <1>4 DEF EchoOf
<1>. QED BY ONLY <1>3, <1>5, <1>6

\* The window of an agent that is not in the recovery it leaves partly.
LEMMA AckActionFields ==
    ASSUME NEW v \in WindowRecord, s \in NumbersRecord, NEW partial \in BOOLEAN
    PROVE  LET r == AckAction(v, partial)
           IN /\ r.recover_ = v.recover_ \/ r.recover_ = s.maxseq_
              /\ agent \in Sack => /\ r.recover_ = v.recover_ /\ r.action_ = v.action_
                                   /\ r.cwnd_ = v.cwnd_
              /\ agent = "reno" => /\ r = [Deflated(v) EXCEPT !.fastrecov_ = FALSE,
                                             !.dupacks_ = 0, !.pipectrl_ = FALSE]
<1> DEFINE d == Deflated(v)
           r == [d EXCEPT !.fastrecov_ = FALSE, !.dupacks_ = 0, !.pipectrl_ = FALSE]
           g == [fast_retransmit(v) EXCEPT !.cwnd_ = Unit * v.ssthresh_]
<1>1. AckAction(v, partial) = CASE partial /\ agent \in Sack -> v
                                [] partial /\ agent = "newreno" -> g
                                [] OTHER -> r
  BY DEF AckAction
<1>2. /\ d.recover_ = v.recover_ /\ d.action_ = v.action_ /\ DOMAIN d = DOMAIN v
      /\ agent \notin Reno => d = v
  BY DEF Deflated, WindowRecord
<1>3. g.recover_ = s.maxseq_
  BY DEF fast_retransmit, WindowRecord
<1>. HIDE DEF d
<1>4. /\ r.recover_ = v.recover_ /\ r.action_ = v.action_
      /\ agent \notin Reno => r.cwnd_ = v.cwnd_
  <2>1. /\ r.recover_ = d.recover_ /\ r.action_ = d.action_ /\ r.cwnd_ = d.cwnd_
    BY <1>2 DEF WindowRecord
  <2>. HIDE DEF r
  <2>. QED BY <1>2, <2>1
<1>5. agent \in Sack => agent \notin Reno /\ agent # "newreno"
  BY DEF Sack, Reno
<1>6. agent = "reno" => agent \notin Sack /\ agent # "newreno"
  BY DEF Sack
<1>. HIDE DEF r, g
<1>. QED BY <1>1, <1>3, <1>4, <1>5, <1>6 DEF r, d

\* What a step of a received packet has to show besides AckNoted: a cut is noted in
\* recover_, with another action than that of a timeout.
LEMMA NotesKept ==
    ASSUME HistoryInv, IInv', opened', agent' = agent, h'.connections = h.connections,
           Numbers', EstimateNoted', NEW v \in WindowRecord, w' = v,
           h'.cut = IF Cut THEN s.maxseq_ ELSE h.cut,
           agent \in Sack => \/ v.recover_ = s.maxseq_ /\ v.action_ # "TIMEOUT"
                             \/ v.recover_ = w.recover_ /\ v.action_ = w.action_ /\ ~Cut
    PROVE  HistoryInv'
<1>1. CutNoted /\ h.connections >= 1 /\ Numbers /\ IInv
  BY DEF HistoryInv
<1>2. s.maxseq_ \in Nat /\ w.recover_ \in Nat /\ h.cut \in Nat
  BY <1>1, Unpacked DEF WindowRecord, HistoryRecord
<1>3. CutNoted'
  <2>. SUFFICES ASSUME agent \in Sack
                PROVE  /\ h'.cut <= v.recover_
                       /\ v.action_ = "TIMEOUT" => h'.cut = 0
    BY DEF CutNoted
  <2>1. h.cut <= w.recover_ /\ (w.action_ = "TIMEOUT" => h.cut = 0) /\ w.recover_ <= s.maxseq_
    BY <1>1 DEF CutNoted, Numbers
  <2>2. CASE v.recover_ = s.maxseq_ /\ v.action_ # "TIMEOUT"
    BY <2>1, <2>2, <1>2
  <2>3. CASE v.recover_ = w.recover_ /\ v.action_ = w.action_ /\ ~Cut
    BY <2>1, <2>3
  <2>. QED BY <2>2, <2>3
<1>4. Unopened'
  BY DEF Unopened
<1>. QED BY <1>1, <1>3, <1>4 DEF HistoryInv

\* A step that leaves the window as large as it was has not cut it.
LEMMA Uncut ==
    ASSUME IInv, w'.cwnd_ \in Nat, w'.cwnd_ >= w.cwnd_ PROVE ~Cut
<1>1. w.cwnd_ \in Nat /\ Unit * MaxCwnd \in Nat
  BY Unpacked, Limits DEF WindowRecord
<1>. QED BY <1>1 DEF Cut, Least

\* The SYN/ACK.
LEMMA SynAckPromised == ASSUME HistoryInv, RecvSynAck PROVE HistoryInv' /\ Promised
<1> DEFINE x == update_ecnhat_alpha(1, TRUE)
           y == [x EXCEPT !.burst = TRUE]
           q == [s EXCEPT !.highest_ack_ = 1]
           v == [w EXCEPT !.cwnd_ = initial_window, !.dupacks_ = 0]
<1>0. IInv /\ IInv' /\ Numbers /\ Unopened /\ 1 \in Nat
  BY SynAckStep DEF HistoryInv
<1>1. x \in EstimateRecord /\ x.maxseq \in Nat
  BY <1>0, Unpacked, UpdateFollows DEF Follows, EstimateRecord
<1>. HIDE DEF x
<1>2. y \in EstimateRecord /\ y.recalc_seq = x.recalc_seq /\ y.total = x.total /\ y.maxseq = x.maxseq
  BY <1>1 DEF EstimateRecord
<1>. HIDE DEF y
<1>3. /\ s.highest_ack_ = 0 /\ 1 <= s.maxseq_ /\ w.cwnd_ <= initial_window /\ w.cwnd_ \in Nat
      /\ ~opened /\ s.maxseq_ \in Nat /\ w.recover_ <= s.maxseq_ /\ s.t_seqno_ <= s.maxseq_
  BY <1>0, Unpacked DEF RecvSynAck, Unopened, Numbers, WindowRecord
<1>4. q \in NumbersRecord /\ q.highest_ack_ = 1 /\ q.maxseq_ = s.maxseq_ /\ q.t_seqno_ = s.t_seqno_
  BY <1>0, Unpacked DEF NumbersRecord
<1>5. v \in WindowRecord /\ v.cwnd_ = initial_window /\ v.recover_ = w.recover_
      /\ v.action_ = w.action_ /\ v.fastrecov_ = w.fastrecov_ /\ v.cwnd_ \in Nat
  BY <1>0, Unpacked, Limits DEF WindowRecord, initial_window
<1>6. Sends(v, q, y) /\ Remember(TRUE) /\ opened' /\ agent' = agent
  BY DEF RecvSynAck, x, y, q, v
<1>. HIDE DEF q, v
<1>7. q.highest_ack_ = Largest(s.highest_ack_, 1)
  BY <1>3, <1>4 DEF Largest
<1>8. x.maxseq <= y.maxseq /\ y.maxseq <= Largest(x.maxseq, s.maxseq_)
  BY <1>1, <1>2, <1>3 DEF Largest
<1>9. x = update_ecnhat_alpha(1, TRUE)
  BY DEF x
<1>10. /\ h'.connections = h.connections /\ w' = v /\ s'.highest_ack_ = q.highest_ack_
       /\ h'.cut = IF Cut THEN s.maxseq_ ELSE h.cut
       /\ Numbers' /\ EstimateNoted' /\ EstimateTaken
  BY <1>0, <1>1, <1>2, <1>3, <1>4, <1>5, <1>6, <1>7, <1>8, <1>9, AckNoted
<1>11. ~Cut
  BY <1>0, <1>3, <1>5, <1>10, Uncut
<1>12. HistoryInv'
  BY <1>0, <1>5, <1>6, <1>10, <1>11, NotesKept
<1>13. CutOnce /\ Deflates
  BY <1>3, <1>5, <1>10 DEF CutOnce, Deflates
<1>. QED BY <1>10, <1>12, <1>13 DEF Promised

\* A packet that acknowledges nothing new, q the numbers and y the estimate with
\* which the agent sends: no promise is about it.
LEMMA NothingNew ==
    ASSUME HistoryInv, NEW ackno \in Nat, NEW echo \in BOOLEAN,
           NEW v \in WindowRecord, NEW q \in NumbersRecord, NEW y \in EstimateRecord,
           NEW x \in EstimateRecord, x = update_ecnhat_alpha(ackno, echo),
           y.recalc_seq = x.recalc_seq, y.total = x.total,
           x.maxseq <= y.maxseq, y.maxseq <= Largest(x.maxseq, s.maxseq_),
           ackno <= s.highest_ack_, q.highest_ack_ = s.highest_ack_,
           q.maxseq_ = s.maxseq_, q.t_seqno_ <= s.maxseq_, v.recover_ <= s.maxseq_,
           Sends(v, q, y) \/ Stays(v, q, y), Remember(echo),
           opened, opened' = opened, agent' = agent, IInv',
           w.fastrecov_ => v.fastrecov_,
           agent \in Sack => \/ v.recover_ = s.maxseq_ /\ v.action_ # "TIMEOUT"
                             \/ v.recover_ = w.recover_ /\ v.action_ = w.action_
                                /\ v.cwnd_ >= w.cwnd_
    PROVE  HistoryInv' /\ Promised
<1>0. IInv /\ Numbers
  BY DEF HistoryInv
<1>1. s.highest_ack_ \in Nat /\ s.maxseq_ \in Nat /\ s.highest_ack_ <= s.maxseq_
  BY <1>0, Unpacked DEF Numbers
<1>2. ackno <= s.maxseq_ /\ q.highest_ack_ = Largest(s.highest_ack_, ackno)
  BY <1>1 DEF Largest
<1>3. /\ h'.connections = h.connections /\ w' = v /\ s'.highest_ack_ = q.highest_ack_
      /\ h'.cut = IF Cut THEN s.maxseq_ ELSE h.cut
      /\ Numbers' /\ EstimateNoted' /\ EstimateTaken
  BY <1>2, AckNoted
<1>4. v.cwnd_ \in Nat
  BY DEF WindowRecord
<1>5. v.cwnd_ >= w.cwnd_ => ~Cut
  BY <1>0, <1>3, <1>4, Uncut
<1>6. HistoryInv'
  BY <1>3, <1>5, NotesKept
<1>7. CutOnce /\ Deflates
  BY <1>1, <1>3 DEF CutOnce, Deflates
<1>. QED BY <1>3, <1>6, <1>7 DEF Promised

\* An acknowledgement of what is acknowledged.
LEMMA OldAckPromised ==
    ASSUME HistoryInv, NEW ackno \in 1 .. MaxSeq, NEW echo \in BOOLEAN, OldAck(ackno, echo)
    PROVE  HistoryInv' /\ Promised
<1> DEFINE x == update_ecnhat_alpha(ackno, echo)
           v == [w EXCEPT !.dupacks_ = 0]
<1>0. IInv /\ IInv' /\ Numbers /\ ackno \in Nat
  BY OldAckStep, CongestionAssumption DEF HistoryInv
<1>1. x \in EstimateRecord /\ x.maxseq \in Nat
  BY <1>0, Unpacked, UpdateFollows DEF Follows, EstimateRecord
<1>2. /\ v \in WindowRecord /\ v.cwnd_ = w.cwnd_ /\ v.recover_ = w.recover_
      /\ v.action_ = w.action_ /\ v.fastrecov_ = w.fastrecov_ /\ v.cwnd_ \in Nat
  BY <1>0, Unpacked DEF WindowRecord
<1>3. /\ Sends(v, s, x) /\ Remember(echo) /\ opened /\ opened' = opened /\ agent' = agent
      /\ ackno <= s.highest_ack_
  BY <1>0 DEF OldAck
<1>. HIDE DEF v
<1>4. x.maxseq <= x.maxseq /\ x.maxseq <= Largest(x.maxseq, s.maxseq_) /\ v.cwnd_ >= w.cwnd_
      /\ s \in NumbersRecord /\ s.t_seqno_ <= s.maxseq_ /\ v.recover_ <= s.maxseq_
  BY <1>0, <1>1, <1>2, Unpacked DEF Largest, Numbers
<1>. HIDE DEF x
<1>5. x = update_ecnhat_alpha(ackno, echo)
  BY DEF x
<1>. QED BY <1>0, <1>1, <1>2, <1>3, <1>4, <1>5, NothingNew

\* The window that has counted a duplicate, and the estimate that has counted its
\* bytes.
LEMMA CountedDup ==
    ASSUME HistoryInv, NEW echo \in BOOLEAN
    PROVE  LET v == [w EXCEPT !.dupacks_ = @ + 1]
               x == update_ecnhat_alpha(s.highest_ack_, echo)
           IN /\ v \in WindowRecord /\ Good(v) /\ v.cwnd_ = w.cwnd_ /\ v.cwnd_ \in Nat
              /\ v.recover_ = w.recover_ /\ v.action_ = w.action_
              /\ v.fastrecov_ = w.fastrecov_ /\ w.recover_ <= s.maxseq_
              /\ x \in EstimateRecord /\ x.maxseq \in Nat
              /\ x.maxseq <= x.maxseq /\ x.maxseq <= Largest(x.maxseq, s.maxseq_)
              /\ s \in NumbersRecord /\ s.t_seqno_ <= s.maxseq_ /\ s.maxseq_ \in Nat
              /\ s.highest_ack_ \in Nat /\ s.highest_ack_ <= s.highest_ack_
<1> DEFINE v == [w EXCEPT !.dupacks_ = @ + 1]
           x == update_ecnhat_alpha(s.highest_ack_, echo)
<1>0. IInv /\ Numbers
  BY DEF HistoryInv
<1>1. x \in EstimateRecord /\ x.maxseq \in Nat
  BY <1>0, Unpacked, UpdateFollows DEF Follows, EstimateRecord
<1>2. /\ v \in WindowRecord /\ v.cwnd_ = w.cwnd_ /\ v.recover_ = w.recover_
      /\ v.action_ = w.action_ /\ v.fastrecov_ = w.fastrecov_ /\ v.cwnd_ \in Nat
  BY <1>0, Unpacked DEF WindowRecord
<1>3. Good(v)
  BY <1>0, CountedDupGood
<1>. HIDE DEF v, x
<1>4. x.maxseq <= x.maxseq /\ x.maxseq <= Largest(x.maxseq, s.maxseq_)
      /\ s \in NumbersRecord /\ s.t_seqno_ <= s.maxseq_ /\ s.maxseq_ \in Nat
      /\ s.highest_ack_ \in Nat /\ s.highest_ack_ <= s.highest_ack_ /\ w.recover_ <= s.maxseq_
  BY <1>0, <1>1, Unpacked DEF Largest, Numbers
<1>. QED BY <1>1, <1>2, <1>3, <1>4 DEF v, x

\* A duplicate that is only counted.
LEMMA CountDupPromised ==
    ASSUME HistoryInv, NEW echo \in BOOLEAN, CountDup(echo) PROVE HistoryInv' /\ Promised
<1> DEFINE v == [w EXCEPT !.dupacks_ = @ + 1]
           x == update_ecnhat_alpha(s.highest_ack_, echo)
<1>1. IInv'
  BY CountDupStep DEF HistoryInv
<1>2. Sends(v, s, x) /\ Remember(echo) /\ opened /\ opened' = opened /\ agent' = agent
  BY DEF CountDup, Dup
<1>. HIDE DEF v
<1>3. /\ v \in WindowRecord /\ v.recover_ = w.recover_ /\ v.action_ = w.action_
      /\ v.fastrecov_ = w.fastrecov_ /\ v.cwnd_ >= w.cwnd_ /\ v.recover_ <= s.maxseq_
  BY CountedDup DEF v
<1>. HIDE DEF x
<1>4. /\ x \in EstimateRecord /\ x.maxseq <= x.maxseq /\ x.maxseq <= Largest(x.maxseq, s.maxseq_)
      /\ s \in NumbersRecord /\ s.t_seqno_ <= s.maxseq_ /\ s.highest_ack_ \in Nat
      /\ s.highest_ack_ <= s.highest_ack_
  BY CountedDup DEF x
<1>5. x = update_ecnhat_alpha(s.highest_ack_, echo)
  BY DEF x
<1>. QED BY <1>1, <1>2, <1>3, <1>4, <1>5, NothingNew

\* A further duplicate.
LEMMA ExtraAckPromised ==
    ASSUME HistoryInv, NEW echo \in BOOLEAN, ExtraAck(echo) PROVE HistoryInv' /\ Promised
<1> DEFINE v == [w EXCEPT !.dupacks_ = @ + 1]
           g == [v EXCEPT !.cwnd_ = @ + Unit]
           u == IF agent \in Reno THEN g ELSE v
           x == update_ecnhat_alpha(s.highest_ack_, echo)
<1>1. IInv'
  BY ExtraAckStep DEF HistoryInv
<1>2. Sends(u, s, x) /\ Remember(echo) /\ opened /\ opened' = opened /\ agent' = agent
  BY DEF ExtraAck, Dup
<1>. HIDE DEF v
<1>3. /\ v \in WindowRecord /\ v.recover_ = w.recover_ /\ v.action_ = w.action_
      /\ v.fastrecov_ = w.fastrecov_ /\ v.cwnd_ >= w.cwnd_ /\ v.recover_ <= s.maxseq_
  BY CountedDup DEF v
<1>4. Unit \in Nat /\ v.cwnd_ \in Nat
  BY <1>3, CongestionAssumption DEF WindowRecord
<1>5. /\ g \in WindowRecord /\ g.recover_ = w.recover_ /\ g.fastrecov_ = w.fastrecov_
  BY <1>3, <1>4 DEF WindowRecord
<1>. HIDE DEF g
<1>6. agent \in Sack => agent \notin Reno
  BY DEF Sack, Reno
<1>7. agent \in Sack => \/ u.recover_ = s.maxseq_ /\ u.action_ # "TIMEOUT"
                        \/ u.recover_ = w.recover_ /\ u.action_ = w.action_
                           /\ u.cwnd_ >= w.cwnd_
  BY <1>3, <1>5, <1>6
<1>. HIDE DEF u, x
<1>8. /\ x \in EstimateRecord /\ x.maxseq <= x.maxseq /\ x.maxseq <= Largest(x.maxseq, s.maxseq_)
      /\ s \in NumbersRecord /\ s.t_seqno_ <= s.maxseq_ /\ s.highest_ack_ \in Nat
      /\ s.highest_ack_ <= s.highest_ack_
  BY CountedDup DEF x
<1>9. x = update_ecnhat_alpha(s.highest_ack_, echo)
  BY DEF x
<1>10. u \in WindowRecord /\ u.recover_ <= s.maxseq_ /\ (w.fastrecov_ => u.fastrecov_)
  BY <1>3, <1>5 DEF u
<1>. QED BY <1>1, <1>2, <1>7, <1>8, <1>9, <1>10, NothingNew

\* The duplicate that starts a recovery: a loss notes what was sent, or leaves what
\* the cut before it has noted.
LEMMA RecoverPromised ==
    ASSUME HistoryInv, NEW echo \in BOOLEAN, Recover(echo) PROVE HistoryInv' /\ Promised
<1> DEFINE v == [w EXCEPT !.dupacks_ = @ + 1]
           x == update_ecnhat_alpha(s.highest_ack_, echo)
           y == Resends(x)
           back == [s EXCEPT !.t_seqno_ = s.highest_ack_]
           f == [v EXCEPT !.fastrecov_ = TRUE]
           d == dupack_action(v)
<1>0. IInv /\ IInv' /\ agent \in Agents
  BY RecoverStep, Unpacked DEF HistoryInv
<1>1. /\ Stays(f, s, x) \/ Sends(d, s, y) \/ Stays(d, s, y) \/ Sends(d, back, x)
         \/ Stays(d, back, x)
      /\ Remember(echo) /\ opened /\ opened' = opened /\ agent' = agent
      /\ s.highest_ack_ < s.maxseq_
  BY DEF Recover, Dup
<1>. HIDE DEF v
<1>2. /\ v \in WindowRecord /\ Good(v) /\ v.recover_ = w.recover_ /\ v.action_ = w.action_
      /\ v.fastrecov_ = w.fastrecov_ /\ v.cwnd_ = w.cwnd_ /\ v.cwnd_ \in Nat
      /\ w.recover_ <= s.maxseq_
  BY CountedDup DEF v
<1>. HIDE DEF x
<1>3. /\ x \in EstimateRecord /\ x.maxseq \in Nat
      /\ x.maxseq <= x.maxseq /\ x.maxseq <= Largest(x.maxseq, s.maxseq_)
      /\ s \in NumbersRecord /\ s.t_seqno_ <= s.maxseq_ /\ s.maxseq_ \in Nat
      /\ s.highest_ack_ \in Nat /\ s.highest_ack_ <= s.highest_ack_
  BY CountedDup DEF x
<1>4. x = update_ecnhat_alpha(s.highest_ack_, echo)
  BY DEF x
<1>5. /\ y \in EstimateRecord /\ y.recalc_seq = x.recalc_seq /\ y.total = x.total
      /\ y.maxseq = Largest(x.maxseq, s.highest_ack_ + 1)
  <2>1. Largest(x.maxseq, s.highest_ack_ + 1) \in Nat
    BY <1>3 DEF Largest
  <2>. QED BY <1>3, <2>1 DEF Resends, EstimateRecord
<1>6. /\ back \in NumbersRecord /\ back.highest_ack_ = s.highest_ack_
      /\ back.maxseq_ = s.maxseq_ /\ back.t_seqno_ = s.highest_ack_
  BY <1>3 DEF NumbersRecord
<1>7. /\ f \in WindowRecord /\ f.cwnd_ = v.cwnd_ /\ f.recover_ = v.recover_
      /\ f.action_ = v.action_ /\ f.fastrecov_ = TRUE
  BY <1>2 DEF WindowRecord
<1>8. d \in WindowRecord
  BY <1>0, <1>2, <1>3, DupackGood DEF Good
<1>9. /\ d.recover_ = v.recover_ \/ d.recover_ = s.maxseq_
      /\ d.fastrecov_ = TRUE
      /\ agent \in Sack => d.recover_ = s.maxseq_ /\ d.action_ = "DUPACK"
  BY <1>0, <1>2, <1>3, DupackFields
<1>. HIDE DEF y, f, d, back
<1>10. /\ x.maxseq <= y.maxseq /\ y.maxseq <= Largest(x.maxseq, s.maxseq_)
       /\ back.t_seqno_ <= s.maxseq_
  BY <1>1, <1>3, <1>5, <1>6 DEF Largest
<1>11. /\ f.recover_ <= s.maxseq_ /\ d.recover_ <= s.maxseq_ /\ f.cwnd_ >= w.cwnd_
       /\ w.fastrecov_ => f.fastrecov_
       /\ w.fastrecov_ => d.fastrecov_
  BY <1>2, <1>3, <1>7, <1>9
<1>12. agent \in Sack => d.recover_ = s.maxseq_ /\ d.action_ # "TIMEOUT"
  BY <1>9
<1>13. CASE Stays(f, s, x)
  <2>1. agent \in Sack => f.recover_ = w.recover_ /\ f.action_ = w.action_ /\ f.cwnd_ >= w.cwnd_
    BY <1>2, <1>7, <1>11
  <2>. QED BY <1>0, <1>1, <1>3, <1>4, <1>7, <1>11, <1>13, <2>1, NothingNew
<1>14. CASE Sends(d, s, y) \/ Stays(d, s, y)
  BY <1>0, <1>1, <1>3, <1>4, <1>5, <1>8, <1>10, <1>11, <1>12, <1>14, NothingNew
<1>15. CASE Sends(d, back, x) \/ Stays(d, back, x)
  BY <1>0, <1>1, <1>3, <1>4, <1>6, <1>8, <1>10, <1>11, <1>12, <1>15, NothingNew
<1>. QED BY <1>1, <1>13, <1>14, <1>15

\* A step that receives nothing and raises no acknowledgement keeps two promises.
LEMMA NothingReceived ==
    ASSUME s.highest_ack_ \in Nat, s'.highest_ack_ \in Nat, s'.highest_ack_ <= s.highest_ack_
    PROVE  CutOnce /\ EstimateTaken
BY DEF CutOnce, EstimateTaken

\* A timeout: what was sent is noted as lost.
LEMMA TimeoutPromised == ASSUME HistoryInv, Timeout PROVE HistoryInv' /\ Promised
<1> DEFINE x == Rewound(e)
           q == [s EXCEPT !.t_seqno_ = s.highest_ack_]
           v == timeout_action(w)
<1>0. IInv /\ IInv' /\ Numbers /\ EstimateNoted /\ CutNoted /\ Unopened /\ h.connections >= 1
  BY TimeoutStep DEF HistoryInv
<1>1. /\ s \in NumbersRecord /\ w \in WindowRecord /\ Good(w) /\ h \in HistoryRecord
      /\ e \in EstimateRecord /\ s.highest_ack_ \in Nat /\ s.maxseq_ \in Nat
      /\ s.highest_ack_ <= s.maxseq_ /\ 1 <= s.maxseq_ /\ h.sent \in Nat
  BY <1>0, Unpacked DEF Numbers, HistoryRecord
<1>2. /\ x \in EstimateRecord /\ x.recalc_seq = s.highest_ack_ /\ x.maxseq = s.highest_ack_
  BY <1>1 DEF Rewound, EstimateRecord
<1>3. /\ q \in NumbersRecord /\ q.highest_ack_ = s.highest_ack_ /\ q.maxseq_ = s.maxseq_
      /\ q.t_seqno_ = s.highest_ack_
  BY <1>1 DEF NumbersRecord
<1>4. v \in WindowRecord
  BY <1>1, TimeoutGood DEF Good
<1>5. v.recover_ = s.maxseq_ /\ v.cwnd_ = Unit /\ v.ssthresh_ \in Nat
  BY <1>1, TimeoutFields
<1>6. /\ Sends(v, q, x) /\ h' = [h EXCEPT !.cut = 0, !.lost = s.maxseq_]
      /\ opened' = opened /\ agent' = agent
  BY DEF Timeout
<1>. HIDE DEF x, q, v
<1>7. /\ w' = v /\ s'.highest_ack_ = q.highest_ack_
      /\ s'.t_seqno_ <= s'.maxseq_ /\ q.maxseq_ <= s'.maxseq_
      /\ s'.maxseq_ \in Nat /\ e'.maxseq \in Nat /\ e'.recalc_seq = x.recalc_seq
      /\ x.maxseq <= q.maxseq_ => e'.maxseq <= s'.maxseq_
      /\ \A m \in Nat : q.maxseq_ <= Largest(x.maxseq, m) => s'.maxseq_ <= Largest(e'.maxseq, m)
  BY <1>1, <1>2, <1>3, <1>4, <1>6, SendsNumbers
<1>8. /\ h'.cut = 0 /\ h'.lost = s.maxseq_ /\ h'.connections = h.connections
      /\ h'.sent = h.sent
  BY <1>1, <1>6 DEF HistoryRecord
<1>9. Numbers'
  BY <1>1, <1>3, <1>5, <1>7 DEF Numbers
<1>10. CutNoted'
  BY <1>1, <1>5, <1>7, <1>8 DEF CutNoted
<1>11. Unopened'
  <2>1. Unit <= initial_window
    BY Limits DEF initial_window
  <2>. QED BY <1>0, <1>3, <1>5, <1>6, <1>7, <2>1 DEF Unopened
<1>12. EstimateNoted'
  <2>. SUFFICES ASSUME h.connections = 1 PROVE EstimateNoted'
    BY <1>8 DEF EstimateNoted
  <2>1. s.highest_ack_ <= h.sent /\ h.sent <= s.maxseq_
    BY <1>0 DEF EstimateNoted
  <2>2. s.maxseq_ <= Largest(x.maxseq, s.maxseq_)
    BY <1>1, <1>2 DEF Largest
  <2>3. s'.maxseq_ <= Largest(e'.maxseq, s.maxseq_) /\ e'.maxseq <= s'.maxseq_
    BY <1>1, <1>2, <1>3, <1>7, <2>2
  <2>. QED BY <1>1, <1>2, <1>3, <1>7, <1>8, <2>1, <2>3 DEF EstimateNoted, Largest
<1>13. CutOnce /\ EstimateTaken
  BY <1>1, <1>3, <1>7, NothingReceived
<1>14. Deflates
  <2>1. Unit \in Nat /\ 1 <= v.ssthresh_ + 1 /\ v.ssthresh_ + 1 \in Nat
    BY <1>5, CongestionAssumption
  <2>2. Unit * 1 <= Unit * (v.ssthresh_ + 1)
    BY <2>1, TimesMonotone
  <2>. QED BY <1>5, <1>7, <2>1, <2>2 DEF Deflates
<1>. QED BY <1>0, <1>8, <1>9, <1>10, <1>11, <1>12, <1>13, <1>14 DEF HistoryInv, Promised

\* Another message ends no recovery and leaves what is noted.
LEMMA NewMessagePromised ==
    ASSUME HistoryInv, NEW k \in Messages, NEW idle \in {FALSE, SlowStartRestart},
           NewMessage(k, idle)
    PROVE  HistoryInv' /\ Promised
<1> DEFINE v == [w EXCEPT !.cwnd_ = initial_window]
           q == [s EXCEPT !.curseq_ = @ + k]
           r == slowdown(v, {"CLOSE_CWND_INIT"}, 0)
           u == Restarted(v, idle)
<1>0. IInv /\ IInv' /\ Numbers /\ EstimateNoted /\ CutNoted /\ Unopened /\ h.connections >= 1
  BY NewMessageStep DEF HistoryInv
<1>1. /\ s \in NumbersRecord /\ w \in WindowRecord /\ Good(w) /\ h \in HistoryRecord
      /\ e \in EstimateRecord /\ s.highest_ack_ \in Nat /\ s.maxseq_ \in Nat
      /\ k \in Nat /\ 0 \in 0 .. One /\ h.lost \in Nat /\ s.t_seqno_ \in Nat
      /\ h.sent \in Nat /\ e.maxseq \in Nat /\ w.recover_ \in Nat
  BY <1>0, Unpacked, CongestionAssumption DEF HistoryRecord, EstimateRecord, WindowRecord
<1>2. /\ v \in WindowRecord /\ v.cwnd_ = Unit * InitWindow /\ v.recover_ = w.recover_
      /\ v.action_ = w.action_ /\ v.fastrecov_ = w.fastrecov_ /\ v.ssthresh_ = w.ssthresh_
  BY <1>1, Limits DEF WindowRecord, initial_window
<1>3. /\ q \in NumbersRecord /\ q.highest_ack_ = s.highest_ack_ /\ q.maxseq_ = s.maxseq_
      /\ q.t_seqno_ = s.t_seqno_
  BY <1>1 DEF NumbersRecord
<1>4. /\ IF opened THEN Sends(u, q, e) ELSE Stays(v, q, e)
      /\ UNCHANGED <<agent, opened, h>>
  BY DEF NewMessage
<1>. HIDE DEF v, q
<1>5. Good(v)
  BY <1>1, <1>2, InitialGood DEF Good
<1>6. r \in WindowRecord /\ r.recover_ = w.recover_ /\ r.action_ = w.action_
      /\ r.fastrecov_ = w.fastrecov_
  BY <1>1, <1>2, <1>5, SlowdownGood, SlowdownFields DEF Good
<1>7. u = v \/ u = r
  BY DEF Restarted
<1>. HIDE DEF u, r
<1>8. PICK z \in WindowRecord :
          /\ Sends(z, q, e) \/ Stays(z, q, e)
          /\ z.recover_ = w.recover_ /\ z.action_ = w.action_ /\ z.fastrecov_ = w.fastrecov_
          /\ ~opened => z = v
  BY <1>2, <1>4, <1>6, <1>7
<1>9. q.t_seqno_ <= q.maxseq_ /\ q.t_seqno_ \in Nat /\ q.maxseq_ \in Nat
  BY <1>0, <1>1, <1>3 DEF Numbers
<1>10. /\ w' = z /\ s'.highest_ack_ = q.highest_ack_
       /\ s'.t_seqno_ <= s'.maxseq_ /\ q.maxseq_ <= s'.maxseq_
       /\ s'.maxseq_ \in Nat /\ e'.maxseq \in Nat /\ e'.recalc_seq = e.recalc_seq
       /\ e.maxseq <= q.maxseq_ => e'.maxseq <= s'.maxseq_
       /\ \A m \in Nat : q.maxseq_ <= Largest(e.maxseq, m) => s'.maxseq_ <= Largest(e'.maxseq, m)
  BY <1>1, <1>3, <1>8, <1>9, SendsNumbers
<1>11. Numbers'
  BY <1>0, <1>1, <1>3, <1>8, <1>10 DEF Numbers
<1>12. CutNoted'
  BY <1>0, <1>4, <1>8, <1>10 DEF CutNoted
<1>13. Unopened'
  BY <1>0, <1>2, <1>3, <1>4, <1>8, <1>10, Limits DEF Unopened, initial_window
<1>14. EstimateNoted'
  <2>. SUFFICES ASSUME h.connections = 1 PROVE EstimateNoted'
    BY <1>4 DEF EstimateNoted
  <2>1. /\ e.recalc_seq <= h.sent /\ s.highest_ack_ <= h.sent
        /\ h.sent <= s.maxseq_ /\ e.maxseq <= s.maxseq_
        /\ s.maxseq_ <= Largest(e.maxseq, h.lost)
        /\ h.sent <= Largest(e.recalc_seq, h.lost)
    BY <1>0 DEF EstimateNoted
  <2>2. s'.maxseq_ <= Largest(e'.maxseq, h.lost) /\ e'.maxseq <= s'.maxseq_
    BY <1>1, <1>3, <1>10, <2>1
  <2>3. h.sent <= s'.maxseq_ /\ h' = h
    BY <1>1, <1>3, <1>4, <1>10, <2>1
  <2>. QED BY <1>3, <1>10, <2>1, <2>2, <2>3 DEF EstimateNoted
<1>15. CutOnce /\ EstimateTaken
  BY <1>1, <1>3, <1>10, NothingReceived
<1>16. Deflates
  BY <1>8, <1>10 DEF Deflates
<1>. QED BY <1>0, <1>4, <1>11, <1>12, <1>13, <1>14, <1>15, <1>16 DEF HistoryInv, Promised

\* The agent used again has nothing to remember.
LEMMA NewConnectionPromised ==
    ASSUME HistoryInv, NEW k \in Messages, NewConnection(k) PROVE HistoryInv' /\ Promised
<1>0. IInv /\ IInv' /\ h.connections >= 1
  BY NewConnectionStep DEF HistoryInv
<1>1. /\ h \in HistoryRecord /\ h.connections \in Nat /\ s.highest_ack_ \in Nat
      /\ MaxCwnd \in Nat /\ Wnd \in Nat /\ InitWindow \in Nat /\ InitWindow <= Wnd /\ Unit \in Nat
      /\ k \in Nat
  BY <1>0, Unpacked, CongestionAssumption DEF HistoryRecord
<1>2. /\ w' = Fresh(w.count_, w.pipectrl_) /\ s' = Connecting(k)
      /\ h' = [h EXCEPT !.connections = @ + 1, !.cut = 0, !.lost = 0]
  BY DEF NewConnection
<1>3. h'.connections = h.connections + 1 /\ h'.cut = 0
  BY <1>1, <1>2 DEF HistoryRecord
<1>4. /\ s'.highest_ack_ = 0 /\ s'.t_seqno_ = 1 /\ s'.maxseq_ = 1
  BY <1>2 DEF Connecting
<1>5. /\ w'.cwnd_ = initial_window /\ w'.recover_ = 0 /\ w'.ssthresh_ = Wnd
      /\ w'.action_ = "none"
  BY <1>2 DEF Fresh
<1>6. Numbers' /\ CutNoted'
  BY <1>3, <1>4, <1>5 DEF Numbers, CutNoted
<1>7. Unopened' /\ EstimateNoted'
  <2>1. initial_window \in Nat
    BY Limits DEF initial_window
  <2>2. w'.cwnd_ <= initial_window
    BY <1>5, <2>1
  <2>3. h'.connections # 1 /\ h'.connections >= 1
    BY <1>0, <1>1, <1>3
  <2>. QED BY <1>4, <2>2, <2>3 DEF Unopened, EstimateNoted, initial_window
<1>8. CutOnce /\ EstimateTaken
  BY <1>1, <1>4, NothingReceived
<1>9. Deflates
  <2>1. Unit * InitWindow <= Unit * (Wnd + 1)
    BY <1>1, TimesMonotone
  <2>. QED BY <1>5, <2>1 DEF Deflates, initial_window
<1>10. h'.connections >= 1
  BY <1>0, <1>1, <1>3
<1>. QED BY <1>0, <1>6, <1>7, <1>8, <1>9, <1>10 DEF HistoryInv, Promised

\* A window set back to its threshold, and perhaps cut for an echo, is within a
\* segment of it; and so it is when it is opened then.
LEMMA CutWithinThreshold ==
    ASSUME NEW v \in WindowRecord, NEW r \in Nat,
           v.cwnd_ = Largest(Unit, r), v.ssthresh_ = Largest(2, r \div Unit)
    PROVE  v.cwnd_ <= Unit * (v.ssthresh_ + 1)
<1>1. Unit \in Nat \ {0} /\ v.ssthresh_ \in Nat
  BY CongestionAssumption DEF WindowRecord
<1> DEFINE n == r \div Unit
<1>2. n \in Nat
  BY <1>1, DivNat
<1>3. r <= Unit * (n + 1)
  <2>1. CASE ~(r <= Unit * (n + 1))
    <3>1. Unit * (n + 1) <= r /\ n + 1 \in Nat
      BY <1>1, <1>2, <2>1
    <3>. HIDE DEF n
    <3>2. n + 1 <= r \div Unit
      BY <1>1, <3>1, DivAtLeast
    <3>. QED BY <1>2, <3>2 DEF n
  <2>. QED BY <2>1
<1>. HIDE DEF n
<1>4. n <= v.ssthresh_ /\ 2 <= v.ssthresh_
  BY <1>2 DEF Largest, n
<1>5. Unit * (n + 1) <= Unit * (v.ssthresh_ + 1) /\ Unit * 1 <= Unit * (v.ssthresh_ + 1)
      /\ Unit * (n + 1) \in Nat /\ Unit * (v.ssthresh_ + 1) \in Nat
  BY <1>1, <1>2, <1>4, TimesMonotone
<1>. QED BY <1>1, <1>3, <1>5 DEF Largest

\* The window of Reno after it has left a recovery, echo and growth included.
LEMMA RenoDeflates ==
    ASSUME IInv, agent = "reno", w.fastrecov_, NEW partial \in BOOLEAN,
           NEW ackno, NEW echo \in BOOLEAN, NEW b \in 0 .. One, NEW weight
    PROVE  LET v == Echoed(AckAction(w, partial), ackno, echo, b)
               u == opencwnd(v, FALSE, weight)
           IN v.cwnd_ <= Unit * (v.ssthresh_ + 1) /\ u.cwnd_ <= Unit * (u.ssthresh_ + 1)
<1> DEFINE d == Deflated(w)
           a == AckAction(w, partial)
           v == Echoed(a, ackno, echo, b)
           u == opencwnd(v, FALSE, weight)
<1>. SUFFICES v.cwnd_ <= Unit * (v.ssthresh_ + 1) /\ u.cwnd_ <= Unit * (u.ssthresh_ + 1)
  OBVIOUS
<1>1. w \in WindowRecord /\ Good(w) /\ s \in NumbersRecord
  BY Unpacked
<1>2. Unit \in Nat \ {0} /\ w.cwnd_ \in Nat /\ w.ssthresh_ \in Nat /\ Unit * w.ssthresh_ \in Nat
  BY <1>1, CongestionAssumption DEF WindowRecord
<1>3. a \in WindowRecord /\ Good(a)
  BY <1>1, AckActionGood DEF Good
<1>4. a = [d EXCEPT !.fastrecov_ = FALSE, !.dupacks_ = 0, !.pipectrl_ = FALSE]
  BY <1>1, AckActionFields
<1>5. d.cwnd_ <= Unit * d.ssthresh_ /\ DOMAIN d = DOMAIN w /\ d.ssthresh_ = w.ssthresh_
  BY <1>1, <1>2 DEF Deflated, Reno, WindowRecord
<1>. HIDE DEF d, a
<1>6. a.cwnd_ = d.cwnd_ /\ a.ssthresh_ = d.ssthresh_
  BY <1>1, <1>4, <1>5 DEF WindowRecord
<1>7. v \in WindowRecord /\ Good(v)
  BY <1>1, <1>3, EchoedGood DEF Good
<1>8. \/ v = a
      \/ /\ v.count_ = 0 /\ v.cwnd_ = Largest(Unit, Reduced(a, b))
         /\ v.ssthresh_ = Largest(2, Reduced(a, b) \div Unit)
  <2>1. /\ a \in WindowRecord /\ Good(a)
        /\ s \in NumbersRecord /\ echo \in BOOLEAN /\ b \in 0 .. One
    BY <1>1, <1>3
  <2>2. EchoOf(v, a, ackno, b)
    BY ONLY <2>1, EchoedFields DEF v
  <2>. QED BY ONLY <2>2 DEF EchoOf
<1>. HIDE DEF v
<1>9. /\ u.ssthresh_ = v.ssthresh_ /\ u.cwnd_ \in Nat /\ u.cwnd_ <= v.cwnd_ + Unit
      /\ v.count_ = 0 /\ v.cwnd_ >= Unit * v.ssthresh_ /\ v.cwnd_ > Unit => u.cwnd_ <= v.cwnd_
  BY <1>7, OpencwndFields DEF Good
<1>. HIDE DEF u
<1>10. /\ v.cwnd_ \in Nat /\ v.ssthresh_ \in Nat /\ v.ssthresh_ >= 2
       /\ Unit * v.ssthresh_ \in Nat /\ Unit * (v.ssthresh_ + 1) = Unit * v.ssthresh_ + Unit
  BY <1>2, <1>7 DEF Good, WindowRecord
<1>11. Unit * 2 <= Unit * v.ssthresh_ /\ Unit * 2 > Unit
  BY <1>2, <1>10, TimesMonotone
<1>12. CASE v = a
  BY <1>2, <1>5, <1>6, <1>9, <1>10, <1>12
<1>13. CASE /\ v.count_ = 0 /\ v.cwnd_ = Largest(Unit, Reduced(a, b))
            /\ v.ssthresh_ = Largest(2, Reduced(a, b) \div Unit)
  <2>1. Reduced(a, b) \in Nat
    BY <1>3, ReducedRange
  <2>2. v.cwnd_ <= Unit * (v.ssthresh_ + 1)
    BY <1>7, <1>13, <2>1, CutWithinThreshold
  <2>3. v.cwnd_ >= Unit * v.ssthresh_ => u.cwnd_ <= v.cwnd_
    BY <1>2, <1>9, <1>10, <1>11, <1>13
  <2>4. v.cwnd_ < Unit * v.ssthresh_ => u.cwnd_ <= Unit * (v.ssthresh_ + 1)
    BY <1>2, <1>9, <1>10
  <2>. QED BY <1>2, <1>9, <1>10, <2>2, <2>3, <2>4
<1>. QED BY <1>8, <1>12, <1>13

\* The window of Sack after an acknowledgement: it is cut for an echo alone, when
\* all that was sent at the last cut is acknowledged or a timeout has intervened.
LEMMA SackCuts ==
    ASSUME IInv, agent \in Sack, NEW partial \in BOOLEAN,
           NEW ackno, NEW echo \in BOOLEAN, NEW b \in 0 .. One, NEW weight, NEW opens \in BOOLEAN
    PROVE  LET v == Echoed(AckAction(w, partial), ackno, echo, b)
               u == IF opens THEN opencwnd(v, agent = "lldct", weight) ELSE v
           IN \/ /\ u.recover_ = w.recover_ /\ u.action_ = w.action_
                 /\ ~(u.cwnd_ < Least(w.cwnd_, Unit * MaxCwnd))
              \/ /\ ackno > w.recover_ \/ w.action_ = "TIMEOUT"
                 /\ u.recover_ = s.maxseq_ /\ u.action_ = "ECN"
                 /\ 2 * u.cwnd_ >= windowd(w) - 1
<1> DEFINE a == AckAction(w, partial)
           v == Echoed(a, ackno, echo, b)
           o == opencwnd(v, agent = "lldct", weight)
           u == IF opens THEN o ELSE v
           m == Unit * MaxCwnd
<1>1. w \in WindowRecord /\ Good(w) /\ s \in NumbersRecord
  BY Unpacked
<1>2. a \in WindowRecord /\ Good(a)
  BY <1>1, AckActionGood DEF Good
<1>3. a.recover_ = w.recover_ /\ a.action_ = w.action_ /\ a.cwnd_ = w.cwnd_
  BY <1>1, AckActionFields
<1>. HIDE DEF a
<1>4. v \in WindowRecord /\ Good(v)
  BY <1>1, <1>2, EchoedGood DEF Good
<1>5. \/ v = a
      \/ /\ ackno > a.recover_ \/ a.action_ = "TIMEOUT"
         /\ v.recover_ = s.maxseq_ /\ v.action_ = "ECN" /\ v.cwnd_ = Largest(Unit, Reduced(a, b))
  <2>1. /\ a \in WindowRecord /\ Good(a)
        /\ s \in NumbersRecord /\ echo \in BOOLEAN /\ b \in 0 .. One
    BY <1>1, <1>2
  <2>2. EchoOf(v, a, ackno, b)
    BY ONLY <2>1, EchoedFields DEF v
  <2>. QED BY ONLY <2>2 DEF EchoOf
<1>. HIDE DEF v
<1>6. /\ o.recover_ = v.recover_ /\ o.action_ = v.action_ /\ o.cwnd_ \in Nat
      /\ o.cwnd_ >= Least(v.cwnd_, m)
  BY <1>4, OpencwndFields DEF Good
<1>. HIDE DEF o
<1>7. m \in Nat /\ m >= Unit /\ Unit \in Nat /\ v.cwnd_ \in Nat /\ w.cwnd_ \in Nat
      /\ Unit * (MaxCwnd + 1) = m + Unit
  BY <1>1, <1>4, Limits, CongestionAssumption DEF WindowRecord
<1>. HIDE DEF m
<1>8. /\ u.recover_ = v.recover_ /\ u.action_ = v.action_ /\ u.cwnd_ \in Nat
      /\ u.cwnd_ >= Least(v.cwnd_, m)
  BY <1>6, <1>7 DEF Least
<1>. HIDE DEF u
<1>9. CASE v = a
  <2>1. ~(u.cwnd_ < Least(w.cwnd_, m))
    BY <1>3, <1>7, <1>8, <1>9 DEF Least
  <2>. QED BY <1>3, <1>8, <1>9, <2>1 DEF u, v, o, a, m
<1>10. CASE /\ ackno > a.recover_ \/ a.action_ = "TIMEOUT"
            /\ v.recover_ = s.maxseq_ /\ v.action_ = "ECN" /\ v.cwnd_ = Largest(Unit, Reduced(a, b))
  <2>1. windowd(a) = windowd(w)
    BY <1>3 DEF windowd
  <2>2. Reduced(a, b) \in Nat /\ 2 * Reduced(a, b) >= windowd(w) - 1
    BY <1>2, <2>1, ReducedHalf
  <2>3. windowd(w) <= w.cwnd_ /\ windowd(w) \in Nat
    BY <1>1, WindowdRange
  <2>4. w.cwnd_ < m + Unit
    <3>1. agent \notin Reno
      BY DEF Sack, Reno
    <3>. QED BY <1>1, <1>7, <3>1 DEF Good
  <2>5. 2 * m >= windowd(w) - 1
    BY <1>7, <2>3, <2>4
  <2>6. 2 * v.cwnd_ >= windowd(w) - 1
    BY <1>7, <1>10, <2>2, <2>3 DEF Largest
  <2>7. 2 * u.cwnd_ >= windowd(w) - 1
    BY <1>7, <1>8, <2>3, <2>5, <2>6 DEF Least
  <2>. QED BY <1>3, <1>8, <1>10, <2>7 DEF u, v, o, a
<1>. QED BY <1>5, <1>9, <1>10

\* An acknowledgement of something new.
LEMMA AckPromised ==
    ASSUME HistoryInv, NEW ackno \in 1 .. MaxSeq, NEW echo \in BOOLEAN, RecvAck(ackno, echo)
    PROVE  HistoryInv' /\ Promised
<1> DEFINE partial == pack(ackno)
           x == update_ecnhat_alpha(ackno, echo)
           q == [s EXCEPT !.highest_ack_ = ackno, !.t_seqno_ = Largest(@, ackno)]
           y == IF partial /\ agent = "newreno"
                THEN [x EXCEPT !.maxseq = Largest(@, ackno + 1)] ELSE x
           z == [y EXCEPT !.burst = echo]
           opens == Opens(partial, echo)
<1>0. IInv /\ IInv' /\ Numbers /\ CutNoted /\ ackno \in Nat
  BY AckStep, CongestionAssumption DEF HistoryInv
<1>1. /\ s \in NumbersRecord /\ w \in WindowRecord /\ Good(w) /\ h \in HistoryRecord
      /\ e \in EstimateRecord /\ s.highest_ack_ \in Nat /\ s.maxseq_ \in Nat
      /\ s.t_seqno_ \in Nat /\ s.t_seqno_ <= s.maxseq_ /\ w.recover_ <= s.maxseq_
      /\ w.recover_ \in Nat /\ h.cut \in Nat /\ agent \in Agents
  BY <1>0, Unpacked DEF Numbers, HistoryRecord, WindowRecord
<1>2. partial \in BOOLEAN /\ opens \in BOOLEAN /\ (partial => ackno < s.maxseq_)
  BY <1>0, <1>1 DEF pack, Opens, WindowRecord, EstimateRecord
<1>3. x \in EstimateRecord /\ x.maxseq \in Nat /\ x.alpha \in 0 .. One
  BY <1>0, Unpacked, UpdateFollows DEF Follows, EstimateRecord
<1>4. PICK b \in IF echo THEN Penalty(agent, x.alpha) ELSE {0},
           weight \in IF agent = "lldct" THEN Weights ELSE {MaxWeight} :
          LET v == Echoed(AckAction(w, partial), ackno, echo, b)
          IN Sends(IF Opens(partial, echo) THEN opencwnd(v, agent = "lldct", weight) ELSE v, q, z)
  BY DEF RecvAck
<1> DEFINE a == AckAction(w, partial)
           v == Echoed(a, ackno, echo, b)
           o == opencwnd(v, agent = "lldct", weight)
           u == IF opens THEN o ELSE v
<1>5. Sends(u, q, z)
  BY <1>4
<1>6. /\ ackno > s.highest_ack_ /\ ackno <= s.maxseq_ /\ opened /\ opened' = opened
      /\ agent' = agent /\ Remember(echo)
  BY DEF RecvAck
<1>7. b \in 0 .. One
  BY <1>3, <1>4, CongestionAssumption DEF Penalty, DDPenalty, LldctPenalty, Powers
<1>. HIDE DEF x, opens
<1>8. /\ q \in NumbersRecord /\ q.highest_ack_ = ackno /\ q.maxseq_ = s.maxseq_
      /\ q.t_seqno_ = Largest(s.t_seqno_, ackno)
  BY <1>0, <1>1 DEF NumbersRecord, Largest
<1>. HIDE DEF q
<1>9. q.highest_ack_ = Largest(s.highest_ack_, ackno) /\ q.t_seqno_ <= s.maxseq_
  BY <1>0, <1>1, <1>6, <1>8 DEF Largest
<1>10. /\ y \in EstimateRecord /\ y.recalc_seq = x.recalc_seq /\ y.total = x.total
       /\ y.maxseq = x.maxseq \/ (partial /\ y.maxseq = Largest(x.maxseq, ackno + 1))
  <2> DEFINE r == [x EXCEPT !.maxseq = Largest(@, ackno + 1)]
  <2>1. Largest(x.maxseq, ackno + 1) \in Nat
    BY <1>0, <1>3 DEF Largest
  <2>2. /\ r \in EstimateRecord /\ r.recalc_seq = x.recalc_seq /\ r.total = x.total
        /\ r.maxseq = Largest(x.maxseq, ackno + 1)
    BY <1>3, <2>1 DEF EstimateRecord
  <2>3. (y = r /\ partial) \/ y = x
    OBVIOUS
  <2>. HIDE DEF r, y, partial
  <2>. QED BY <1>2, <1>3, <2>2, <2>3
<1>. HIDE DEF y
<1>11. /\ z \in EstimateRecord /\ z.recalc_seq = y.recalc_seq /\ z.total = y.total
       /\ z.maxseq = y.maxseq
  BY <1>10 DEF EstimateRecord
<1>. HIDE DEF z
<1>12. z.recalc_seq = x.recalc_seq /\ z.total = x.total
       /\ x.maxseq <= z.maxseq /\ z.maxseq <= Largest(x.maxseq, s.maxseq_)
  BY <1>0, <1>1, <1>2, <1>3, <1>10, <1>11 DEF Largest
<1>. HIDE DEF partial
<1>13. a \in WindowRecord /\ Good(a) /\ (a.recover_ = w.recover_ \/ a.recover_ = s.maxseq_)
  <2>1. a \in WindowRecord /\ Good(a)
    BY <1>1, <1>2, AckActionGood DEF Good
  <2>2. a.recover_ = w.recover_ \/ a.recover_ = s.maxseq_
    BY <1>1, <1>2, AckActionFields
  <2>. QED BY <2>1, <2>2
<1>. HIDE DEF a
<1>14. v \in WindowRecord /\ Good(v) /\ (v.recover_ = a.recover_ \/ v.recover_ = s.maxseq_)
  <2>1. v \in WindowRecord /\ Good(v)
    BY <1>1, <1>7, <1>13, EchoedGood DEF Good
  <2>2. /\ a \in WindowRecord /\ Good(a)
        /\ s \in NumbersRecord /\ echo \in BOOLEAN /\ b \in 0 .. One
    BY <1>1, <1>7, <1>13
  <2>3. v = a \/ v.recover_ = s.maxseq_
    <3>1. EchoOf(v, a, ackno, b)
      BY ONLY <2>2, EchoedFields DEF v
    <3>. QED BY ONLY <3>1 DEF EchoOf
  <2>. QED BY <2>1, <2>3
<1>. HIDE DEF v
<1>15. o \in WindowRecord /\ Good(o) /\ o.recover_ = v.recover_
  <2>1. o \in WindowRecord /\ Good(o)
    BY <1>14, OpencwndGood DEF Good
  <2>2. o.recover_ = v.recover_
    BY <1>14, OpencwndFields DEF Good
  <2>. QED BY <2>1, <2>2
<1>. HIDE DEF o
<1>16. u \in WindowRecord /\ u.recover_ <= s.maxseq_
  BY <1>1, <1>13, <1>14, <1>15
<1>. HIDE DEF u
<1>17. x = update_ecnhat_alpha(ackno, echo)
  BY DEF x
<1>18. /\ h'.connections = h.connections /\ w' = u /\ s'.highest_ack_ = q.highest_ack_
       /\ h'.cut = IF Cut THEN s.maxseq_ ELSE h.cut
       /\ Numbers' /\ EstimateNoted' /\ EstimateTaken
  BY <1>0, <1>3, <1>5, <1>6, <1>8, <1>9, <1>11, <1>12, <1>16, <1>17, AckNoted
<1>19. agent \in Sack =>
          \/ u.recover_ = w.recover_ /\ u.action_ = w.action_ /\ ~Cut
          \/ /\ ackno > w.recover_ \/ w.action_ = "TIMEOUT"
             /\ u.recover_ = s.maxseq_ /\ u.action_ = "ECN"
             /\ 2 * u.cwnd_ >= windowd(w) - 1
  <2>1. agent \in Sack =>
          \/ /\ u.recover_ = w.recover_ /\ u.action_ = w.action_
             /\ ~(u.cwnd_ < Least(w.cwnd_, Unit * MaxCwnd))
          \/ /\ ackno > w.recover_ \/ w.action_ = "TIMEOUT"
             /\ u.recover_ = s.maxseq_ /\ u.action_ = "ECN"
             /\ 2 * u.cwnd_ >= windowd(w) - 1
    <3>. SUFFICES ASSUME agent \in Sack
                  PROVE  \/ /\ u.recover_ = w.recover_ /\ u.action_ = w.action_
                            /\ ~(u.cwnd_ < Least(w.cwnd_, Unit * MaxCwnd))
                         \/ /\ ackno > w.recover_ \/ w.action_ = "TIMEOUT"
                            /\ u.recover_ = s.maxseq_ /\ u.action_ = "ECN"
                            /\ 2 * u.cwnd_ >= windowd(w) - 1
      OBVIOUS
    <3>1. LET n == Echoed(AckAction(w, partial), ackno, echo, b)
              r == IF opens THEN opencwnd(n, agent = "lldct", weight) ELSE n
          IN \/ /\ r.recover_ = w.recover_ /\ r.action_ = w.action_
                /\ ~(r.cwnd_ < Least(w.cwnd_, Unit * MaxCwnd))
             \/ /\ ackno > w.recover_ \/ w.action_ = "TIMEOUT"
                /\ r.recover_ = s.maxseq_ /\ r.action_ = "ECN"
                /\ 2 * r.cwnd_ >= windowd(w) - 1
      BY <1>0, <1>2, <1>7, SackCuts
    <3>. QED BY <3>1 DEF u, o, v, a
  <2>. QED BY <1>18, <2>1 DEF Cut
<1>20. HistoryInv'
  BY <1>0, <1>6, <1>16, <1>18, <1>19, NotesKept
<1>21. CutOnce
  <2>. SUFFICES ASSUME agent \in Sack, Cut
                PROVE  ackno > h.cut /\ 2 * u.cwnd_ >= windowd(w) - 1
    BY <1>8, <1>18 DEF CutOnce
  <2>1. (ackno > w.recover_ \/ w.action_ = "TIMEOUT") /\ 2 * u.cwnd_ >= windowd(w) - 1
    BY <1>19
  <2>2. h.cut <= w.recover_ /\ (w.action_ = "TIMEOUT" => h.cut = 0)
    BY <1>0 DEF CutNoted
  <2>. QED BY <1>0, <1>1, <2>1, <2>2
<1>22. Deflates
  <2>. SUFFICES ASSUME agent = "reno", w.fastrecov_
                PROVE  u.cwnd_ <= Unit * (u.ssthresh_ + 1)
    BY <1>18 DEF Deflates
  <2>1. agent # "lldct"
    OBVIOUS
  <2>2. /\ v.cwnd_ <= Unit * (v.ssthresh_ + 1)
        /\ opencwnd(v, FALSE, weight).cwnd_ <= Unit * (opencwnd(v, FALSE, weight).ssthresh_ + 1)
    BY <1>0, <1>2, <1>7, RenoDeflates DEF v, a
  <2>3. o = opencwnd(v, FALSE, weight)
    BY <2>1 DEF o
  <2>. QED BY <2>2, <2>3 DEF u
<1>. QED BY <1>18, <1>20, <1>21, <1>22 DEF Promised

\* Every step keeps what is noted and what is promised.
LEMMA StepPromised == ASSUME HistoryInv, [Next]_vars PROVE HistoryInv' /\ [Promised]_vars
<1>1. CASE Next
  BY <1>1, SynAckPromised, AckPromised, OldAckPromised, CountDupPromised, RecoverPromised,
     ExtraAckPromised, TimeoutPromised, NewMessagePromised, NewConnectionPromised DEF Next
<1>2. CASE UNCHANGED vars
  <2>1. IInv'
    BY <1>2, StepKeeps DEF HistoryInv
  <2>. QED BY <1>2, <2>1 DEF HistoryInv, Numbers, CutNoted, Unopened, EstimateNoted, vars
<1>. QED BY <1>1, <1>2

\* A new agent has nothing to remember.
LEMMA InitNoted == ASSUME Init PROVE HistoryInv
<1>1. IInv
  BY InitKeeps
<1>2. \E k \in Messages : s = Connecting(k)
  BY DEF Init
<1>3. s.highest_ack_ = 0 /\ s.t_seqno_ = 1 /\ s.maxseq_ = 1
  BY <1>2 DEF Connecting
<1>4. w.cwnd_ = initial_window /\ w.recover_ = 0 /\ w.action_ = "none"
  BY DEF Init, Fresh
<1>5. /\ e.recalc_seq = 0 /\ e.maxseq = 1 /\ h.connections = 1
      /\ h.cut = 0 /\ h.sent = 0 /\ h.lost = 0
  BY DEF Init
<1>6. Numbers /\ CutNoted /\ Unopened /\ EstimateNoted
  <2>1. initial_window \in Nat
    BY Limits DEF initial_window
  <2>2. w.cwnd_ <= initial_window
    BY <1>4, <2>1
  <2>. QED BY <1>3, <1>4, <1>5, <2>2 DEF Numbers, CutNoted, Unopened, EstimateNoted, Largest
<1>. QED BY <1>1, <1>5, <1>6 DEF HistoryInv

\* What is noted stays so.
THEOREM HistoryInvariant == Spec => []HistoryInv
BY InitNoted, StepPromised, PTL DEF Spec

\* An acknowledgement cuts the window of Sack, MinTCP, LLDCT and DDTCP only when it
\* passes all that was sent at the last cut, and leaves at least half of it.
THEOREM CutsOncePerWindow == Spec => OneCutPerWindow
<1>1. HistoryInv /\ [Next]_vars
        => [(agent \in Sack /\ opened /\ s'.highest_ack_ > s.highest_ack_ /\ Cut)
              => (s'.highest_ack_ > h.cut /\ 2 * w'.cwnd_ >= windowd(w) - 1)]_vars
  BY StepPromised DEF Promised, CutOnce
<1>. QED BY <1>1, HistoryInvariant, PTL DEF Spec, OneCutPerWindow

\* On a first connection the estimate is taken when an acknowledgement passes what
\* was sent at the last one, and no earlier unless a timeout has intervened.
THEOREM EstimatesOncePerWindow == Spec => EstimatePerWindow
<1>1. HistoryInv /\ [Next]_vars
        => [h.connections = 1 /\ s'.highest_ack_ > s.highest_ack_
              => /\ s'.highest_ack_ > h.sent => e'.total = 0
                 /\ e'.total = 0 => s'.highest_ack_ > h.sent \/ s.highest_ack_ < h.lost]_vars
  BY StepPromised DEF Promised, EstimateTaken
<1>. QED BY <1>1, HistoryInvariant, PTL DEF Spec, EstimatePerWindow

\* The window of Reno that leaves a recovery is within a segment of its threshold.
THEOREM RecoveryDeflates == Spec => DeflatedAfterRecovery
<1>1. HistoryInv /\ [Next]_vars
        => [agent = "reno" /\ w.fastrecov_ /\ ~w'.fastrecov_
              => w'.cwnd_ <= Unit * (w'.ssthresh_ + 1)]_vars
  BY StepPromised DEF Promised, Deflates
<1>. QED BY <1>1, HistoryInvariant, PTL DEF Spec, DeflatedAfterRecovery

------------------------------------------------------------------------------
(***************************************************************************)
(* For every order of samples, backoffs and echoes, every pair of limits   *)
(* and every width of the difference, the retransmission timer runs for    *)
(* minrto_ to maxrto_ and covers the last sample.                          *)
(*                                                                         *)
(* TimerInTime speaks of the timer and of t_rtxcur_; the invariant keeps   *)
(* what the next sample finds: the backoff is a power of two up to 64, or  *)
(* past it and in its bound (Backoff), and unless a backoff has just       *)
(* discarded it the smoothed time is one that samples of a short can have  *)
(* led to, with a deviation that has not vanished (Smooth).  The deviation *)
(* is what covers a jump up, and what is left of the smoothed time covers  *)
(* a jump down.                                                            *)
(***************************************************************************)

Doublings == {1, 2, 4, 8, 16, 32, 64}

MostBackoff == AtLeast(64, (2 * MaxRto) \div MinRto)

\* What doubling a backoff keeps.
Backoff(b) ==
    /\ b \in Nat \ {0}
    /\ b \in Doublings \/ b > 64
    /\ ~variant.min => b <= MostBackoff

\* What a sample below ShortHalf keeps of the smoothed time and the deviation.
Smooth(srtt, rttvar) ==
    Narrow => /\ srtt <= 8 * (ShortHalf - 1)
              /\ srtt # 0 => rttvar \in 1 .. 4 * (ShortHalf - 1)

RttRecord == [t_srtt_ : Nat, t_rttvar_ : Nat, t_rtxcur_ : Nat, t_backoff_ : Nat \ {0},
              ecn_backoff_ : BOOLEAN]

\* The invariant of an agent's estimates, after a sample of l ticks.
Sound(v, l) ==
    /\ v \in RttRecord
    /\ Backoff(v.t_backoff_)
    /\ Smooth(v.t_srtt_, v.t_rttvar_)
    /\ Narrow => l < v.t_rtxcur_

Running == timer # 0 => timer \in MinRto .. MaxRto

TimerInv == variant \in Variants /\ timer \in Nat /\ last \in Nat /\ Running /\ Sound(rtt, last)

------------------------------------------------------------------------------
(* The backoff                                                             *)

\* The agents the constants name, and the limits.
LEMMA TimerConstants ==
    ASSUME variant \in Variants
    PROVE  /\ variant.min \in BOOLEAN /\ variant.rfc2988_ \in BOOLEAN
           /\ MinRto \in Nat /\ MinRto >= 2 /\ MaxRto \in Nat /\ MaxRto >= MinRto
BY RttTimerAssumption

\* The timer is set within its limits.
LEMMA TimeoutRange ==
    ASSUME variant \in Variants, NEW v \in RttRecord
    PROVE  rtt_timeout(v) \in MinRto .. MaxRto
<1> DEFINE x == v.t_rtxcur_
           b == v.t_backoff_
           y == AtLeast(x, MinRto)
<1>1. x \in Nat /\ b \in Nat /\ b >= 1
  BY DEF RttRecord
<1>2. y \in Nat /\ y >= MinRto
  BY <1>1, TimerConstants DEF AtLeast
<1>. HIDE DEF x, b, y
<1>3. y * b \in Nat /\ y * b >= y
  <2>1. y * b = y + y * (b - 1)
    BY <1>1, <1>2
  <2>2. y * (b - 1) \in Nat
    BY <1>1, <1>2
  <2>. QED BY <2>1, <2>2, <1>2
<1>4. x * b \in Nat
  BY <1>1
<1>5. rtt_timeout(v) = IF variant.min THEN MinRto
        ELSE AtLeast(2, AtMost(MaxRto, IF variant.rfc2988_ THEN y * b ELSE AtLeast(x * b, MinRto)))
  BY DEF rtt_timeout, x, b, y
<1>. QED BY <1>2, <1>3, <1>4, <1>5, TimerConstants DEF AtLeast, AtMost

\* A backoff that leaves room below maxrto_ may double.
LEMMA RoomToDouble ==
    ASSUME variant \in Variants, ~variant.min, variant.rfc2988_,
           NEW v \in RttRecord, rtt_timeout(v) < MaxRto
    PROVE  2 * v.t_backoff_ <= (2 * MaxRto) \div MinRto
<1> DEFINE x == v.t_rtxcur_
           b == v.t_backoff_
           y == AtLeast(x, MinRto)
<1>1. x \in Nat /\ b \in Nat /\ b >= 1
  BY DEF RttRecord
<1>2. y \in Nat /\ y >= MinRto
  BY <1>1, TimerConstants DEF AtLeast
<1>3. rtt_timeout(v) = AtLeast(2, AtMost(MaxRto, y * b))
  BY DEF rtt_timeout
<1>. HIDE DEF x, b, y
<1>4. y * b \in Nat /\ y * b < MaxRto
  BY <1>1, <1>2, <1>3, TimerConstants DEF AtLeast, AtMost
<1>5. MinRto * b <= y * b
  <2>1. (y - MinRto) * b >= 0
    BY <1>1, <1>2, TimerConstants
  <2>2. (y - MinRto) * b = y * b - MinRto * b
    BY <1>1, <1>2, TimerConstants
  <2>. QED BY <2>1, <2>2, <1>1, <1>2, <1>4, TimerConstants
<1>6. MinRto * (2 * b) <= 2 * MaxRto
  <2>1. MinRto * (2 * b) = 2 * (MinRto * b)
    BY <1>1, TimerConstants
  <2>2. MinRto * b \in Nat
    BY <1>1, TimerConstants
  <2>. QED BY <2>1, <2>2, <1>4, <1>5, TimerConstants
<1>7. 2 * b <= (2 * MaxRto) \div MinRto
  BY <1>6, <1>1, TimerConstants, DivAtLeast
<1>. QED BY <1>7 DEF b

\* rtt_backoff (tcp.cc:632-651) keeps the estimates sound: what it puts into the
\* deviation leaves no smoothed time behind.
LEMMA BackoffSound ==
    ASSUME variant \in Variants, NEW l \in Nat, NEW v, Sound(v, l)
    PROVE  Sound(rtt_backoff(v), l)
<1> DEFINE b == v.t_backoff_
           doubles == b < 64 \/ (variant.rfc2988_ /\ rtt_timeout(v) < MaxRto)
           c == IF doubles THEN 2 * b ELSE b
           nv == [v EXCEPT !.t_backoff_ = c]
<1>1. v \in RttRecord /\ Backoff(b)
  BY DEF Sound
<1>2. b \in Nat \ {0} /\ c \in Nat \ {0}
  BY <1>1 DEF Backoff
<1>3. Backoff(c)
  <2>1. c \in Doublings \/ c > 64
    BY <1>1, <1>2 DEF Backoff, Doublings
  <2>2. ASSUME ~variant.min PROVE c <= MostBackoff
    <3>0. (2 * MaxRto) \div MinRto \in Nat
      BY TimerConstants, DivAtLeast
    <3>1. CASE ~doubles
      BY <3>1, <2>2, <1>1 DEF Backoff
    <3>2. CASE b < 64
      BY <3>0, <3>2, <1>1 DEF Backoff, Doublings, MostBackoff, AtLeast
    <3>3. CASE variant.rfc2988_ /\ rtt_timeout(v) < MaxRto
      <4>1. 2 * b <= (2 * MaxRto) \div MinRto
        BY <2>2, <3>3, <1>1, RoomToDouble
      <4>. QED BY <4>1, <3>0, <3>3, <1>2 DEF MostBackoff, AtLeast
    <3>. QED BY <3>1, <3>2, <3>3
  <2>. QED BY <1>2, <2>1, <2>2 DEF Backoff
<1>4. nv \in RttRecord /\ nv.t_backoff_ = c
      /\ nv.t_srtt_ = v.t_srtt_ /\ nv.t_rttvar_ = v.t_rttvar_ /\ nv.t_rtxcur_ = v.t_rtxcur_
  BY <1>1, <1>2 DEF RttRecord
<1>5. rtt_backoff(v) = IF c > 8
        THEN [nv EXCEPT !.t_rttvar_ = @ + nv.t_srtt_ \div 8, !.t_srtt_ = 0] ELSE nv
  BY <1>4 DEF rtt_backoff
<1>. HIDE DEF nv, c
<1>6. CASE c <= 8
  BY <1>6, <1>2, <1>3, <1>4, <1>5 DEF Sound
<1>7. CASE c > 8
  <2> DEFINE u == [nv EXCEPT !.t_rttvar_ = @ + nv.t_srtt_ \div 8, !.t_srtt_ = 0]
  <2>1. nv.t_rttvar_ \in Nat /\ nv.t_srtt_ \in Nat
    BY <1>4 DEF RttRecord
  <2>2. nv.t_rttvar_ + nv.t_srtt_ \div 8 \in Nat
    BY <2>1
  <2>3. u \in RttRecord /\ u.t_srtt_ = 0 /\ u.t_backoff_ = c /\ u.t_rtxcur_ = v.t_rtxcur_
    BY <1>4, <2>2 DEF RttRecord
  <2>4. Smooth(u.t_srtt_, u.t_rttvar_)
    BY <2>3, RttTimerAssumption DEF Smooth
  <2>5. Narrow => l < u.t_rtxcur_
    BY <2>3 DEF Sound
  <2>6. rtt_backoff(v) = u
    BY <1>7, <1>2, <1>5
  <2>. QED BY <2>3, <2>4, <2>5, <2>6, <1>3 DEF Sound
<1>. QED BY <1>2, <1>6, <1>7

------------------------------------------------------------------------------
(* The sample                                                              *)

\* A difference of samples fits a short.
LEMMA ShortIsIdentity ==
    ASSUME NEW x \in Int, -ShortHalf < x, x < ShortHalf
    PROVE  Short(x) = x
<1>1. ShortHalf \in Nat /\ 2 * ShortHalf \in Nat
  BY RttTimerAssumption
<1>2. x + ShortHalf \in 0 .. 2 * ShortHalf - 1 /\ x + ShortHalf = 0 * (2 * ShortHalf) + (x + ShortHalf)
  BY <1>1
<1>3. (x + ShortHalf) % (2 * ShortHalf) = x + ShortHalf
  BY <1>1, <1>2, ModUnique
<1>. QED BY <1>1, <1>3 DEF Short

\* A short is a number, whatever it was cut from.
LEMMA ShortType == ASSUME NEW x \in Int PROVE Short(x) \in Int
BY RttTimerAssumption, ModRange DEF Short

\* rtt_update (tcp.cc:585-630) on a smoothed time srtt with a deviation rttvar and a
\* sample m: the new ones have their range, and their sum passes the sample.
LEMMA SampleCovered ==
    ASSUME NEW H \in Nat, NEW m \in 1 .. H - 1,
           NEW srtt \in 1 .. 8 * (H - 1), NEW rttvar \in 1 .. 4 * (H - 1),
           NEW delta \in Int, delta = m - srtt \div 8,
           NEW d \in Int, d = (IF delta < 0 THEN -delta ELSE delta),
           NEW srtt2 \in Int, srtt2 = AtLeast(srtt + delta, 1),
           NEW rttvar2 \in Int, rttvar2 = AtLeast(rttvar + (d - rttvar \div 4), 1)
    PROVE  /\ srtt2 \in 1 .. 8 * (H - 1)
           /\ rttvar2 \in 1 .. 4 * (H - 1)
           /\ m < (8 * rttvar2 + srtt2) \div 8
<1>1. srtt2 \in 1 .. 8 * (H - 1)
  BY DEF AtLeast
<1>2. rttvar2 \in 1 .. 4 * (H - 1)
  BY DEF AtLeast
<1>3. m < (8 * rttvar2 + srtt2) \div 8
  BY DEF AtLeast
<1>. QED BY <1>1, <1>2, <1>3

\* rtt_update leaves numbers, and the backoff alone.
LEMMA UpdateType ==
    ASSUME NEW v \in RttRecord, NEW m \in Nat, m >= 1
    PROVE  /\ rtt_update(v, m) \in RttRecord
           /\ rtt_update(v, m).t_backoff_ = v.t_backoff_
<1> DEFINE srtt == v.t_srtt_
           rttvar == v.t_rttvar_
           delta == Short(m - srtt \div 8)
           srtt2 == AtLeast(srtt + delta, 1)
           rttvar2 == AtLeast(rttvar + Short(Abs(delta) - rttvar \div 4), 1)
<1>1. srtt \in Nat /\ rttvar \in Nat
  BY DEF RttRecord
<1>2. delta \in Int
  BY <1>1, ShortType
<1>. HIDE DEF srtt, rttvar, delta
<1>3. Abs(delta) \in Int
  BY <1>2, ShortType DEF Abs
<1>4. Short(Abs(delta) - rttvar \div 4) \in Int
  BY <1>1, <1>3, ShortType
<1>5. srtt2 \in Nat /\ rttvar2 \in Nat
  BY <1>1, <1>2, <1>4 DEF AtLeast
<1>. HIDE DEF srtt2, rttvar2
<1>6. ASSUME NEW x \in Nat, NEW y \in Nat
      PROVE  /\ Estimates(v, x, y) \in RttRecord
             /\ Estimates(v, x, y).t_backoff_ = v.t_backoff_
  <2>1. (8 * y + x) \div 8 \in Nat
    OBVIOUS
  <2>. QED BY <2>1 DEF Estimates, Rtxcur, RttRecord
<1>7. rtt_update(v, m) = IF srtt = 0 THEN Estimates(v, 8 * m, 2 * m) ELSE Estimates(v, srtt2, rttvar2)
  BY DEF rtt_update, srtt, rttvar, delta, srtt2, rttvar2
<1>8. 8 * m \in Nat /\ 2 * m \in Nat
  OBVIOUS
<1>. QED BY <1>5, <1>6, <1>7, <1>8

\* A sample below ShortHalf leaves estimates that cover it, whatever the ones
\* before were (tcp.cc:585-630).
LEMMA UpdateSound ==
    ASSUME NEW v, NEW l, Sound(v, l), NEW m \in Nat, m >= 1, Narrow => m < ShortHalf
    PROVE  Sound(rtt_update(v, m), m)
<1> DEFINE u == rtt_update(v, m)
           srtt == v.t_srtt_
           rttvar == v.t_rttvar_
<1>1. v \in RttRecord /\ u \in RttRecord /\ Backoff(u.t_backoff_)
  BY UpdateType DEF Sound
<1>2. ASSUME Narrow
      PROVE  Smooth(u.t_srtt_, u.t_rttvar_) /\ m < u.t_rtxcur_
  <2>1. ShortHalf \in Nat /\ m \in 1 .. ShortHalf - 1
    BY <1>2, RttTimerAssumption
  <2>2. \A x, y \in Nat : LET est == Estimates(v, x, y) IN
            est.t_srtt_ = x /\ est.t_rttvar_ = y /\ est.t_rtxcur_ = (8 * y + x) \div 8
    BY <1>1 DEF Estimates, Rtxcur, RttRecord
  <2>3. CASE srtt = 0
    <3>1. u = Estimates(v, 8 * m, 2 * m)
      BY <2>3 DEF rtt_update
    <3>2. 8 * m \in Nat /\ 2 * m \in Nat
      OBVIOUS
    <3>3. u.t_srtt_ = 8 * m /\ u.t_rttvar_ = 2 * m /\ u.t_rtxcur_ = (8 * (2 * m) + 8 * m) \div 8
      BY <2>2, <3>1, <3>2
    <3>4. (8 * (2 * m) + 8 * m) \div 8 = 3 * m
      OBVIOUS
    <3>. QED BY <2>1, <3>3, <3>4 DEF Smooth
  <2>4. CASE srtt # 0
    <3> DEFINE delta == m - srtt \div 8
               d == IF delta < 0 THEN -delta ELSE delta
               srtt2 == AtLeast(srtt + delta, 1)
               rttvar2 == AtLeast(rttvar + (d - rttvar \div 4), 1)
    <3>1. srtt \in 1 .. 8 * (ShortHalf - 1) /\ rttvar \in 1 .. 4 * (ShortHalf - 1)
      BY <1>1, <1>2, <2>4, <2>1 DEF Sound, Smooth, RttRecord
    <3>. HIDE DEF srtt, rttvar
    <3>2. /\ delta \in Int /\ -ShortHalf < delta /\ delta < ShortHalf
          /\ d \in Int /\ -ShortHalf < d /\ d < ShortHalf
      BY <2>1, <3>1
    <3>3. Short(delta) = delta /\ Abs(delta) = d
      <4>1. -delta \in Int /\ -ShortHalf < -delta /\ -delta < ShortHalf
        BY <2>1, <3>2
      <4>2. Short(delta) = delta
        BY <3>2, ShortIsIdentity
      <4>3. Short(-delta) = -delta
        BY <4>1, ShortIsIdentity
      <4>. QED BY <4>2, <4>3 DEF Abs
    <3>4. d - rttvar \div 4 \in Int /\ -ShortHalf < d - rttvar \div 4 /\ d - rttvar \div 4 < ShortHalf
      BY <2>1, <3>1, <3>2
    <3>5. Short(d - rttvar \div 4) = d - rttvar \div 4
      BY <3>4, ShortIsIdentity
    <3>6. u = Estimates(v, AtLeast(srtt + Short(delta), 1),
                        AtLeast(rttvar + Short(Abs(Short(delta)) - rttvar \div 4), 1))
      BY <2>4 DEF rtt_update, srtt, rttvar
    <3>7. u = Estimates(v, srtt2, rttvar2)
      BY <3>3, <3>5, <3>6
    <3>8. /\ delta = m - srtt \div 8 /\ d = (IF delta < 0 THEN -delta ELSE delta)
          /\ srtt2 = AtLeast(srtt + delta, 1)
          /\ rttvar2 = AtLeast(rttvar + (d - rttvar \div 4), 1)
      OBVIOUS
    <3>. HIDE DEF delta, d
    <3>9. srtt2 \in Int /\ rttvar2 \in Int
      BY <3>1, <3>2 DEF AtLeast
    <3>. HIDE DEF srtt2, rttvar2
    <3>10. /\ srtt2 \in 1 .. 8 * (ShortHalf - 1)
          /\ rttvar2 \in 1 .. 4 * (ShortHalf - 1)
          /\ m < (8 * rttvar2 + srtt2) \div 8
      <4>1. ShortHalf \in Nat /\ m \in 1 .. ShortHalf - 1
        BY ONLY <2>1
      <4>. QED BY ONLY <4>1, <3>1, <3>2, <3>8, <3>9, SampleCovered, ZenonT(60)
    <3>11. u.t_srtt_ = srtt2 /\ u.t_rttvar_ = rttvar2 /\ u.t_rtxcur_ = (8 * rttvar2 + srtt2) \div 8
      BY <2>1, <2>2, <3>7, <3>10
    <3>. QED BY <3>10, <3>11 DEF Smooth
  <2>. QED BY <2>3, <2>4
<1>3. Smooth(u.t_srtt_, u.t_rttvar_)
  BY <1>2 DEF Smooth
<1>. QED BY <1>1, <1>2, <1>3 DEF Sound

------------------------------------------------------------------------------
(* The actions                                                             *)

\* The end of a backoff, and the backoff of an echo.
LEMMA EchoSound ==
    ASSUME variant \in Variants, NEW l \in Nat, NEW v, Sound(v, l), NEW echo \in BOOLEAN,
           NEW one \in BOOLEAN
    PROVE  /\ Sound(NotBackedOff(v, echo), l)
           /\ Sound(EcnBackoff(v, one), l)
<1>1. v \in RttRecord
  BY DEF Sound
<1>2. Sound(NotBackedOff(v, echo), l)
  <2> DEFINE nv == [v EXCEPT !.t_backoff_ = 1, !.ecn_backoff_ = FALSE]
  <2> DEFINE x == [v EXCEPT !.t_backoff_ = 1]
  <2>1. x \in RttRecord
    BY <1>1 DEF RttRecord
  <2>2. [x EXCEPT !.ecn_backoff_ = FALSE] \in RttRecord
    BY <2>1 DEF RttRecord
  <2>3. /\ nv \in RttRecord /\ nv.t_backoff_ = 1 /\ nv.t_srtt_ = v.t_srtt_
        /\ nv.t_rttvar_ = v.t_rttvar_ /\ nv.t_rtxcur_ = v.t_rtxcur_
    BY <1>1, <2>2 DEF RttRecord
  <2>4. (2 * MaxRto) \div MinRto \in Nat
    BY TimerConstants, DivNat
  <2>5. Backoff(1)
    BY <2>4 DEF Backoff, Doublings, MostBackoff, AtLeast
  <2>6. Sound(nv, l)
    BY <2>3, <2>5 DEF Sound
  <2>. QED BY <2>6 DEF NotBackedOff
<1>3. Sound(EcnBackoff(v, one), l)
  <2> DEFINE nv == [v EXCEPT !.ecn_backoff_ = one]
  <2>1. /\ nv \in RttRecord /\ nv.t_backoff_ = v.t_backoff_ /\ nv.t_srtt_ = v.t_srtt_
        /\ nv.t_rttvar_ = v.t_rttvar_ /\ nv.t_rtxcur_ = v.t_rtxcur_
    BY <1>1 DEF RttRecord
  <2>2. Sound(nv, l)
    BY <2>1 DEF Sound
  <2>3. Sound(rtt_backoff(v), l)
    BY BackoffSound
  <2>. QED BY <2>2, <2>3 DEF EcnBackoff
<1>. QED BY <1>2, <1>3

\* reset (tcp.cc:466-470) establishes the invariant.
LEMMA InitTimer == TimerInit => TimerInv
<1>. SUFFICES ASSUME TimerInit PROVE TimerInv
  OBVIOUS
<1>1. variant \in Variants /\ timer = 0 /\ last = 0 /\ rtt = rtt_init
  BY DEF TimerInit
<1>2. /\ rtt_init \in RttRecord /\ rtt_init.t_backoff_ = 1
      /\ rtt_init.t_srtt_ = 0 /\ rtt_init.t_rtxcur_ = RtxcurInit
  BY RttTimerAssumption DEF rtt_init, RttRecord
<1>3. (2 * MaxRto) \div MinRto \in Nat
  BY <1>1, TimerConstants, DivNat
<1>4. Backoff(1)
  BY <1>3 DEF Backoff, Doublings, MostBackoff, AtLeast
<1>5. Smooth(0, rtt_init.t_rttvar_) /\ 0 < RtxcurInit
  BY RttTimerAssumption DEF Smooth
<1>6. Sound(rtt_init, 0)
  BY <1>2, <1>4, <1>5 DEF Sound
<1>. QED BY <1>1, <1>6 DEF TimerInv, Running

\* An acknowledgement with sound estimates leaves sound ones.
LEMMA TimerAckStep ==
    ASSUME TimerInv, NEW l \in Nat, NEW v, Sound(v, l), last' = l,
           NEW all \in BOOLEAN, NEW echo \in BOOLEAN, NEW cut \in BOOLEAN, NEW one \in BOOLEAN,
           Ack(v, all, echo, cut, one)
    PROVE  TimerInv'
<1>1. variant \in Variants /\ variant' = variant /\ rtt \in RttRecord
  BY DEF TimerInv, Sound, Ack
<1>2. timer' \in Nat /\ Running'
  <2>1. rtt_timeout(rtt) \in MinRto .. MaxRto
    BY <1>1, TimeoutRange
  <2>2. timer' = IF all THEN 0 ELSE rtt_timeout(rtt)
    BY DEF Ack
  <2>. QED BY <1>1, <2>1, <2>2, TimerConstants DEF Running
<1>3. Sound(NotBackedOff(v, echo), l)
  BY <1>1, EchoSound
<1>4. Sound(rtt', l)
  <2>1. Sound(EcnBackoff(NotBackedOff(v, echo), one), l)
    BY <1>1, <1>3, EchoSound
  <2>. QED BY <1>3, <2>1 DEF Ack
<1>5. Sound(rtt, last)'
  BY <1>1, <1>4 DEF Sound, Backoff, MostBackoff, Smooth
<1>. QED BY <1>1, <1>2, <1>5 DEF TimerInv

\* Every step keeps the invariant.
LEMMA TimerStep == TimerInv /\ [TimerNext]_timerVars => TimerInv'
<1>. SUFFICES ASSUME TimerInv, [TimerNext]_timerVars PROVE TimerInv'
  OBVIOUS
<1>1. variant \in Variants /\ rtt \in RttRecord /\ Sound(rtt, last) /\ last \in Nat
  BY DEF TimerInv, Sound
<1>2. CASE SetTimer
  <2>1. UNCHANGED <<variant, rtt, last>> /\ timer' = rtt_timeout(rtt)
    BY <1>2 DEF SetTimer
  <2>2. timer' \in Nat /\ Running'
    BY <1>1, <2>1, TimeoutRange, TimerConstants DEF Running
  <2>3. Sound(rtt, last)'
    BY <1>1, <2>1 DEF Sound, Backoff, MostBackoff, Smooth
  <2>. QED BY <1>1, <2>1, <2>2, <2>3 DEF TimerInv
<1>3. ASSUME NEW all \in BOOLEAN, NEW echo \in BOOLEAN, NEW cut \in BOOLEAN, NEW one \in BOOLEAN,
             NEW m \in Samples, Timed(m, all, echo, cut, one)
      PROVE  TimerInv'
  <2> DEFINE n == AtLeast(m, 1)
  <2>1. m \in Nat /\ n \in Nat /\ n >= 1 /\ (Narrow => n < ShortHalf)
    BY RttTimerAssumption DEF AtLeast, Narrow
  <2>2. last' = n /\ Ack(rtt_update(rtt, n), all, echo, cut, one)
    BY <1>3 DEF Timed
  <2>. HIDE DEF n
  <2>3. Sound(rtt_update(rtt, n), n)
    BY <1>1, <2>1, UpdateSound
  <2>. QED BY <2>1, <2>2, <2>3, TimerAckStep
<1>4. ASSUME NEW all \in BOOLEAN, NEW echo \in BOOLEAN, NEW cut \in BOOLEAN, NEW one \in BOOLEAN,
             Untimed(all, echo, cut, one)
      PROVE  TimerInv'
  <2>1. last' = last /\ Ack(rtt, all, echo, cut, one)
    BY <1>4 DEF Untimed
  <2>. QED BY <1>1, <2>1, TimerAckStep
<1>5. CASE TimerOff
  <2>1. UNCHANGED <<variant, last>> /\ rtt' = rtt_backoff(rtt)
    BY <1>5 DEF TimerOff
  <2>2. Sound(rtt', last)
    BY <1>1, <2>1, BackoffSound
  <2>3. Sound(rtt, last)'
    BY <2>1, <2>2 DEF Sound, Backoff, MostBackoff, Smooth
  <2>4. rtt_timeout(rtt') \in MinRto .. MaxRto
    BY <1>1, <2>2, TimeoutRange DEF Sound
  <2>5. timer' = rtt_timeout(rtt')
    BY <1>5, <2>1 DEF TimerOff, rtt_timeout
  <2>6. timer' \in Nat /\ Running'
    BY <1>1, <2>4, <2>5, TimerConstants DEF Running
  <2>. QED BY <1>1, <2>1, <2>3, <2>6 DEF TimerInv
<1>6. CASE UNCHANGED timerVars
  BY <1>6 DEF timerVars, TimerInv, Running, Sound, Backoff, MostBackoff, Smooth
<1>. QED BY <1>2, <1>3, <1>4, <1>5, <1>6 DEF TimerNext

\* The invariant says what the property asks.
LEMMA TimerSuffices == TimerInv => TimerTypeOK /\ TimerInTime
<1>. SUFFICES ASSUME TimerInv PROVE TimerTypeOK /\ TimerInTime
  OBVIOUS
<1>1. TimerTypeOK
  BY DEF TimerInv, TimerTypeOK, Sound, RttRecord
<1>2. TimerBounded
  BY DEF TimerInv, TimerBounded, Running, Sound, Backoff, MostBackoff
<1>3. TimerCoversSample
  BY DEF TimerInv, TimerCoversSample, Sound
<1>. QED BY <1>1, <1>2, <1>3 DEF TimerInTime

\* For every order of samples, backoffs and echoes the timer runs for minrto_ to
\* maxrto_, the backoff is bounded, and what the timer is computed from covers the
\* last round-trip time (tcp.cc:547-651).
THEOREM TimerStaysInTime == TimerSpec => []TimerInTime
BY InitTimer, TimerStep, TimerSuffices, PTL DEF TimerSpec

==============================================================================
