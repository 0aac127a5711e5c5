----------------------------- MODULE Congestion -----------------------------
(***************************************************************************)
(* The window of a sending TCP agent (tcp/tcp.cc and tcp/tcp-full.cc): the *)
(* congestion window, the recoveries, and the fraction of marked bytes     *)
(* that decides how deep a cut is (ecnhat_).  The network is any sequence  *)
(* of acknowledgements, echoes of marks and timeouts; which segments the   *)
(* agent sends is TcpOutput's matter, what the timer runs for RttTimer's.  *)
(* Sequence numbers count segments, a SYN as one.  What it models of       *)
(* tcp-full.cc is the same text in the copies of both simulators.          *)
(***************************************************************************)
EXTENDS Integers

CONSTANTS
    Agents,        \* the classes of agents: "min" stands for Sack and MinTCP
    Unit,          \* parts of a segment that cwnd_ tells apart
    One,           \* the parts of one that ecnhat_alpha_ tells apart
    Gain,          \* 1 / ecnhat_g_
    Wnd,           \* window_
    MaxCwnd,       \* maxcwnd_
    InitWindow,    \* windowInit_
    RexmtThresh,   \* tcprexmtthresh_
    Weights, MaxWeight,  \* lldct_w_c_ for the sizes of messages, lldct_w_max_
    Messages,      \* sizes of messages, in segments
    SlowStartRestart, PreciseReduce, BugFix,
    MaxSeq, MaxTotal, MaxConnections  \* bounds: numbers, ecnhat_total, connections

ASSUME CongestionAssumption ==
    /\ Agents \subseteq {"min", "lldct", "dd", "reno", "tahoe", "newreno"}
    /\ Unit \in Nat \ {0} /\ One \in Nat \ {0} /\ Gain \in Nat \ {0}
    /\ Wnd \in Nat /\ Wnd >= 2
    /\ InitWindow \in Nat \ {0} /\ MaxWeight \in Nat \ {0}
    /\ MaxCwnd \in InitWindow .. Wnd
    /\ Weights \subseteq 1 .. MaxWeight /\ Weights # {}
    /\ RexmtThresh \in Nat \ {0}
    /\ Messages \subseteq Nat \ {0}
    /\ SlowStartRestart \in BOOLEAN /\ PreciseReduce \in BOOLEAN /\ BugFix \in BOOLEAN
    /\ MaxSeq \in Nat /\ MaxTotal \in Nat /\ MaxConnections \in Nat

VARIABLES
    agent,   \* the class, does not change
    opened,  \* state_ is ESTABLISHED, else SYN_SENT
    w,       \* the window and the recovery
    s,       \* sequence numbers
    e,       \* the estimate of the marked fraction, ecnhat_*
    h        \* a history: what was sent at the last cut, estimate and timeout, the
             \* echoes since the last estimate, whether a router has marked

vars == <<agent, opened, w, s, e, h>>

Sack == {"min", "lldct", "dd"}
Reno == {"reno", "newreno"}

Largest(x, y) == IF x > y THEN x ELSE y
Least(x, y) == IF x < y THEN x ELSE y

------------------------------------------------------------------------------
(* The window                                                              *)

windowd(v) == Least(v.cwnd_, Unit * Wnd)
window(v) == windowd(v) \div Unit

\* What is left of a window that is halved.  decrease_num_ is 1/2.
halfwin(v) == IF PreciseReduce THEN windowd(v) \div 2 ELSE Unit * (window(v) \div 2)

\* What an echo leaves of it, b the penalty.
Reduced(v, b) == ((2 * One - b) * windowd(v)) \div (2 * One)

\* wnd_init_option_ is 1, no Quick-Start.
initial_window == Unit * InitWindow

slowdown(v, how, b) ==
    LET ssthresh == CASE "CLOSE_SSTHRESH_HALF" \in how -> halfwin(v) \div Unit
                      [] "CLOSE_SSTHRESH_ECNHAT" \in how -> Reduced(v, b) \div Unit
                      [] OTHER -> v.ssthresh_
        cwnd == CASE "CLOSE_CWND_HALF" \in how -> halfwin(v)
                  [] "CLOSE_CWND_ECNHAT" \in how -> Reduced(v, b)
                  [] "CLOSE_CWND_INIT" \in how -> Unit * InitWindow
                  [] OTHER -> Unit  \* CLOSE_CWND_RESTART, CLOSE_CWND_ONE
    IN [v EXCEPT !.ssthresh_ = Largest(2, ssthresh), !.cwnd_ = Largest(Unit, cwnd),
                 !.count_ = 0]

\* alpha to a power of lo to hi, halves rounded outwards.
Powers(alpha, lo, hi) ==
    IF alpha = 0 THEN {0}
    ELSE {b \in 0 .. One : /\ b^2 <= alpha^lo * One^(2 - lo)
                           /\ alpha^hi < (b + 1)^2 * One^(hi - 2)}

\* DDTCP raises the estimate to 1/2 to 2, as the deadline is near, or takes 1
\* without a deadline.
DDPenalty(alpha) == Powers(alpha, 1, 4) \cup {IF alpha > 0 THEN One ELSE 0}

\* LLDCT raises it to 1/8 to 5/2, as the message is long.
LldctPenalty(alpha) == Powers(alpha, 0, 5)

Penalty(a, alpha) ==
    CASE a = "dd" -> DDPenalty(alpha)
      [] a = "lldct" -> LldctPenalty(alpha)
      [] OTHER -> {alpha}

\* The limit of the window.
Capped(cwnd) == IF cwnd \div Unit > MaxCwnd THEN Unit * MaxCwnd ELSE cwnd

\* Mutant of opencwnd: no limit.
OpenUncapped(v, lldct, weight) == [v EXCEPT !.cwnd_ = @ + Unit]

\* windowOption_ is 0: a segment for each one acknowledged in slow start, later
\* one for a window of them.  LLDCT counts twice.
opencwnd(v, lldct, weight) ==
    LET n == v.count_ + (IF lldct THEN 2 ELSE 1)
        more == \/ v.cwnd_ < Unit * v.ssthresh_
                \/ lldct /\ Unit * (v.count_ + 1) * weight >= v.cwnd_ * MaxWeight
                \/ Unit * n >= v.cwnd_
        grown == IF more THEN v.cwnd_ + Unit ELSE v.cwnd_
    IN [v EXCEPT !.cwnd_ = Capped(grown),
                 !.count_ = CASE v.cwnd_ < Unit * v.ssthresh_ -> @
                              [] more -> 0
                              [] OTHER -> n]

------------------------------------------------------------------------------
(* The estimate                                                            *)

\* Mutant of estimated: the target is one too far.
EstimatedLate(x) ==
    [x EXCEPT !.recalc_seq = x.maxseq + 1,
              !.alpha = ((Gain - 1) * @ + (One * x.marked) \div x.total) \div Gain,
              !.marked = 0, !.total = 0]

\* The end of a window: its fraction enters the average.
estimated(x) ==
    [x EXCEPT !.recalc_seq = x.maxseq,
              !.alpha = ((Gain - 1) * @ + (One * x.marked) \div x.total) \div Gain,
              !.marked = 0, !.total = 0]

\* Mutant of counted: the echo of the acknowledgement before.
CountedStale(x, bytes, echo) ==
    [x EXCEPT !.total = @ + bytes, !.marked = IF x.burst THEN @ + bytes ELSE @]

counted(x, bytes, echo) ==
    [x EXCEPT !.total = @ + bytes, !.marked = IF echo THEN @ + bytes ELSE @]

\* Every packet received, before anything else is done with it.
update_ecnhat_alpha(ackno, echo) ==
    LET x == counted(e, Largest(ackno - s.highest_ack_, 1), echo)
    IN IF ackno > e.recalc_seq THEN estimated(x) ELSE x

------------------------------------------------------------------------------
(* Losses and echoes                                                       *)

Half == {"CLOSE_SSTHRESH_HALF", "CLOSE_CWND_HALF"}

fast_retransmit(v) == [v EXCEPT !.recover_ = s.maxseq_, !.action_ = "DUPACK"]

\* A loss in a window that has not been cut for one.
Recovered(v) == s.highest_ack_ > v.recover_

\* Whether a loss is acted upon: one a window, but for an echo before it.
Acts(v) ==
    \/ Recovered(v) \/ v.action_ = "ECN" \/ ~BugFix
    \/ agent \in Reno /\ v.action_ = "DUPACK"

\* Reno and NewReno; the window is inflated by what has left the network.
RenoDupack(v) ==
    LET cut == fast_retransmit(slowdown(v, Half, 0))
    IN IF v.action_ = "ECN" /\ ~Recovered(v)
       THEN fast_retransmit(slowdown(v, {"CLOSE_CWND_HALF"}, 0))
       ELSE [cut EXCEPT !.cwnd_ = Unit * (cut.ssthresh_ + v.dupacks_)]

TahoeEcn(v) == v.action_ = "ECN" /\ ~Recovered(v)

TahoeDupack(v) ==
    IF TahoeEcn(v) THEN [slowdown(v, {"CLOSE_CWND_ONE"}, 0) EXCEPT !.action_ = "DUPACK"]
    ELSE fast_retransmit(slowdown(v, {"CLOSE_SSTHRESH_HALF", "CLOSE_CWND_ONE"}, 0))

\* Sack: a loss after an echo in the same window halves it once more.
SackDupack(v) == [fast_retransmit(slowdown(v, Half, 0)) EXCEPT !.pipectrl_ = TRUE]

dupack_action(v) ==
    LET u == [v EXCEPT !.fastrecov_ = TRUE]
    IN CASE agent \in Sack -> SackDupack(u)
         [] agent = "tahoe" -> TahoeDupack(u)
         [] OTHER -> RenoDupack(u)

timeout_action(v) ==
    LET u == [v EXCEPT !.recover_ = s.maxseq_, !.fastrecov_ = FALSE, !.dupacks_ = 0]
    IN IF v.action_ = "ECN" THEN slowdown(u, {"CLOSE_CWND_ONE"}, 0)
       ELSE [slowdown(u, {"CLOSE_SSTHRESH_HALF", "CLOSE_CWND_RESTART"}, 0)
                EXCEPT !.action_ = "TIMEOUT"]

\* Mutant of ecn: an echo may cut the window again before it has left.
EcnEager(v, ackno, b) ==
    [slowdown(v, {"CLOSE_SSTHRESH_ECNHAT", "CLOSE_CWND_ECNHAT"}, b)
        EXCEPT !.recover_ = s.maxseq_, !.action_ = "ECN"]

\* An echo: a cut, at most once in a round trip.
ecn(v, ackno, b) ==
    IF ackno > v.recover_ \/ v.action_ = "TIMEOUT"
    THEN [slowdown(v, {"CLOSE_SSTHRESH_ECNHAT", "CLOSE_CWND_ECNHAT"}, b)
             EXCEPT !.recover_ = s.maxseq_, !.action_ = "ECN"]
    ELSE v

\* Mutant of Deflated: it is not.
StaysInflated(v) == v

\* An inflated window is retracted.
Deflated(v) ==
    IF agent \in Reno /\ v.fastrecov_ /\ v.cwnd_ > Unit * v.ssthresh_
    THEN [v EXCEPT !.cwnd_ = Unit * v.ssthresh_] ELSE v

\* A partial acknowledgement, of less than was sent when the recovery began.
pack(ackno) == w.fastrecov_ /\ ackno < w.recover_

\* NewReno stays in its recovery after a part is acknowledged, so does Sack.
AckAction(v, partial) ==
    CASE partial /\ agent \in Sack -> v
      [] partial /\ agent = "newreno" -> [fast_retransmit(v) EXCEPT !.cwnd_ = Unit * v.ssthresh_]
      [] OTHER -> [Deflated(v) EXCEPT !.fastrecov_ = FALSE, !.dupacks_ = 0, !.pipectrl_ = FALSE]

\* v is the window after AckAction.
Echoed(v, ackno, echo, b) == IF echo THEN ecn(v, ackno, b) ELSE v

\* The window grows, but not on the first of several echoes.
Opens(partial, echo) ==
    /\ ~partial \/ agent \in {"reno", "tahoe"}
    /\ ~echo \/ e.burst

------------------------------------------------------------------------------
(* Sending                                                                 *)

\* send_much: to the end of the window; with pipectrl_ as far as the pipe lets it.
SendsTo(v, q) ==
    IF v.pipectrl_ /\ opened THEN q.t_seqno_ .. Largest(q.t_seqno_, q.curseq_)
    ELSE {Largest(q.t_seqno_, Least(q.curseq_, q.highest_ack_ + window(v)))}

Sends(v, q, x) ==
    \E t \in SendsTo(v, q) :
       /\ w' = v
       /\ s' = [q EXCEPT !.t_seqno_ = t, !.maxseq_ = Largest(@, t)]
       /\ e' = IF t > q.t_seqno_ THEN [x EXCEPT !.maxseq = Largest(@, t)] ELSE x

\* A handler that returns before send_much.
Stays(v, q, x) == w' = v /\ s' = q /\ e' = x

\* The segment at highest_ack_ is sent again.
Resends(x) == [x EXCEPT !.maxseq = Largest(@, s.highest_ack_ + 1)]

------------------------------------------------------------------------------
(* Actions                                                                 *)

\* reset, of a new agent or of one that is used again; two fields stay.
Fresh(count, pipectrl) ==
    [cwnd_ |-> initial_window, ssthresh_ |-> Wnd, count_ |-> count, action_ |-> "none",
     recover_ |-> 0, fastrecov_ |-> FALSE, pipectrl_ |-> pipectrl, dupacks_ |-> 0]

\* The numbers after the SYN of a connection for k segments.
Connecting(k) == [highest_ack_ |-> 0, t_seqno_ |-> 1, maxseq_ |-> 1, curseq_ |-> 1 + k]

Init ==
    /\ agent \in Agents
    /\ opened = FALSE
    /\ w = Fresh(0, FALSE)
    /\ \E k \in Messages : s = Connecting(k)
    /\ e = [alpha |-> 0, total |-> 0, marked |-> 0, recalc_seq |-> 0, maxseq |-> 1,
            burst |-> FALSE]
    /\ h = [connections |-> 1, cut |-> 0, sent |-> 0, lost |-> 0, echoes |-> {},
            marked |-> FALSE]

\* The window is cut, and not just the part of a segment above maxcwnd_ taken off.
Cut == w'.cwnd_ < Least(w.cwnd_, Unit * MaxCwnd)

\* The history of a step that has received an acknowledgement.
Remember(echo) ==
    h' = [h EXCEPT !.cut = IF Cut THEN s.maxseq_ ELSE @,
                   !.sent = IF e'.total = 0 THEN s.maxseq_ ELSE @,
                   !.marked = @ \/ (echo /\ opened),
                   !.echoes = {echo} \cup (IF e.total = 0 THEN {} ELSE @)]

\* The SYN/ACK carries the flag of an echo, which negotiates ECN.
RecvSynAck ==
    LET x == update_ecnhat_alpha(1, TRUE)
        q == [s EXCEPT !.highest_ack_ = 1]
        v == [w EXCEPT !.cwnd_ = initial_window, !.dupacks_ = 0]
    IN /\ ~opened /\ opened' = TRUE
       /\ Sends(v, q, [x EXCEPT !.burst = TRUE])
       /\ Remember(TRUE)
       /\ UNCHANGED agent

\* process_ACK of a segment that acknowledges something new.
RecvAck(ackno, echo) ==
    LET partial == pack(ackno)
        x == update_ecnhat_alpha(ackno, echo)
        q == [s EXCEPT !.highest_ack_ = ackno, !.t_seqno_ = Largest(@, ackno)]
        y == IF partial /\ agent = "newreno"
             THEN [x EXCEPT !.maxseq = Largest(@, ackno + 1)] ELSE x
    IN /\ opened /\ ackno > s.highest_ack_ /\ ackno <= s.maxseq_
       /\ \E b \in IF echo THEN Penalty(agent, x.alpha) ELSE {0},
             weight \in IF agent = "lldct" THEN Weights ELSE {MaxWeight} :
            LET v == Echoed(AckAction(w, partial), ackno, echo, b)
            IN Sends(IF Opens(partial, echo) THEN opencwnd(v, agent = "lldct", weight) ELSE v,
                     q, [y EXCEPT !.burst = echo])
       /\ Remember(echo)
       /\ UNCHANGED <<agent, opened>>

\* A duplicate acknowledgement, v the window that has counted it.
Dup(v, echo) ==
    /\ opened /\ s.highest_ack_ < s.maxseq_
    /\ w.dupacks_ < MaxTotal /\ e.total < MaxTotal
    /\ v = [w EXCEPT !.dupacks_ = @ + 1]
    /\ Remember(echo)
    /\ UNCHANGED <<agent, opened>>

CountDup(echo) ==
    LET v == [w EXCEPT !.dupacks_ = @ + 1]
    IN /\ v.dupacks_ < RexmtThresh
       /\ Sends(v, s, update_ecnhat_alpha(s.highest_ack_, echo))
       /\ Dup(v, echo)

\* The one that starts a recovery.
Recover(echo) ==
    LET v == [w EXCEPT !.dupacks_ = @ + 1]
        x == update_ecnhat_alpha(s.highest_ack_, echo)
        back == [s EXCEPT !.t_seqno_ = s.highest_ack_]
    IN /\ v.dupacks_ = RexmtThresh
       /\ CASE ~Acts(v) -> Stays([v EXCEPT !.fastrecov_ = TRUE], s, x)
            [] Acts(v) /\ agent \in Sack -> Sends(dupack_action(v), s, Resends(x))
            [] Acts(v) /\ agent \in Reno -> Stays(dupack_action(v), s, Resends(x))
            [] Acts(v) /\ agent = "tahoe" /\ ~TahoeEcn(v) -> Sends(dupack_action(v), back, x)
            [] OTHER -> Stays(dupack_action(v), back, x)
       /\ Dup(v, echo)

\* Further ones inflate the window of Reno.
ExtraAck(echo) ==
    LET v == [w EXCEPT !.dupacks_ = @ + 1]
    IN /\ v.dupacks_ > RexmtThresh
       /\ Sends(IF agent \in Reno THEN [v EXCEPT !.cwnd_ = @ + Unit] ELSE v, s,
                update_ecnhat_alpha(s.highest_ack_, echo))
       /\ Dup(v, echo)

\* An acknowledgement of what is acknowledged.
OldAck(ackno, echo) ==
    /\ opened /\ ackno \in 1 .. s.highest_ack_ /\ e.total < MaxTotal
    /\ ackno < s.highest_ack_ \/ s.highest_ack_ = s.maxseq_
    /\ Sends([w EXCEPT !.dupacks_ = 0], s, update_ecnhat_alpha(ackno, echo))
    /\ Remember(echo)
    /\ UNCHANGED <<agent, opened>>

\* After a timeout the estimate starts from what is acknowledged.
Rewound(x) == [x EXCEPT !.recalc_seq = s.highest_ack_, !.maxseq = s.highest_ack_]

Timeout ==
    /\ s.highest_ack_ < s.maxseq_
    /\ Sends(timeout_action(w), [s EXCEPT !.t_seqno_ = s.highest_ack_], Rewound(e))
    /\ h' = [h EXCEPT !.cut = 0, !.lost = s.maxseq_]
    /\ UNCHANGED <<agent, opened>>

\* A pause for which slow_start_restart_ starts the window anew.
Restarted(v, idle) ==
    IF idle /\ s.highest_ack_ = s.maxseq_ THEN slowdown(v, {"CLOSE_CWND_INIT"}, 0) ELSE v

\* Another message of k segments, perhaps after a pause.
NewMessage(k, idle) ==
    LET v == [w EXCEPT !.cwnd_ = initial_window]
        q == [s EXCEPT !.curseq_ = @ + k]
    IN /\ q.curseq_ <= MaxSeq
       /\ IF opened THEN Sends(Restarted(v, idle), q, e) ELSE Stays(v, q, e)
       /\ UNCHANGED <<agent, opened, h>>

\* The agent is closed and used again: reset leaves the estimate as it is.
NewConnection(k) ==
    /\ opened /\ opened' = FALSE
    /\ s.highest_ack_ = s.curseq_ /\ h.connections < MaxConnections
    /\ w' = Fresh(w.count_, w.pipectrl_)
    /\ s' = Connecting(k)
    /\ e' = [e EXCEPT !.maxseq = Largest(@, 1)]
    /\ h' = [h EXCEPT !.connections = @ + 1, !.cut = 0, !.lost = 0]
    /\ UNCHANGED agent

Next ==
    \/ RecvSynAck
    \/ \E echo \in BOOLEAN :
         \/ \E ackno \in 1 .. MaxSeq : RecvAck(ackno, echo) \/ OldAck(ackno, echo)
         \/ CountDup(echo)
         \/ Recover(echo)
         \/ ExtraAck(echo)
    \/ Timeout
    \/ \E k \in Messages : \/ \E idle \in {FALSE, SlowStartRestart} : NewMessage(k, idle)
                           \/ NewConnection(k)

Spec == Init /\ [][Next]_vars

------------------------------------------------------------------------------
(* Properties                                                              *)

WindowRecord ==
    [cwnd_ : Nat, ssthresh_ : Nat, count_ : Nat, recover_ : Nat, dupacks_ : Nat,
     action_ : {"none", "DUPACK", "TIMEOUT", "ECN"}, fastrecov_ : BOOLEAN,
     pipectrl_ : BOOLEAN]
NumbersRecord == [highest_ack_ : Nat, t_seqno_ : Nat, maxseq_ : Nat, curseq_ : Nat]
EstimateRecord ==
    [alpha : 0 .. One, total : Nat, marked : Nat, recalc_seq : Nat, maxseq : Nat,
     burst : BOOLEAN]
HistoryRecord ==
    [connections : Nat, cut : Nat, sent : Nat, lost : Nat, echoes : SUBSET BOOLEAN,
     marked : BOOLEAN]

\* The shape of the state; no more is counted as marked than is counted.
TypeOK ==
    /\ agent \in Agents /\ opened \in BOOLEAN
    /\ w \in WindowRecord /\ s \in NumbersRecord
    /\ e \in EstimateRecord /\ e.marked <= e.total
    /\ h \in HistoryRecord

\* The window always lets a segment out, so that no sender waits for ever, and
\* without inflation never passes maxcwnd_ by a whole segment (tcp.cc:1297-1302).
WindowInRange ==
    /\ w.cwnd_ >= Unit /\ w.ssthresh_ >= 2
    /\ agent \notin Reno => w.cwnd_ < Unit * (MaxCwnd + 1)

\* An acknowledgement cuts the window only when it passes all that was sent at
\* the last cut, for an echo or a loss, and leaves at least half of it
\* (tcp.cc:1511-1514); a timeout starts afresh.
OneCutPerWindow ==
    [][(agent \in Sack /\ opened /\ s'.highest_ack_ > s.highest_ack_ /\ Cut)
          => (s'.highest_ack_ > h.cut /\ 2 * w'.cwnd_ >= windowd(w) - 1)]_vars

\* The estimate rises only in a window with an echo and falls only in one with
\* an acknowledgement without (tcp.cc:1565-1583).
AlphaFollowsEchoes ==
    [][/\ e'.alpha > e.alpha => TRUE \in h'.echoes
       /\ e'.alpha < e.alpha => FALSE \in h'.echoes]_vars

\* On a first connection the estimate is taken once a window: when an
\* acknowledgement passes what was sent at the last one, and no earlier unless a
\* timeout has sent the agent back (tcp.cc:1571).
EstimatePerWindow ==
    [][h.connections = 1 /\ s'.highest_ack_ > s.highest_ack_
          => /\ s'.highest_ack_ > h.sent => e'.total = 0
             /\ e'.total = 0 => s'.highest_ack_ > h.sent \/ s.highest_ack_ < h.lost]_vars

\* The estimate counts marks of routers (tcp-full.cc:957, tcp.cc:1548).
AlphaNeedsMarks == e.alpha > 0 => h.marked

\* When Reno leaves a recovery its window is what the recovery has set, a
\* segment more at most: the inflation is gone (tcp-full.cc:843-853).
DeflatedAfterRecovery ==
    [][agent = "reno" /\ w.fastrecov_ /\ ~w'.fastrecov_
          => w'.cwnd_ <= Unit * (w'.ssthresh_ + 1)]_vars
=============================================================================
