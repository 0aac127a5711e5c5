------------------------------ MODULE TcpOutput ------------------------------
(***************************************************************************)
(* What one FullTcp agent of the simulator (tcp/tcp-full.cc, the MinTCP    *)
(* agent over Sack that the scripts create) sends.  An agent is a record   *)
(* with the fields of the class; an operator named for a method takes the  *)
(* agent and returns it as the method leaves it, with the packets it sent  *)
(* in out.  The congestion window is not kept: w is the window, in         *)
(* segments, that the method finds.                                        *)
(***************************************************************************)
EXTENDS Integers, SequencesExt

CONSTANTS
    MaxSeg,       \* maxseg_, bytes of a full segment
    Wnd,          \* wnd_, the largest window in segments
    MaxBurst,     \* maxburst_, segments that one call sends at most; for its default 0,
                  \* no limit, any number that the window stays below
    PrioScheme,   \* prio_scheme_
    EnableKnown,  \* enable_known_: tag packets with the bytes that remain
    FairCopy      \* the copy of the agent for fair queuing: fairqueuing/tcp

ASSUME TcpOutputAssumption ==
    /\ MaxSeg \in Nat \ {0} /\ Wnd \in Nat \ {0} /\ MaxBurst \in Nat \ {0}
    /\ PrioScheme \in 0 .. 4
    /\ EnableKnown \in BOOLEAN /\ FairCopy \in BOOLEAN

ISS == 0             \* iss_
NoFin == -1          \* no FIN waits in the reassembly queue
Batch == 100 * 1460  \* where scheme 0 stops counting

Least(x, y) == IF x <= y THEN x ELSE y
Largest(x, y) == IF x >= y THEN x ELSE y

\* What reset() leaves; the rest of the agent outlives it.
Fresh ==
    [curseq_ |-> 0, maxseq_ |-> -1, highest_ack_ |-> -1, t_seqno_ |-> ISS,
     recover_ |-> 0, dupacks_ |-> 0, fastrecov_ |-> FALSE, pipe_ |-> 0,
     h_seqno_ |-> -1, sq_ |-> {}, rcv_nxt_ |-> -1, last_ack_sent_ |-> -1,
     rq_ |-> {}, rqfin |-> NoFin, flags_ |-> {}, close_on_empty_ |-> FALSE,
     prob_mode_ |-> FALSE, prob_count_ |-> 0, flow_remaining_ |-> -1,
     rtx_timer_ |-> FALSE]

reset(a) == [f \in DOMAIN Fresh \cup DOMAIN a |-> IF f \in DOMAIN Fresh THEN Fresh[f] ELSE a[f]]

cancel_timers(a) == [a EXCEPT !.rtx_timer_ = FALSE]

newstate(a, state) == [a EXCEPT !.state_ = state]

raise(a, flag) == [a EXCEPT !.flags_ = @ \cup {flag}]

outflags(a) ==
    CASE a.state_ = "LISTEN" -> {}
      [] a.state_ = "SYN_SENT" -> {"SYN"}
      [] a.state_ = "SYN_RECEIVED" -> {"SYN", "ACK"}
      [] a.state_ \in {"FIN_WAIT_1", "CLOSING", "LAST_ACK"} -> {"FIN", "ACK"}
      [] OTHER -> {"ACK"}

\* Mutant of Unknown: the last byte, curseq_, is left out of the bytes to come.
UnknownBare(a) == Largest(0, a.curseq_ - a.highest_ack_ - Cardinality(a.sq_))

\* Bytes the peer is not known to have; Sack adds 10.
Unknown(a) ==
    Largest(0, a.curseq_ - a.highest_ack_ - Cardinality(a.sq_) + 10)

\* The bytes that Unknown subtracts twice: acknowledged, and still on the
\* scoreboard.  A history, for the property about priorities.
Twice(a) == Cardinality({y \in a.sq_ : y < a.highest_ack_})

\* Scheme 4 looks once per window.
NewBatch(a) == PrioScheme = 4 /\ a.highest_ack_ >= a.seq_bound_

set_prio(a, seq) ==
    CASE PrioScheme = 0 -> Least(seq - a.startseq_, Batch)
      [] PrioScheme = 1 -> a.curseq_ - a.startseq_
      [] PrioScheme = 2 -> Unknown(a)
      [] PrioScheme = 3 -> seq - a.startseq_
      [] OTHER -> IF NewBatch(a) THEN Unknown(a) ELSE a.last_prio_

\* The priority field of a packet with len bytes from seqno on.
Priority(a, seqno, len) ==
    IF len = 0 THEN 0
    ELSE IF FairCopy THEN a.startseq_
    ELSE IF EnableKnown THEN a.curseq_ - seqno
    ELSE set_prio(a, seqno)

sendpacket(a, seqno, ackno, pflags, len) ==
    LET batch == len > 0 /\ NewBatch(a)
        twice == IF len = 0 THEN 0 ELSE IF batch \/ PrioScheme = 2 THEN Twice(a) ELSE a.twice
    IN [a EXCEPT
          !.last_ack_sent_ = ackno,
          !.seq_bound_ = IF batch THEN a.maxseq_ ELSE @,
          !.last_prio_ = IF batch THEN Unknown(a) ELSE @,
          !.twice      = IF batch THEN twice ELSE @,
          !.out = Append(@,
             [seqno |-> seqno, ackno |-> ackno, flags |-> pflags, len |-> len,
              sack |-> a.rq_, connection |-> a.connection_,
              prio |-> Priority(a, seqno, len), twice |-> twice])]

need_send(a) == "ACKNOW" \in a.flags_ \/ a.rcv_nxt_ > a.last_ack_sent_

\* done_data of the script.
bufferempty(a) == [a EXCEPT !.signal_on_empty_ = FALSE, !.done = @ + 1]

\* Bytes of the application not acknowledged yet.
Buffered(a) ==
    IF a.highest_ack_ < 0 THEN a.curseq_ - ISS ELSE a.curseq_ - a.highest_ack_ + 1

\* Payload of a segment from seqno on.
Payload(a, seqno, w) ==
    LET win  == IF a.prob_mode_ THEN 1 ELSE w * MaxSeg
        off  == seqno - Largest(a.highest_ack_, ISS)
        room == IF a.pipectrl_ THEN Buffered(a) ELSE Least(Buffered(a), win)
    IN IF seqno = ISS THEN 0 ELSE Largest(0, Least(room - off, MaxSeg))

\* A segment with payload may go: it is full, empties the buffer (nodelay_ is
\* on), repeats, fills half the window or probes.
WorthSending(a, seqno, len, emptying) ==
    /\ len > 0
    /\ \/ len = MaxSeg
       \/ emptying
       \/ seqno < a.maxseq_
       \/ 2 * len >= Wnd * MaxSeg
       \/ len = 1 /\ a.prob_mode_

\* The segment leaves; a pending close rides on it.
transmit(a, seqno, pflags, len) ==
    LET closes == /\ "NEEDCLOSE" \in a.flags_
                  /\ a.state_ \in {"LISTEN", "SYN_SENT", "SYN_RECEIVED", "ESTABLISHED"}
        fl  == IF closes THEN pflags \cup {"FIN"} ELSE pflags
        a1  == IF closes THEN newstate(a, "FIN_WAIT_1") ELSE a
        a2  == sendpacket(a1, seqno, a.rcv_nxt_, fl, len)
        amt == len + Cardinality(fl \cap {"SYN", "FIN"})
    IN [amt |-> amt,
        agent |-> [a2 EXCEPT
           !.flags_ = @ \ {"NEEDCLOSE", "ACKNOW", "DELACK"},
           !.maxseq_ = Largest(@, seqno + amt),
           !.rtx_timer_ = @ \/ amt > 0]]

\* done_data is called once nothing is outstanding.
SignalEmpty(a, seqno) ==
    IF a.signal_on_empty_ /\ Buffered(a) = 0 /\ seqno # ISS THEN bufferempty(a) ELSE a

\* The segment that empties the buffer of an idle agent may close.
CloseOnEmpty(a, seqno, emptying) ==
    IF emptying /\ seqno # ISS /\ a.highest_ack_ = a.maxseq_ /\ a.close_on_empty_
    THEN raise(a, "NEEDCLOSE") ELSE a

SendIfReason(a, seqno, len, emptying) ==
    LET pflags == IF emptying THEN outflags(a) ELSE outflags(a) \ {"FIN"}
    IN IF \/ WorthSending(a, seqno, len, emptying)
          \/ need_send(a)
          \/ "NEEDCLOSE" \in a.flags_
          \/ pflags \cap {"SYN", "FIN"} # {}
       THEN transmit(a, seqno, pflags, len)
       ELSE [amt |-> 0, agent |-> a]

Segment(a, seqno, len) ==
    LET emptying == seqno + len > a.curseq_ \/ seqno = ISS
    IN SendIfReason(CloseOnEmpty(a, seqno, emptying), seqno, len, emptying)

\* Send a segment from seqno on if there is a reason to.
foutput(a, seqno, w) == Segment(SignalEmpty(a, seqno), seqno, Payload(a, seqno, w))

\* The first byte at or after seq that is not in queue.
NextHole(queue, seq) ==
    CHOOSE x \in {seq} \cup {y + 1 : y \in queue} :
        x >= seq /\ x \notin queue /\ \A y \in seq .. x - 1 : y \in queue

\* In recovery a hole below a reported block goes before new data; h_seqno_
\* moves to it.
nxt_tseq(a) ==
    LET hole == NextHole(a.sq_, a.h_seqno_)
    IN IF a.highest_ack_ < a.recover_ /\ hole > 0 /\ \E y \in a.sq_ : y > hole
       THEN [seq |-> hole, agent |-> [a EXCEPT !.h_seqno_ = hole]]
       ELSE [seq |-> a.t_seqno_, agent |-> a]

send_allowed(a, seq, w) ==
    IF a.pipectrl_
    THEN /\ seq < a.highest_ack_ + Wnd * MaxSeg
         /\ a.state_ = "ESTABLISHED" \/ seq <= a.curseq_
         /\ a.pipe_ < w * MaxSeg
    ELSE seq < Least(a.curseq_, a.highest_ack_ + (IF a.prob_mode_ THEN 1 ELSE w * MaxSeg))

sent(a, seq, amt) ==
    [a EXCEPT !.h_seqno_ = IF seq = @ THEN @ + amt ELSE @,
              !.t_seqno_ = IF seq = @ THEN @ + amt ELSE @,
              !.pipe_    = IF a.pipectrl_ THEN @ + amt ELSE @]

\* One round of send_much.  The loop goes on until a SYN or FIN has left; a FIN is
\* not counted.
Round(a, force, w) ==
    LET next == nxt_tseq(a)
        o    == foutput(next.agent, next.seq, w)
        fl   == outflags(o.agent)
    IN IF ~(force \/ send_allowed(next.agent, next.seq, w))
       THEN [agent |-> next.agent, more |-> FALSE]
       ELSE IF o.amt = 0
       THEN [agent |-> o.agent, more |-> FALSE]
       ELSE [agent |-> sent(o.agent, next.seq, IF "FIN" \in fl THEN o.amt - 1 ELSE o.amt),
             more |-> fl \cap {"SYN", "FIN"} = {}]

\* Segment after segment while the window has room, maxburst_ of them at most; force
\* makes the first one go.
send_much(a, force, w) ==
    LET round[n \in 1 .. MaxBurst] ==
            IF n = 1 THEN Round(a, force, w)
            ELSE LET last == round[n - 1]
                 IN IF last.more THEN Round(last.agent, FALSE, w) ELSE last
    IN round[MaxBurst].agent
==============================================================================
