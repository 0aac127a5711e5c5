------------------------------- MODULE FullTcp -------------------------------
(***************************************************************************)
(* A TCP connection of the simulator (tcp/tcp-full.cc): a sender and a     *)
(* receiver agent as the scripts create them, and a network that reorders  *)
(* packets.  recv is one step, split here as its labels split it.  Lost    *)
(* packets and timeouts that come too early are faults, MaxFaults of them; *)
(* when nothing is under way a timeout is free.                            *)
(***************************************************************************)
EXTENDS TcpOutput

CONSTANTS
    Windows,      \* windows (segments) congestion control may leave
    RexmtThresh,  \* tcprexmtthresh_
    ProbCap,      \* prob_cap_, 0 for no probing
    Scripts,      \* what senders do: sequences of messages, [len, flag]
    Closers,      \* the agents whose application may call close
    MaxFaults

ASSUME FullTcpAssumption ==
    /\ Windows \subseteq 1 .. Wnd /\ Windows # {}
    /\ RexmtThresh \in Nat \ {0} /\ ProbCap \in Nat /\ MaxFaults \in Nat
    /\ Closers \subseteq {"sender", "receiver"}
    /\ \A messages \in Scripts :
         messages \in Seq([len : Nat \ {0}, flag : {"DAT_EOF", "MSG_EOF"}])

VARIABLES
    script,   \* the messages of this sender, does not change
    tcp,      \* the two agents
    net,      \* packets under way, with the agent each one is for
    closing,  \* the agents whose application has asked to close
    got,      \* the bytes that have reached the open receiver, a history
    faults

vars == <<script, tcp, net, closing, got, faults>>

Agents == {"sender", "receiver"}
Other(x) == CHOOSE y \in Agents : y # x

HaveReceivedFin == {"CLOSING", "CLOSED", "CLOSE_WAIT"}

Created == [state_ |-> "CLOSED", startseq_ |-> 0, connection_ |-> 0,
            signal_on_empty_ |-> FALSE, pipectrl_ |-> FALSE, seq_bound_ |-> 0,
            last_prio_ |-> 0, twice |-> 0, done |-> 0, out |-> <<>>]

Init ==
    /\ script \in Scripts
    /\ tcp = [x \in Agents |->
                newstate(reset(Created), IF x = "receiver" THEN "LISTEN" ELSE "CLOSED")]
    /\ net = EmptyBag
    /\ closing = {}
    /\ got = {}
    /\ faults = 0

------------------------------------------------------------------------------
(* The application                                                         *)

connect(a, w) ==
    LET o == foutput(newstate(a, "SYN_SENT"), ISS, w) IN sent(o.agent, ISS, o.amt)

\* nb more bytes: a new connection, or one more message on this one.
advance_bytes(a, nb, w) ==
    CASE a.state_ \in {"CLOSED", "LISTEN"} ->
           connect([reset(a) EXCEPT !.startseq_ = ISS, !.connection_ = @ + 1,
                       !.curseq_ = ISS + nb, !.seq_bound_ = -1], w)
      [] a.state_ \in {"ESTABLISHED", "SYN_SENT", "SYN_RECEIVED"} ->
           LET a1 == [a EXCEPT !.startseq_ = a.curseq_, !.connection_ = @ + 1,
                         !.curseq_ = @ + nb, !.seq_bound_ = -1]
           IN IF a.state_ = "ESTABLISHED" THEN send_much(a1, FALSE, w) ELSE a1
      [] OTHER -> a

\* With MSG_EOF a FIN follows the last byte, with DAT_EOF done_data is called.
sendmsg(a, nb, flag, w) ==
    advance_bytes([a EXCEPT !.close_on_empty_ = @ \/ flag = "MSG_EOF",
                            !.signal_on_empty_ = @ \/ flag = "DAT_EOF"], nb, w)

\* The state after close, where one leaves a FIN to send.
AfterClose ==
    [SYN_SENT |-> "CLOSED", SYN_RECEIVED |-> "FIN_WAIT_1", ESTABLISHED |-> "FIN_WAIT_1",
     CLOSE_WAIT |-> "LAST_ACK", LAST_ACK |-> "LAST_ACK"]

usrclosed(a, w) ==
    LET c == [a EXCEPT !.curseq_ = a.maxseq_ - 1]
    IN CASE a.state_ \in {"CLOSED", "LISTEN"} -> newstate(cancel_timers(c), "CLOSED")
         [] a.state_ \in DOMAIN AfterClose ->
              send_much(newstate(raise(c, "NEEDFIN"), AfterClose[a.state_]), TRUE, w)
         [] OTHER -> c

------------------------------------------------------------------------------
(* Timers                                                                  *)

\* MinTCP counts towards a probe first.
timeout_action(a) ==
    LET n == Least(a.prob_count_ + 1, ProbCap + 1)
        b == IF ProbCap = 0 THEN a
             ELSE [a EXCEPT !.prob_count_ = n, !.prob_mode_ = @ \/ n = ProbCap,
                            !.h_seqno_ = a.highest_ack_]
    IN [b EXCEPT !.recover_ = a.maxseq_, !.rtx_timer_ = TRUE, !.fastrecov_ = FALSE,
                 !.t_seqno_ = Largest(a.highest_ack_, ISS), !.dupacks_ = 0]

timeout(a, w) == send_much(timeout_action(a), TRUE, w)

------------------------------------------------------------------------------
(* recv: acknowledgements                                                  *)

newack(a, ackno) ==
    LET una == Largest(a.highest_ack_, ackno)
    IN [a EXCEPT !.rtx_timer_ = ackno # a.maxseq_ /\ (@ \/ ackno > a.highest_ack_),
                 !.highest_ack_ = una,
                 !.t_seqno_ = Largest(@, una)]

\* What is below highest_ack_ leaves the scoreboard, the holes start there.
ClearToAck(a) ==
    [a EXCEPT !.sq_ = {y \in @ : y >= a.highest_ack_},
              !.h_seqno_ = Largest(@, a.highest_ack_)]

pack_action(a) == [ClearToAck(a) EXCEPT !.pipe_ = IF a.pipectrl_ THEN @ - MaxSeg ELSE @]

ack_action(a) ==
    [ClearToAck(a) EXCEPT !.fastrecov_ = FALSE, !.pipectrl_ = FALSE,
                          !.pipe_ = 0, !.dupacks_ = 0]

\* Mutant of process_sack: every byte up to the last reported one.
ProcessSackAll(a, sack) ==
    [a EXCEPT !.sq_ = @ \cup (IF sack = {} THEN {} ELSE a.highest_ack_ .. Max(sack))]

process_sack(a, sack) == [a EXCEPT !.sq_ = @ \cup sack]

\* The bytes in flight.
InFlight(a) == a.maxseq_ - a.highest_ack_ - Cardinality(a.sq_)

\* The first hole is sent again, holes behind it follow.
Resent(a, o, w) == send_much([o.agent EXCEPT !.h_seqno_ = a.highest_ack_ + o.amt], FALSE, w)

\* Fast retransmit, unless the last one has not recovered.  ecnCut: the window
\* was last cut by an ECN echo, then it does not wait for that.
dupack_action(a, w, ecnCut) ==
    IF a.highest_ack_ > a.recover_ \/ ecnCut
    THEN Resent(a, foutput([a EXCEPT !.fastrecov_ = TRUE, !.rtx_timer_ = FALSE,
                              !.recover_ = a.maxseq_, !.pipectrl_ = TRUE,
                              !.pipe_ = InFlight(a)],
                           a.highest_ack_, w), w)
    ELSE [a EXCEPT !.fastrecov_ = TRUE,
                   !.pipe_ = IF a.pipectrl_ THEN InFlight(a) ELSE @]

dropafterack(a, w) == send_much(raise(a, "ACKNOW"), TRUE, w)

dropwithreset(a, p) ==
    IF "ACK" \in p.flags THEN sendpacket(a, p.ackno, 0, {}, 0)
    ELSE sendpacket(a, 0, p.seqno + p.len - (IF "SYN" \in p.flags THEN 1 ELSE 0), {"ACK"}, 0)

------------------------------------------------------------------------------
(* recv: data and FIN                                                      *)

\* The bytes that remain of the message, and an answer at its end.
countdown(a, bytes) ==
    LET n == IF a.flow_remaining_ > 0 THEN a.flow_remaining_ - bytes ELSE a.flow_remaining_
    IN IF n = 0 THEN [raise(a, "ACKNOW") EXCEPT !.flow_remaining_ = -1]
       ELSE [a EXCEPT !.flow_remaining_ = n]

\* Mutant of Filled: the payload of the segment.
FilledPayload(a, next, p) == p.len

\* The bytes a segment that fills a hole brings into order; the copy for fair
\* queuing counts the segment's payload only.
Filled(a, next, p) == IF FairCopy THEN p.len ELSE next - a.rcv_nxt_

\* The segment joins the queue; up to the first missing byte all is passed on.
reass(a, p) ==
    LET queue == a.rq_ \cup (p.seqno .. p.seqno + p.len - 1)
        fin   == IF "FIN" \in p.flags THEN p.seqno + p.len ELSE a.rqfin
        next  == IF p.seqno = a.rcv_nxt_
                 THEN NextHole(queue, a.rcv_nxt_) ELSE a.rcv_nxt_
    IN [fin |-> p.seqno = a.rcv_nxt_ /\ fin # NoFin /\ fin = next,
        agent |-> [a EXCEPT !.rq_ = {y \in queue : y >= next},
                            !.rqfin = IF fin = next THEN NoFin ELSE fin,
                            !.rcv_nxt_ = next]]

\* Data and FIN of a segment whose start is trimmed: taken at once when it is
\* the next one and nothing waits, queued otherwise.
Take(a, p) ==
    LET inOrder == p.seqno = a.rcv_nxt_ /\ a.rq_ = {} /\ a.rqfin = NoFin
        b == [raise(a, "DELACK") EXCEPT !.rcv_nxt_ = @ + p.len]
        r == reass(a, p)
    IN IF inOrder
       THEN [fin |-> "FIN" \in p.flags, agent |-> IF p.len > 0 THEN countdown(b, p.len) ELSE b]
       ELSE [fin |-> r.fin,
             agent |-> raise(IF r.agent.rcv_nxt_ > a.rcv_nxt_
                             THEN countdown(r.agent, Filled(a, r.agent.rcv_nxt_, p))
                             ELSE r.agent, "ACKNOW")]

\* Mutant of TakeFin: a FIN does not use a sequence number.
TakeFinFree(a) ==
    newstate(raise(a, "ACKNOW"), IF a.state_ = "ESTABLISHED" THEN "CLOSE_WAIT" ELSE "CLOSED")

TakeFin(a) ==
    LET b == [raise(a, "ACKNOW") EXCEPT !.rcv_nxt_ = @ + 1]
    IN CASE a.state_ \in {"SYN_RECEIVED", "ESTABLISHED"} -> newstate(b, "CLOSE_WAIT")
         [] a.state_ = "FIN_WAIT_1" -> newstate(b, "CLOSING")
         [] a.state_ = "FIN_WAIT_2" -> newstate(cancel_timers(b), "CLOSED")
         [] OTHER -> b

\* A passive closer whose data is acknowledged closes.
CloseWaiting(a, w) ==
    IF a.state_ = "CLOSE_WAIT" /\ a.highest_ack_ = a.maxseq_ THEN usrclosed(a, w) ELSE a

\* Output after a segment.
Answer(a, needoutput, w) ==
    LET force == needoutput \/ "ACKNOW" \in a.flags_
    IN CloseWaiting(IF force \/ a.curseq_ >= a.highest_ack_
                    THEN send_much(a, force, w) ELSE a, w)

\* t is what Take returned.
Taken(t, needoutput, w) ==
    Answer(IF t.fin THEN TakeFin(t.agent) ELSE t.agent,
           needoutput \/ need_send(t.agent), w)

step6(a, p, needoutput, w) ==
    IF (p.len > 0 \/ "FIN" \in p.flags) /\ a.state_ \notin HaveReceivedFin
    THEN Taken(Take(a, p), needoutput, w)
    ELSE Answer(a, needoutput, w)

------------------------------------------------------------------------------
(* recv                                                                    *)

AckAction(a, p, partial) ==
    IF partial THEN pack_action(newack(a, p.ackno)) ELSE ack_action(newack(a, p.ackno))

\* The state after everything, the FIN included, is acknowledged.
AllAcked(a) ==
    CASE a.state_ = "FIN_WAIT_1" -> newstate(cancel_timers(a), "FIN_WAIT_2")
      [] a.state_ = "CLOSING" -> newstate(cancel_timers(a), "CLOSED")
      [] OTHER -> a

process_ACK(a, p, w) ==
    LET c == AckAction(a, p, /\ a.fastrecov_ /\ p.ackno >= a.highest_ack_
                             /\ p.ackno < a.recover_)
        all == p.ackno = a.maxseq_
    IN CASE p.ackno > a.maxseq_ -> dropafterack(a, w)
         [] all /\ a.state_ = "LAST_ACK" -> reset(newstate(c, "CLOSED"))
         [] OTHER -> step6(IF all THEN AllAcked(c) ELSE c, p,
                           all /\ a.state_ # "FIN_WAIT_1", w)

\* An acknowledgement that does not advance, with a payload or without.
OldAck(a, p, duplicate, w, ecnCut) ==
    LET other == p.len > 0 \/ duplicate
        stale == ~a.rtx_timer_ \/ p.ackno < a.highest_ack_
        n == [a EXCEPT !.dupacks_ = Least(@ + 1, RexmtThresh + 1)]
    IN IF other \/ stale \/ n.dupacks_ < RexmtThresh
       THEN step6(IF other THEN a ELSE IF stale THEN [a EXCEPT !.dupacks_ = 0] ELSE n,
                  p, FALSE, w)
       ELSE IF n.dupacks_ = RexmtThresh THEN dupack_action(n, w, ecnCut)
       ELSE send_much(n, FALSE, w)

ProcessAck(a, p, duplicate, w, ecnCut) ==
    LET b == process_sack(a, p.sack)
        c == IF a.fastrecov_ /\ a.pipectrl_ /\ (p.len = 0 \/ p.ackno > a.highest_ack_)
             THEN [b EXCEPT !.pipe_ = @ - MaxSeg] ELSE b
    IN IF p.ackno <= a.highest_ack_ THEN OldAck(c, p, duplicate, w, ecnCut)
       ELSE process_ACK(c, p, w)

\* What the agent has already is cut off the front; a SYN leaves too.
Trim(a, p) ==
    LET syn   == "SYN" \in p.flags
        first == IF syn THEN p.seqno + 1 ELSE p.seqno
        over  == a.rcv_nxt_ - first
        dup   == over > p.len \/ (over = p.len /\ "FIN" \notin p.flags)
        cut   == IF dup THEN p.len ELSE over
    IN IF a.rcv_nxt_ <= p.seqno \/ ~(syn \/ p.len > 0)
       THEN [duplicate |-> FALSE, packet |-> p, agent |-> a]
       ELSE [duplicate |-> dup,
             packet |-> [p EXCEPT !.seqno = first + cut, !.len = @ - cut,
                           !.flags = @ \ (IF dup THEN {"SYN", "FIN"} ELSE {"SYN"})],
             agent |-> IF dup THEN raise(a, "ACKNOW") ELSE a]

Opened(a) == IF "NEEDFIN" \in a.flags_
             THEN [newstate(a, "FIN_WAIT_1") EXCEPT !.flags_ = @ \ {"NEEDFIN"}]
             ELSE newstate(a, "ESTABLISHED")

RecvListen(a, p, w) ==
    CASE "ACK" \in p.flags -> dropwithreset(a, p)
      [] p.flags \cap {"ACK", "SYN"} = {} -> a
      [] OTHER ->
           step6([newstate(raise(a, "ACKNOW"), "SYN_RECEIVED") EXCEPT
                     !.t_seqno_ = ISS, !.rcv_nxt_ = p.seqno + p.len + 1],
                 [p EXCEPT !.seqno = @ + 1], FALSE, w)

\* The acknowledgement of the peer's SYN is a packet of its own.
AckSyn(a, p, w) == process_ACK(sendpacket(a, a.t_seqno_, a.rcv_nxt_, {"ACK"}, 0), p, w)

RecvSynSent(a, p, w) ==
    LET q == [p EXCEPT !.seqno = @ + 1]
        b == [a EXCEPT !.rcv_nxt_ = p.seqno + p.len + 1]
        bad == "ACK" \in p.flags /\ (p.ackno <= ISS \/ p.ackno > a.maxseq_)
    IN CASE bad -> dropwithreset(a, p)
         [] ~bad /\ "SYN" \notin p.flags -> a
         [] ~bad /\ {"SYN", "ACK"} \subseteq p.flags ->
              AckSyn(Opened(raise([b EXCEPT !.highest_ack_ = p.ackno],
                                  IF p.len > 0 THEN "DELACK" ELSE "ACKNOW")), q, w)
         [] OTHER ->
              step6([newstate(cancel_timers(raise(b, "ACKNOW")), "SYN_RECEIVED")
                        EXCEPT !.t_seqno_ = @ - 1], q, FALSE, w)

\* Every other state.
RecvTrimmed(a, p, duplicate, w, ecnCut) ==
    CASE "SYN" \in p.flags -> dropwithreset(a, p)
      [] p.flags \cap {"SYN", "ACK"} = {} -> a
      [] /\ a.state_ = "SYN_RECEIVED" /\ p.flags \cap {"SYN", "ACK"} = {"ACK"}
         /\ p.ackno < a.highest_ack_ \/ p.ackno > a.maxseq_ -> dropwithreset(a, p)
      [] OTHER ->
           ProcessAck(IF a.state_ = "SYN_RECEIVED" THEN Opened(a) ELSE a,
                      p, duplicate, w, ecnCut)

RecvOther(a, p, w, ecnCut) ==
    LET t == Trim(a, p) IN RecvTrimmed(t.agent, t.packet, t.duplicate, w, ecnCut)

predict_ok(a, p) ==
    /\ a.state_ = "ESTABLISHED" /\ "NEEDFIN" \notin a.flags_
    /\ p.flags \cap {"SYN", "FIN", "ACK"} = {"ACK"}
    /\ p.seqno = a.rcv_nxt_ /\ p.sack = {}
    /\ a.t_seqno_ = a.maxseq_

\* The two short cuts of header prediction.
PredictedAck(a, p, w) ==
    /\ predict_ok(a, p) /\ p.len = 0 /\ w = Wnd /\ ~a.fastrecov_
    /\ p.ackno > a.highest_ack_ /\ p.ackno < a.maxseq_

PredictedData(a, p) ==
    /\ predict_ok(a, p) /\ p.len > 0 /\ p.ackno = a.highest_ack_
    /\ a.rq_ = {} /\ a.rqfin = NoFin

AfterPredicted(a, w) == IF need_send(a) THEN send_much(a, TRUE, w) ELSE a

recv(a0, p, w, ecnCut) ==
    LET a == [a0 EXCEPT !.prob_mode_ = FALSE, !.prob_count_ = 0]
    IN CASE a.state_ = "CLOSED" -> IF "FIN" \in p.flags THEN dropafterack(a, w) ELSE a
         [] PredictedAck(a, p, w) -> send_much(newack(a, p.ackno), FALSE, w)
         [] PredictedData(a, p) -> AfterPredicted(Take(a, p).agent, w)
         [] a.state_ = "LISTEN" -> RecvListen(a, p, w)
         [] a.state_ = "SYN_SENT" -> RecvSynSent(a, p, w)
         [] a.state_ = "LAST_ACK" /\ "FIN" \in p.flags -> a
         [] OTHER -> RecvOther(a, p, w, ecnCut)

------------------------------------------------------------------------------
(* The connection                                                          *)

\* The packets in out, on their way to x.
Sent(x, out) ==
    [m \in {<<x, out[n]>> : n \in DOMAIN out} |->
        Cardinality({n \in DOMAIN out : out[n] = m[2]})]

\* The agent x becomes a, its packets join bag.
Step(x, a, bag) ==
    /\ tcp' = [tcp EXCEPT ![x] = [a EXCEPT !.out = <<>>]]
    /\ net' = bag (+) Sent(Other(x), a.out)

Idle(a) == ~a.signal_on_empty_ /\ a.highest_ack_ > a.curseq_

\* The script starts the next message when the one before is done; one with
\* MSG_EOF closes the connection.
Start(w) ==
    LET s == tcp["sender"]
        n == s.connection_ + 1
        a == sendmsg(s, script[n].len, script[n].flag, w)
    IN /\ closing = {} /\ n <= Len(script) /\ ~s.signal_on_empty_
       /\ s.state_ \in {"CLOSED", "ESTABLISHED"}
       /\ script[n].flag = "MSG_EOF" => s.state_ = "ESTABLISHED"
       /\ tcp' = [tcp EXCEPT !["sender"] = [a EXCEPT !.out = <<>>],
                             !["receiver"].flow_remaining_ = script[n].len]
       /\ net' = net (+) Sent("receiver", a.out)
       /\ closing' = IF script[n].flag = "MSG_EOF" THEN {"sender"} ELSE {}
       /\ UNCHANGED <<script, got, faults>>

\* close of the application, when nothing is outstanding.
Close(x, w) ==
    /\ x \in Closers \ closing /\ tcp[x].state_ = "ESTABLISHED"
    /\ tcp["sender"].connection_ = Len(script)
    /\ Idle(tcp["sender"])
    /\ closing' = closing \cup {x}
    /\ Step(x, usrclosed(tcp[x], w), net)
    /\ UNCHANGED <<script, got, faults>>

\* ecnCut is looked at by an agent in recovery only.
Receive(x, p, w, ecnCut) ==
    /\ BagIn(<<x, p>>, net)
    /\ ecnCut => tcp[x].highest_ack_ <= tcp[x].recover_
    /\ Step(x, recv(tcp[x], p, w, ecnCut), net (-) SetToBag({<<x, p>>}))
    /\ got' = IF x = "receiver" /\ tcp[x].state_ \notin {"LISTEN", "CLOSED"}
              THEN got \cup (p.seqno .. p.seqno + p.len - 1) ELSE got
    /\ UNCHANGED <<script, closing, faults>>

Timeout(x, w) ==
    /\ tcp[x].rtx_timer_ /\ tcp[x].state_ # "LISTEN"
    /\ net # EmptyBag => faults < MaxFaults
    /\ faults' = IF net = EmptyBag THEN faults ELSE faults + 1
    /\ Step(x, timeout([tcp[x] EXCEPT !.rtx_timer_ = FALSE], w), net)
    /\ UNCHANGED <<script, closing, got>>

Lose(x, p) ==
    /\ BagIn(<<x, p>>, net)
    /\ faults < MaxFaults
    /\ faults' = faults + 1
    /\ net' = net (-) SetToBag({<<x, p>>})
    /\ UNCHANGED <<script, tcp, closing, got>>

ReceiveAny == \E m \in DOMAIN net, w \in Windows, ecnCut \in BOOLEAN :
                  Receive(m[1], m[2], w, ecnCut)

TimeoutAny(x) == \E w \in Windows : Timeout(x, w)

Next ==
    \/ \E w \in Windows : Start(w)
    \/ \E x \in Agents, w \in Windows : Close(x, w)
    \/ ReceiveAny
    \/ \E x \in Agents : TimeoutAny(x)
    \/ \E m \in DOMAIN net : Lose(m[1], m[2])

\* A step that takes a packet off the network and is no fault is a Receive.
Arrival ==
    /\ faults' = faults
    /\ \E m \in DOMAIN net : m \in DOMAIN net' => net'[m] < net[m]

\* ENABLED of Receive and of a timeout that changes something.
CanReceive == net # EmptyBag

CanTimeout(x) ==
    /\ tcp[x].rtx_timer_ /\ tcp[x].state_ # "LISTEN"
    /\ net # EmptyBag => faults < MaxFaults
    /\ \/ net # EmptyBag
       \/ \E w \in Windows : timeout([tcp[x] EXCEPT !.rtx_timer_ = FALSE], w) # tcp[x]

\* The scheduler of the simulator runs every event it holds: packets arrive (weak
\* fairness), and a timer expires whatever the network carries (strong fairness:
\* the budget of faults disables it while packets are under way).  Both are
\* written out, for ENABLED of steps this deep is slow in TLC.
Spec ==
    /\ Init /\ [][Next]_vars
    /\ []<>(~CanReceive) \/ []<><<Arrival>>_vars
    /\ \A x \in Agents : <>[](~CanTimeout(x)) \/ []<><<TimeoutAny(x)>>_vars

------------------------------------------------------------------------------
(* Properties                                                              *)

\* The last byte of the first k messages; bytes count from ISS + 1.
End[k \in 0 .. Len(script)] ==
    IF k = 0 THEN ISS ELSE End[k - 1] + script[k].len

\* Through loss, reordering, early timeouts, recovery and probes, every byte the
\* sender takes for acknowledged, every byte on its scoreboard, and every byte of
\* the messages for which it has called done_data, has arrived (newack, tcp-full.cc
\* 1558-1571; process_sack 3526-3557; reass 753-796; foutput 1211-1223).
AckedIsDelivered ==
    LET s == tcp["sender"]
    IN (ISS + 1 .. Largest(Least(s.highest_ack_ - 1, s.curseq_), End[s.done]))
           \cup s.sq_ \subseteq got

\* The bytes of the k-th message.
Message(k) == End[k - 1] + 1 .. End[k]

\* The priority of a packet under way, also one computed for a batch before this
\* one, covers what its message still lacks at the receiver but for the bytes that
\* were subtracted twice, and stays within the message's length and the spare 10
\* (set_prio 3306-3330, reset by advance_bytes 359-419).
PrioNearRemaining ==
    \A m \in DOMAIN net :
        LET p == m[2]
            bytes == Message(p.connection)
        IN m[1] = "receiver" /\ p.len > 0 =>
           /\ p.prio >= Cardinality(bytes \ got) - p.twice
           /\ p.prio <= Cardinality(bytes) + 9

\* "remaining size" (README.md:6) for "Shortest Remaining Processing Time first"
\* (ns2/README.md:6): the priority covers what its message lacks.
PrioCoversRemaining ==
    \A m \in DOMAIN net :
        LET p == m[2]
        IN m[1] = "receiver" /\ p.len > 0 =>
           p.prio >= Cardinality(Message(p.connection) \ got)

\* The receiver knows how many bytes of the message are missing in order,
\* whichever way they came (flow_remaining_, recv 1976-1984, 2827-2866).
FlowRemaining ==
    LET r == tcp["receiver"]
        left == End[tcp["sender"].connection_] - Largest(r.rcv_nxt_, ISS + 1) + 1
    IN r.state_ \in {"LISTEN", "SYN_RECEIVED", "ESTABLISHED"} =>
       r.flow_remaining_ = IF left > 0 THEN left ELSE -1

\* What the applications ask for is done at last, on timers alone if need be: a
\* message is acknowledged to its end (done_data), a close closes both agents.
RequestsComplete ==
    tcp["sender"].signal_on_empty_ \/ closing # {} ~>
        /\ ~tcp["sender"].signal_on_empty_
        /\ closing # {} => \A x \in Agents : tcp[x].state_ = "CLOSED"
==============================================================================
