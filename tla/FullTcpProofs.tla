---------------------------- MODULE FullTcpProofs ----------------------------
(***************************************************************************)
(* The connection of FullTcp, for any messages, windows, thresholds,       *)
(* bursts, probing and number of faults: what the sender takes for         *)
(* acknowledged has arrived, the receiver's countdown is what is missing,  *)
(* and a priority measured from the scoreboard is near what remains.       *)
(*                                                                         *)
(* FullInv is the inductive invariant.  Its heart is Known: below an       *)
(* acknowledgement number every byte has arrived, wherever the number is:  *)
(* highest_ack_, rcv_nxt_ or a packet under way.  A FIN has a number too,  *)
(* past the last byte: none is under way while the sender may still get    *)
(* another message (IsOpen), so none can stand for a byte.  Priorities are *)
(* SPrio and PrioNet: what set_prio counts as arrived lies above the first *)
(* byte of the last message, as acknowledged bytes reach into it.          *)
(*                                                                         *)
(* An agent's invariant reads the other agent through a record k, so that  *)
(* each method is a lemma about one record.  For the sender (lemmas S...)  *)
(*   s, e  the messages, and the last byte of the first of them            *)
(*   G     the bytes that have arrived        q  no application has closed *)
(*   n     rcv_nxt_ of the receiver                                        *)
(*   m     its connection_                                                 *)
(*   x, p, w  its curseq_ and whether it was in Open and did wait (Waits)  *)
(*            before the step, which may only lower them                   *)
(* and for the receiver (lemmas R...)                                      *)
(*   c, E  curseq_ of the sender, and the last byte of its last message    *)
(*   G     as above                           o  the sender is IsOpen      *)
(*   q     no FIN of its own can be under way (IsQuiet)                    *)
(*   m     its rcv_nxt_ before the step, which only raises it              *)
(* SView and RView make these records from the state.  The lemmas climb    *)
(* from sendpacket to recv; then a step of one agent keeps the invariant   *)
(* of the other (SWeaker, RWeaker), and each action keeps FullInv.         *)
(***************************************************************************)
EXTENDS FullTcp, Arithmetic, FiniteSetTheorems, SequenceTheorems

------------------------------------------------------------------------------
(* The invariant *)

\* The states of a sender that has sent no FIN.
Open == {"SYN_SENT", "ESTABLISHED", "CLOSE_WAIT"}
\* The states of an agent that has asked to close.
Fin == {"FIN_WAIT_1", "FIN_WAIT_2", "CLOSING", "LAST_ACK"}
\* The states of a receiver that has seen no FIN and not closed.
Named == {"LISTEN", "SYN_RECEIVED", "ESTABLISHED"}
\* The fields of an agent.
Fields == DOMAIN Created \cup DOMAIN Fresh

\* The bytes up to c that lie before n have arrived.
Known(n, c, G) == \A y \in 1 .. c : y < n => y \in G

\* No FIN of the sender can be under way.
IsOpen(a, k) == k.q \/ a.state_ \in Open

\* Bytes are not acknowledged and no FIN has left: the receiver has no reason to close.
Waits(a) == a.state_ \in Open /\ a.highest_ack_ <= a.curseq_

\* No FIN of the receiver can be under way.
IsQuiet(a, k) == k.q \/ Waits(a)

\* The fields of a packet.
PacketFields == {"seqno", "ackno", "flags", "len", "sack", "connection", "prio", "twice"}

\* A packet the receiver can take: its bytes are bytes of the messages, its FIN lies
\* past curseq_ and comes from a sender that is no longer open.
ToReceiver(p, c, E, o) ==
    /\ DOMAIN p = PacketFields
    /\ p.seqno \in Int /\ p.len \in Nat
    /\ p.len > 0 => p.seqno >= 1 /\ p.seqno + p.len <= E + 1
    /\ "FIN" \in p.flags => ~o /\ p.seqno + p.len > c
    /\ "SYN" \in p.flags => p.seqno = 0 /\ p.len = 0 /\ "FIN" \notin p.flags

\* A packet the sender can take: what it acknowledges and reports has arrived, and
\* before a close it is not ahead of the receiver.
ToSender(p, c, G, q, o, n) ==
    /\ DOMAIN p = PacketFields
    /\ p.ackno \in Int /\ Known(p.ackno, c, G) /\ p.sack \subseteq G
    /\ o => p.ackno <= c + 1
    /\ q => (p.ackno <= 0 \/ p.ackno <= n) /\ "FIN" \notin p.flags
    /\ "SYN" \in p.flags => "ACK" \in p.flags

\* The sender's fields, and what a step may not raise.
STyped(a, k) ==
    /\ DOMAIN a = Fields
    /\ a.state_ \in {"CLOSED"} \cup Open \cup Fin
    /\ a.curseq_ \in Nat /\ a.maxseq_ \in Int /\ a.highest_ack_ \in Int
    /\ a.t_seqno_ \in Nat /\ a.h_seqno_ \in Int
    /\ a.connection_ \in 0 .. Len(k.s) /\ a.done \in 0 .. a.connection_
    /\ a.signal_on_empty_ \in BOOLEAN /\ a.close_on_empty_ \in BOOLEAN
    /\ a.curseq_ <= k.e[a.connection_]
    /\ k.q => a.rqfin = NoFin
    /\ a.connection_ = k.m /\ a.curseq_ <= k.x /\ (a.state_ \in Open => k.p)

\* What the sender takes for acknowledged, reported and done has arrived.
SAcked(a, k) ==
    /\ Known(a.highest_ack_, a.curseq_, k.G)
    /\ a.sq_ \subseteq k.G
    /\ k.G \subseteq 1 .. k.e[a.connection_]
    /\ 1 .. k.e[a.done] \subseteq k.G
    /\ a.signal_on_empty_ => a.done < a.connection_ /\ k.q

\* The sender's counters in each state.
SStates(a, k) ==
    /\ a.state_ = "SYN_SENT" => /\ a.highest_ack_ = -1 /\ a.sq_ = {}
                                /\ "NEEDFIN" \notin a.flags_ /\ a.connection_ = 1
    /\ a.state_ \notin {"CLOSED", "SYN_SENT"} =>
          a.t_seqno_ >= 1 /\ a.highest_ack_ >= 1 /\ a.maxseq_ >= 1
    /\ IsOpen(a, k) => /\ a.curseq_ = k.e[a.connection_]
                       /\ a.t_seqno_ <= a.curseq_ + 1 /\ a.maxseq_ <= a.curseq_ + 1
                       /\ a.highest_ack_ <= a.curseq_ + 1
    /\ k.q => /\ a.state_ \in {"CLOSED", "SYN_SENT", "ESTABLISHED"} /\ ~a.close_on_empty_
              /\ a.highest_ack_ <= k.n
              /\ a.state_ = "CLOSED" => a.connection_ = 0 /\ a.highest_ack_ = -1
              /\ ~a.signal_on_empty_ => a.state_ = "CLOSED" \/ a.highest_ack_ = a.curseq_ + 1

\* A list of packets for the receiver.
AllToReceiver(out, c, E, o) ==
    /\ out \in Seq({out[i] : i \in DOMAIN out})
    /\ \A i \in DOMAIN out : ToReceiver(out[i], c, E, o)

\* What the sender has sent in this step.
SOut(a, k) == AllToReceiver(a.out, a.curseq_, k.e[a.connection_], IsOpen(a, k))

\* The bytes of the c-th message.
Bytes(c, k) == k.e[c - 1] + 1 .. k.e[c]

\* What PrioNearRemaining says of a priority of the c-th message.
Near(prio, twice, c, k) ==
    /\ c \in 1 .. Len(k.s) /\ prio \in Nat /\ twice \in Nat
    /\ prio >= Cardinality(Bytes(c, k) \ k.G) - twice
    /\ prio <= k.e[c] - k.e[c - 1] + 9

\* The same of a packet.
NearPacket(p, k) == p.len > 0 => Near(p.prio, p.twice, p.connection, k)

\* The schemes that take the bytes that remain from the scoreboard.
Measured == PrioScheme \in {2, 4} /\ ~FairCopy /\ ~EnableKnown

\* While there is data, what is acknowledged reaches into the last message, which ends
\* at curseq_; so what remains of it can be told from highest_ack_ and the scoreboard.
SPrio(a, k) ==
    /\ a.highest_ack_ <= a.maxseq_
    /\ \/ a.curseq_ = 0
       \/ /\ a.connection_ >= 1 /\ a.curseq_ = k.e[a.connection_]
          /\ a.state_ # "SYN_SENT" => a.highest_ack_ >= k.e[a.connection_ - 1] + 1
    /\ Waits(a) => k.w /\ a.rqfin = NoFin /\ a.state_ # "CLOSE_WAIT"
    /\ Measured =>
          /\ a.connection_ >= 1 /\ a.seq_bound_ # -1 =>
                Near(a.last_prio_, a.twice, a.connection_, k)
          /\ \A i \in DOMAIN a.out : NearPacket(a.out[i], k)

\* The invariant of the sender inside transmit, where a close may be pending.
SCore(a, k) ==
    STyped(a, k) /\ SAcked(a, k) /\ SStates(a, k) /\ SOut(a, k) /\ SPrio(a, k)

\* The invariant between a method's calls.
SMid(a, k) == SCore(a, k) /\ "NEEDCLOSE" \notin a.flags_

\* The invariant of the sender after a step: its SYN has left.
SOk(a, k) ==
    /\ SMid(a, k)
    /\ a.state_ = "SYN_SENT" => a.t_seqno_ >= 1 /\ a.maxseq_ >= 1

\* What is known of the messages.
KOk(k) ==
    /\ Len(k.s) \in Nat
    /\ k.e \in [0 .. Len(k.s) -> Nat] /\ k.e[0] = 0
    /\ \A i, j \in 0 .. Len(k.s) : i < j => k.e[i] < k.e[j]
    /\ k.q \in BOOLEAN /\ k.n \in Int /\ k.x \in Int

------------------------------------------------------------------------------
\* The fields that the invariant is about.
LEMMA FieldsAre ==
    /\ {"state_", "curseq_", "maxseq_", "highest_ack_", "t_seqno_", "h_seqno_",
        "connection_", "done", "signal_on_empty_", "close_on_empty_", "sq_", "flags_",
        "out", "rqfin"} \subseteq Fields
    /\ {"rcv_nxt_", "rq_", "flow_remaining_", "last_ack_sent_", "seq_bound_",
        "last_prio_", "twice", "pipe_", "rtx_timer_", "dupacks_", "fastrecov_",
        "pipectrl_", "recover_", "prob_mode_", "prob_count_"} \subseteq Fields
BY DEF Fields, Created, Fresh

\* A sequence and one element more.
LEMMA AppendOne ==
    ASSUME NEW s, s \in Seq({s[i] : i \in DOMAIN s}), NEW p
    PROVE  LET t == Append(s, p)
           IN /\ t \in Seq({t[i] : i \in DOMAIN t})
              /\ \A i \in DOMAIN t : t[i] = p \/ (i \in DOMAIN s /\ t[i] = s[i])
<1> DEFINE S == {s[i] : i \in DOMAIN s}
           T == S \cup {p}
           t == Append(s, p)
           U == {t[i] : i \in DOMAIN t}
<1>1. s \in Seq(T) /\ p \in T
  <2>1. S \subseteq T
    OBVIOUS
  <2>2. s \in Seq(S)
    OBVIOUS
  <2>. HIDE DEF S, T
  <2>3. s \in Seq(T)
    BY <2>1, <2>2
  <2>. QED BY <2>3 DEF T
<1>. HIDE DEF S, T
<1>2. /\ t \in Seq(T) /\ Len(t) = Len(s) + 1 /\ Len(s) \in Nat
      /\ \A i \in 1 .. Len(s) : t[i] = s[i]
      /\ t[Len(s) + 1] = p
      /\ DOMAIN s = 1 .. Len(s) /\ DOMAIN t = 1 .. Len(t)
  BY <1>1
<1>. HIDE DEF t
<1>3. \A i \in DOMAIN t : t[i] = p \/ (i \in DOMAIN s /\ t[i] = s[i])
  BY <1>2
<1>4. \A i \in 1 .. Len(t) : t[i] \in U
  BY <1>2
<1>. HIDE DEF U
<1>5. t \in Seq(U)
  BY <1>2, <1>4
<1>. QED BY <1>3, <1>5 DEF t, U

\* A packet joins the list.
LEMMA AppendToReceiver ==
    ASSUME NEW out, NEW c, NEW E, NEW o, NEW p,
           AllToReceiver(out, c, E, o), ToReceiver(p, c, E, o)
    PROVE  AllToReceiver(Append(out, p), c, E, o)
BY AppendOne DEF AllToReceiver

\* What is required of packets for the receiver becomes less as the sender closes.
LEMMA StillToReceiver ==
    ASSUME NEW out, NEW c \in Int, NEW E \in Int, NEW o, NEW d \in Int, NEW F \in Int, NEW u,
           AllToReceiver(out, c, E, o), d <= c, E <= F, u => o
    PROVE  AllToReceiver(out, d, F, u)
<1>1. \A p : ToReceiver(p, c, E, o) => ToReceiver(p, d, F, u)
  BY DEF ToReceiver
<1>. QED BY <1>1 DEF AllToReceiver

\* What the sender knows and has sent is the same in an agent that differs in nothing of it.
LEMMA SSameFields ==
    ASSUME NEW a, NEW k, STyped(a, k), SAcked(a, k), SStates(a, k),
           NEW b, DOMAIN b = Fields,
           b.state_ = a.state_, b.curseq_ = a.curseq_, b.maxseq_ = a.maxseq_,
           b.highest_ack_ = a.highest_ack_, b.t_seqno_ = a.t_seqno_, b.h_seqno_ = a.h_seqno_,
           b.connection_ = a.connection_, b.done = a.done, b.sq_ = a.sq_, b.rqfin = a.rqfin,
           b.signal_on_empty_ = a.signal_on_empty_, b.close_on_empty_ = a.close_on_empty_,
           b.flags_ \subseteq a.flags_
    PROVE  STyped(b, k) /\ SAcked(b, k) /\ SStates(b, k)
<1>1. STyped(b, k)
  BY DEF STyped
<1>2. SAcked(b, k)
  BY DEF SAcked
<1>3. IsOpen(b, k) = IsOpen(a, k)
  BY DEF IsOpen
<1>4. SStates(b, k)
  BY <1>3 DEF SStates
<1>. QED BY <1>1, <1>2, <1>4

\* A message ends after the one before it.
LEMMA MessageBefore ==
    ASSUME NEW k, KOk(k), NEW c \in 0 .. Len(k.s), c >= 1
    PROVE  k.e[c - 1] \in Nat /\ k.e[c] \in Nat /\ k.e[c - 1] < k.e[c]
<1>1. c - 1 \in 0 .. Len(k.s) /\ c - 1 < c
  BY DEF KOk
<1>2. \A i, j \in 0 .. Len(k.s) : i < j => k.e[i] < k.e[j]
  BY DEF KOk
<1>3. k.e[c - 1] \in Nat /\ k.e[c] \in Nat
  BY <1>1 DEF KOk
<1>. HIDE DEF KOk
<1>. QED BY <1>1, <1>2, <1>3

\* What is known of priorities stays, as more is acknowledged and fewer bytes wait.
LEMMA SPrioKept ==
    ASSUME NEW a, NEW k, SPrio(a, k), NEW b,
           b.curseq_ = a.curseq_, b.connection_ = a.connection_, b.seq_bound_ = a.seq_bound_,
           b.last_prio_ = a.last_prio_, b.twice = a.twice, b.out = a.out,
           \/ b.highest_ack_ = a.highest_ack_
           \/ /\ KOk(k) /\ a.connection_ \in 0 .. Len(k.s)
              /\ a.highest_ack_ \in Int /\ b.highest_ack_ \in Int
              /\ b.highest_ack_ >= a.highest_ack_,
           b.highest_ack_ <= b.maxseq_,
           b.state_ # "SYN_SENT" => a.state_ # "SYN_SENT",
           Waits(b) => Waits(a) /\ b.rqfin = NoFin /\ b.state_ # "CLOSE_WAIT"
    PROVE  SPrio(b, k)
<1>1. \/ b.curseq_ = 0
      \/ /\ b.connection_ >= 1 /\ b.curseq_ = k.e[b.connection_]
         /\ b.state_ # "SYN_SENT" => b.highest_ack_ >= k.e[b.connection_ - 1] + 1
  <2>1. CASE b.highest_ack_ = a.highest_ack_
    BY <2>1 DEF SPrio
  <2>2. CASE /\ KOk(k) /\ a.connection_ \in 0 .. Len(k.s)
             /\ a.highest_ack_ \in Int /\ b.highest_ack_ \in Int
             /\ b.highest_ack_ >= a.highest_ack_
    <3>1. a.connection_ >= 1 => k.e[a.connection_ - 1] \in Nat
      BY <2>2, MessageBefore
    <3>. QED BY <2>2, <3>1 DEF SPrio
  <2>. QED BY <2>1, <2>2
<1>2. Waits(b) => k.w
  BY DEF SPrio
<1>. QED BY <1>1, <1>2 DEF SPrio

\* The same when nothing of it changes.
LEMMA SPrioSame ==
    ASSUME NEW a, NEW k, SPrio(a, k), NEW b,
           b.curseq_ = a.curseq_, b.connection_ = a.connection_, b.seq_bound_ = a.seq_bound_,
           b.last_prio_ = a.last_prio_, b.twice = a.twice, b.out = a.out,
           b.highest_ack_ = a.highest_ack_, b.maxseq_ = a.maxseq_, b.state_ = a.state_,
           Waits(a) => b.rqfin = NoFin
    PROVE  SPrio(b, k)
<1>1. Waits(b) <=> Waits(a)
  BY DEF Waits
<1>2. /\ b.highest_ack_ <= b.maxseq_
      /\ Waits(b) => Waits(a) /\ b.rqfin = NoFin /\ b.state_ # "CLOSE_WAIT"
  BY <1>1 DEF SPrio
<1>. QED BY <1>2, SPrioKept

\* The bytes after b that have not arrived are among those that are neither acknowledged
\* nor reported.
LEMMA StillMissing ==
    ASSUME NEW b \in Nat, NEW E \in Nat, NEW h \in Int, h >= b + 1,
           NEW G, G \subseteq 1 .. E, Known(h, E, G), NEW S, S \subseteq G
    PROVE  LET n == Cardinality(S)
               t == Cardinality({y \in S : y < h})
               m == Cardinality((b + 1 .. E) \ G)
           IN /\ n \in Nat /\ t \in Nat /\ m \in Nat
              /\ m + n <= t + (IF h > E THEN 0 ELSE E - h + 1)
<1> DEFINE T == {y \in S : y < h}
           U == {y \in S : y >= h}
           M == (b + 1 .. E) \ G
           V == h .. E
<1>1. \A y \in S : y \in 1 .. E /\ y \in Int /\ (y >= h <=> ~(y < h))
  OBVIOUS
<1>2. IsFiniteSet(1 .. E) /\ IsFiniteSet(V)
      /\ Cardinality(V) = IF h > E THEN 0 ELSE E - h + 1
  BY FS_Interval
<1>3. M \subseteq V
  BY DEF Known
<1>4. U \subseteq V
  <2>. SUFFICES ASSUME NEW y \in S, y >= h
                PROVE  y \in h .. E
    OBVIOUS
  <2>. QED BY <1>1
<1>5. M \cap U = {} /\ T \cap U = {} /\ T \cup U = S
  <2>1. M \cap U = {}
    OBVIOUS
  <2>2. T \cap U = {} /\ T \cup U = S
    BY <1>1
  <2>. QED BY <2>1, <2>2
<1>. HIDE DEF T, U, M, V
<1>6. IsFiniteSet(S) /\ IsFiniteSet(M) /\ IsFiniteSet(U)
  <2>1. S \subseteq 1 .. E
    BY <1>1
  <2>. QED BY <2>1, <1>2, <1>3, <1>4, FS_Subset
<1>7. IsFiniteSet(T)
  BY <1>5, <1>6, FS_Subset
<1>8. /\ Cardinality(S) \in Nat /\ Cardinality(M) \in Nat /\ Cardinality(U) \in Nat
      /\ Cardinality(T) \in Nat /\ Cardinality({}) = 0
  BY <1>6, <1>7, FS_CardinalityType, FS_EmptySet
<1>9. Cardinality(S) = Cardinality(T) + Cardinality(U)
  BY <1>5, <1>6, <1>7, <1>8, FS_Union
<1>10. Cardinality(M \cup U) = Cardinality(M) + Cardinality(U)
  <2>1. Cardinality(M \cup U) = Cardinality(M) + Cardinality(U) - Cardinality(M \cap U)
    BY <1>6, FS_Union
  <2>2. Cardinality(M \cap U) = 0
    BY <1>5, <1>8
  <2>. QED BY <1>8, <2>1, <2>2
<1>11. Cardinality(M \cup U) <= Cardinality(V)
  <2>1. M \cup U \subseteq V
    BY <1>3, <1>4
  <2>. QED BY <1>2, <2>1, FS_Subset
<1>12. Cardinality(V) \in Nat
  BY <1>2, FS_CardinalityType
<1>. QED BY <1>2, <1>8, <1>9, <1>10, <1>11, <1>12 DEF T, M

\* Where data is sent, Unknown covers what the last message lacks.
LEMMA NearNow ==
    ASSUME NEW a, NEW k, KOk(k), STyped(a, k), SAcked(a, k),
           a.connection_ >= 1, a.curseq_ = k.e[a.connection_],
           a.highest_ack_ >= k.e[a.connection_ - 1] + 1
    PROVE  Near(Unknown(a), Twice(a), a.connection_, k)
<1> DEFINE c == a.connection_
           b == k.e[c - 1]
           E == k.e[c]
           h == a.highest_ack_
           n == Cardinality(a.sq_)
           t == Cardinality({y \in a.sq_ : y < h})
           m == Cardinality((b + 1 .. E) \ k.G)
<1>1. c \in 1 .. Len(k.s) /\ h \in Int /\ b \in Nat /\ E \in Nat /\ b < E
  <2>1. c \in 0 .. Len(k.s) /\ c >= 1 /\ h \in Int /\ Len(k.s) \in Nat
    BY DEF STyped, KOk
  <2>. HIDE DEF c, h
  <2>2. b \in Nat /\ E \in Nat /\ b < E
    BY <2>1, MessageBefore
  <2>. QED BY <2>1, <2>2
<1>2. k.G \subseteq 1 .. E /\ Known(h, E, k.G) /\ a.sq_ \subseteq k.G /\ h >= b + 1
  BY DEF SAcked
<1>. HIDE DEF b, E, h
<1>3. /\ n \in Nat /\ t \in Nat /\ m \in Nat
      /\ m + n <= t + (IF h > E THEN 0 ELSE E - h + 1)
  BY <1>1, <1>2, StillMissing
<1>. HIDE DEF n, t, m
<1>4. Unknown(a) = Largest(0, E - h - n + 10)
  BY DEF Unknown, E, h, n
<1>5. /\ Unknown(a) \in Nat /\ Unknown(a) <= E - b + 9 /\ Unknown(a) >= m - t
  BY <1>1, <1>2, <1>3, <1>4 DEF Largest
<1>6. Twice(a) = t
  BY DEF Twice, t, h
<1>. QED BY <1>1, <1>3, <1>5, <1>6 DEF Near, Bytes, b, E, m

\* Near stays true as more arrives.
LEMMA NearMore ==
    ASSUME NEW k, NEW l, KOk(k), l.s = k.s, l.e = k.e, k.G \subseteq l.G,
           NEW prio, NEW twice, NEW c, Near(prio, twice, c, k)
    PROVE  Near(prio, twice, c, l)
<1> DEFINE M == Bytes(c, k) \ k.G
           N == Bytes(c, l) \ l.G
<1>1. k.e[c - 1] \in Nat /\ k.e[c] \in Nat
  <2>1. c \in 0 .. Len(k.s) /\ c >= 1
    BY DEF Near, KOk
  <2>. QED BY <2>1, MessageBefore
<1>2. IsFiniteSet(Bytes(c, k))
  <2>1. k.e[c - 1] + 1 \in Int /\ k.e[c] \in Int
    BY <1>1
  <2>. QED BY <2>1, FS_Interval DEF Bytes
<1>3. N \subseteq M /\ M \subseteq Bytes(c, k)
  BY DEF Bytes
<1>. HIDE DEF M, N
<1>4. IsFiniteSet(M)
  BY <1>2, <1>3, FS_Subset
<1>5. Cardinality(N) <= Cardinality(M) /\ Cardinality(N) \in Nat /\ Cardinality(M) \in Nat
  BY <1>3, <1>4, FS_Subset, FS_CardinalityType
<1>. QED BY <1>5 DEF Near, M, N

\* sendpacket: a packet leaves the sender, nothing else of the invariant changes.
LEMMA SSendpacket ==
    ASSUME NEW a, NEW k, KOk(k), SCore(a, k),
           NEW seqno \in Int, NEW ackno, NEW pflags, NEW len \in Nat,
           len > 0 => seqno >= 1 /\ seqno + len <= a.curseq_ + 1 /\ a.state_ # "SYN_SENT",
           "FIN" \in pflags => ~IsOpen(a, k) /\ seqno + len > a.curseq_,
           "SYN" \in pflags => seqno = 0 /\ len = 0 /\ "FIN" \notin pflags
    PROVE  LET b == sendpacket(a, seqno, ackno, pflags, len)
           IN /\ SCore(b, k)
              /\ \A f \in {"state_", "curseq_", "maxseq_", "highest_ack_", "t_seqno_",
                           "h_seqno_", "connection_", "signal_on_empty_", "flags_"} :
                    b[f] = a[f]
<1> DEFINE b == sendpacket(a, seqno, ackno, pflags, len)
<1>1. DOMAIN b = Fields
  BY FieldsAre DEF SCore, STyped, sendpacket
<1>2. \A f \in {"state_", "curseq_", "maxseq_", "highest_ack_", "t_seqno_",
                "h_seqno_", "connection_", "done", "signal_on_empty_", "close_on_empty_",
                "sq_", "flags_", "rqfin"} :
         b[f] = a[f]
  BY FieldsAre DEF SCore, STyped, sendpacket
<1> DEFINE p == [seqno |-> seqno, ackno |-> ackno, flags |-> pflags, len |-> len,
                 sack |-> a.rq_, connection |-> a.connection_,
                 prio |-> Priority(a, seqno, len),
                 twice |-> IF len = 0 THEN 0
                           ELSE IF NewBatch(a) \/ PrioScheme = 2 THEN Twice(a) ELSE a.twice]
<1>3. b.out = Append(a.out, p)
  BY FieldsAre DEF SCore, STyped, sendpacket
<1>4. p.seqno = seqno /\ p.len = len /\ p.flags = pflags /\ DOMAIN p = PacketFields
  BY DEF PacketFields
<1> DEFINE batch == len > 0 /\ NewBatch(a)
<1>9. /\ b.seq_bound_ = IF batch THEN a.maxseq_ ELSE a.seq_bound_
      /\ b.last_prio_ = IF batch THEN Unknown(a) ELSE a.last_prio_
      /\ b.twice = IF batch THEN Twice(a) ELSE a.twice
  BY FieldsAre DEF SCore, STyped, sendpacket
<1>10. /\ p.prio = Priority(a, seqno, len) /\ p.connection = a.connection_
       /\ p.twice = IF len = 0 THEN 0
                     ELSE IF NewBatch(a) \/ PrioScheme = 2 THEN Twice(a) ELSE a.twice
  OBVIOUS
<1>. HIDE DEF b, p, batch
<1>7. ToReceiver(p, a.curseq_, k.e[a.connection_], IsOpen(a, k))
  <2>1. a.curseq_ \in Nat /\ a.curseq_ <= k.e[a.connection_] /\ a.connection_ \in 0 .. Len(k.s)
    BY DEF SCore, STyped
  <2>2. k.e[a.connection_] \in Nat
    BY <2>1 DEF KOk
  <2>. QED BY <1>4, <2>1, <2>2 DEF ToReceiver
<1>11. ASSUME Measured, len > 0
       PROVE  /\ Near(Unknown(a), Twice(a), a.connection_, k)
              /\ Near(p.prio, p.twice, p.connection, k)
  <2>1. /\ a.curseq_ \in Nat /\ a.highest_ack_ \in Int /\ a.connection_ \in 0 .. Len(k.s)
        /\ a.curseq_ # 0
    BY <1>11 DEF SCore, STyped
  <2>2. /\ a.connection_ >= 1 /\ a.curseq_ = k.e[a.connection_]
        /\ a.highest_ack_ >= k.e[a.connection_ - 1] + 1
    BY <1>11, <2>1 DEF SCore, SPrio
  <2>3. Near(Unknown(a), Twice(a), a.connection_, k)
    BY <2>2, NearNow DEF SCore
  <2>4. CASE NewBatch(a) \/ PrioScheme = 2
    <3>1. PrioScheme \in {2, 4} /\ ~FairCopy /\ ~EnableKnown /\ (PrioScheme = 2 \/ NewBatch(a))
      BY <1>11, <2>4 DEF Measured
    <3>2. p.prio = Unknown(a)
      BY <1>10, <1>11, <3>1 DEF Priority, set_prio
    <3>. QED BY <1>10, <1>11, <2>3, <2>4, <3>2
  <2>5. CASE ~(NewBatch(a) \/ PrioScheme = 2)
    <3>1. PrioScheme = 4 /\ ~FairCopy /\ ~EnableKnown /\ ~NewBatch(a)
      BY <1>11, <2>5 DEF Measured
    <3>2. p.prio = a.last_prio_ /\ p.twice = a.twice
      BY <1>10, <1>11, <3>1 DEF Priority, set_prio
    <3>3. k.e[a.connection_ - 1] \in Nat
      BY <2>1, <2>2, MessageBefore
    <3>4. a.seq_bound_ # -1
      BY <2>1, <2>2, <3>1, <3>3 DEF NewBatch
    <3>. QED BY <1>10, <1>11, <2>2, <2>3, <3>2, <3>4 DEF SCore, SPrio
  <2>. QED BY <2>3, <2>4, <2>5
<1>5. SOut(b, k)
  BY <1>2, <1>3, <1>7, AppendToReceiver DEF SCore, SOut, IsOpen
<1>8. /\ b.state_ = a.state_ /\ b.curseq_ = a.curseq_ /\ b.maxseq_ = a.maxseq_
      /\ b.highest_ack_ = a.highest_ack_ /\ b.t_seqno_ = a.t_seqno_ /\ b.h_seqno_ = a.h_seqno_
      /\ b.connection_ = a.connection_ /\ b.done = a.done /\ b.sq_ = a.sq_ /\ b.rqfin = a.rqfin
      /\ b.signal_on_empty_ = a.signal_on_empty_ /\ b.close_on_empty_ = a.close_on_empty_
      /\ b.flags_ = a.flags_
  BY <1>2
<1>6. STyped(b, k) /\ SAcked(b, k) /\ SStates(b, k)
  BY <1>1, <1>8, SSameFields DEF SCore
<1>12. SPrio(b, k)
  <2>1. Waits(b) <=> Waits(a)
    BY <1>8 DEF Waits
  <2>2. Measured => (b.connection_ >= 1 /\ b.seq_bound_ # -1 =>
                        Near(b.last_prio_, b.twice, b.connection_, k))
    <3>1. CASE batch
      BY <1>8, <1>9, <1>11, <3>1 DEF batch
    <3>2. CASE ~batch
      BY <1>8, <1>9, <3>2 DEF SCore, SPrio
    <3>. QED BY <3>1, <3>2
  <2>3. Measured => \A i \in DOMAIN b.out : NearPacket(b.out[i], k)
    <3>1. /\ a.out \in Seq({a.out[i] : i \in DOMAIN a.out})
          /\ Measured => \A i \in DOMAIN a.out : NearPacket(a.out[i], k)
      BY DEF SCore, SOut, AllToReceiver, SPrio
    <3>2. Measured => NearPacket(p, k)
      BY <1>4, <1>11 DEF NearPacket
    <3>. QED BY <1>3, <3>1, <3>2, AppendOne
  <2>. QED BY <1>8, <2>1, <2>2, <2>3 DEF SCore, SPrio
<1>. QED BY <1>2, <1>5, <1>6, <1>12 DEF b, SCore

\* The number of SYN and FIN flags, which do not meet.
LEMMA CountFlags ==
    ASSUME NEW fl, ~("SYN" \in fl /\ "FIN" \in fl)
    PROVE  Cardinality(fl \cap {"SYN", "FIN"}) =
               IF "SYN" \in fl \/ "FIN" \in fl THEN 1 ELSE 0
<1>1. CASE "SYN" \in fl
  <2>1. fl \cap {"SYN", "FIN"} = {"SYN"}
    BY <1>1
  <2>. QED BY <1>1, <2>1, FS_Singleton
<1>2. CASE "FIN" \in fl
  <2>1. fl \cap {"SYN", "FIN"} = {"FIN"}
    BY <1>2
  <2>. QED BY <1>2, <2>1, FS_Singleton
<1>3. CASE "SYN" \notin fl /\ "FIN" \notin fl
  <2>1. fl \cap {"SYN", "FIN"} = {}
    BY <1>3
  <2>. QED BY <1>3, <2>1, FS_EmptySet
<1>. QED BY <1>1, <1>2, <1>3

\* What send_much leaves as it was.
Kept == {"curseq_", "highest_ack_", "t_seqno_", "h_seqno_", "connection_"}

\* transmit keeps the invariant, and a pending close closes the sender.
LEMMA STransmit ==
    ASSUME NEW a, NEW k, KOk(k), SCore(a, k),
           NEW seqno \in Nat, NEW pflags, NEW len \in Nat,
           len > 0 => seqno >= 1 /\ seqno + len <= a.curseq_ + 1 /\ a.state_ # "SYN_SENT",
           "FIN" \in pflags => a.state_ \in Fin /\ ~k.q /\ seqno + len > a.curseq_,
           "SYN" \in pflags => a.state_ = "SYN_SENT" /\ seqno = 0 /\ len = 0 /\ "FIN" \notin pflags,
           "NEEDCLOSE" \in a.flags_ =>
               ~k.q /\ a.state_ # "SYN_SENT" /\ seqno + len > a.curseq_,
           IsOpen(a, k) => seqno <= a.curseq_ + 1
    PROVE  LET r == transmit(a, seqno, pflags, len)
               b == r.agent
           IN /\ SMid(b, k) /\ r.amt \in Nat
              /\ IsOpen(b, k) => seqno + r.amt <= b.curseq_ + 1
              /\ b.maxseq_ >= seqno + r.amt
              /\ "SYN" \in pflags => r.amt = 1
              /\ b.state_ = "SYN_SENT" <=> a.state_ = "SYN_SENT"
              /\ \A f \in Kept : b[f] = a[f]
<1> DEFINE closes == /\ "NEEDCLOSE" \in a.flags_
                     /\ a.state_ \in {"LISTEN", "SYN_SENT", "SYN_RECEIVED", "ESTABLISHED"}
           fl == IF closes THEN pflags \cup {"FIN"} ELSE pflags
           a1 == IF closes THEN newstate(a, "FIN_WAIT_1") ELSE a
           a2 == sendpacket(a1, seqno, a.rcv_nxt_, fl, len)
           amt == len + Cardinality(fl \cap {"SYN", "FIN"})
           b == [a2 EXCEPT
                   !.flags_ = @ \ {"NEEDCLOSE", "ACKNOW", "DELACK"},
                   !.maxseq_ = Largest(@, seqno + amt),
                   !.rtx_timer_ = @ \/ amt > 0]
<1>1. transmit(a, seqno, pflags, len) = [amt |-> amt, agent |-> b]
  BY DEF transmit
<1>2. /\ SCore(a1, k) /\ a1.connection_ = a.connection_ /\ a1.curseq_ = a.curseq_
      /\ \A f \in Kept : a1[f] = a[f]
      /\ a1.state_ = IF closes THEN "FIN_WAIT_1" ELSE a.state_
      /\ a1.flags_ = a.flags_
  <2>1. CASE closes
    <3>1. a1 = [a EXCEPT !.state_ = "FIN_WAIT_1"]
      BY <2>1 DEF newstate
    <3>2. /\ DOMAIN a1 = Fields /\ a1.state_ = "FIN_WAIT_1"
          /\ \A f \in Fields \ {"state_"} : a1[f] = a[f]
      BY <3>1, FieldsAre DEF SCore, STyped
    <3>6. /\ a1.curseq_ = a.curseq_ /\ a1.maxseq_ = a.maxseq_
          /\ a1.highest_ack_ = a.highest_ack_ /\ a1.t_seqno_ = a.t_seqno_
          /\ a1.h_seqno_ = a.h_seqno_ /\ a1.connection_ = a.connection_
          /\ a1.done = a.done /\ a1.sq_ = a.sq_ /\ a1.rqfin = a.rqfin
          /\ a1.signal_on_empty_ = a.signal_on_empty_ /\ a1.close_on_empty_ = a.close_on_empty_
          /\ a1.flags_ = a.flags_
      BY <3>2, FieldsAre
    <3>7. /\ a1.state_ \notin {"CLOSED", "SYN_SENT"} /\ a1.state_ \in Fin /\ a1.state_ \notin Open
      BY <3>2 DEF Fin, Open
    <3>8. ~k.q /\ ~IsOpen(a1, k)
      BY <3>7, <2>1 DEF IsOpen
    <3>9. a.state_ \notin {"CLOSED", "SYN_SENT"}
      BY <2>1
    <3>10. STyped(a1, k)
      BY <3>2, <3>6, <3>7, <3>8 DEF SCore, STyped
    <3>11. SAcked(a1, k)
      BY <3>6, <3>8 DEF SCore, SAcked
    <3>12. SStates(a1, k)
      BY <3>6, <3>7, <3>8, <3>9 DEF SCore, SStates
    <3>3. STyped(a1, k) /\ SAcked(a1, k) /\ SStates(a1, k)
      BY <3>10, <3>11, <3>12
    <3>13. a.curseq_ \in Int /\ a.connection_ \in 0 .. Len(k.s)
      BY DEF SCore, STyped
    <3>14. k.e[a.connection_] \in Int
      BY <3>13 DEF KOk
    <3>15. a1.out = a.out
      BY <3>2, FieldsAre
    <3>4. /\ a.curseq_ \in Int /\ k.e[a.connection_] \in Int
          /\ ~IsOpen(a1, k)
          /\ a1.curseq_ = a.curseq_ /\ a1.connection_ = a.connection_ /\ a1.out = a.out
      BY <3>6, <3>8, <3>13, <3>14, <3>15
    <3>5. SOut(a1, k)
      BY <3>4, StillToReceiver DEF SCore, SOut
    <3>16. SPrio(a1, k)
      <4>1. /\ a1.seq_bound_ = a.seq_bound_ /\ a1.last_prio_ = a.last_prio_
            /\ a1.twice = a.twice /\ ~Waits(a1)
        BY <3>2, <3>7, FieldsAre DEF Waits
      <4>2. SPrio(a, k) /\ a.highest_ack_ <= a.maxseq_
        BY DEF SCore, SPrio
      <4>. QED BY <3>6, <3>9, <3>15, <4>1, <4>2, SPrioKept
    <3>. QED BY <3>2, <3>3, <3>5, <3>16, <2>1, FieldsAre DEF SCore, Kept
  <2>2. CASE ~closes
    BY <2>2
  <2>. QED BY <2>1, <2>2
<1>3. ~("SYN" \in fl /\ "FIN" \in fl)
  OBVIOUS
<1>4. amt = len + (IF "SYN" \in fl \/ "FIN" \in fl THEN 1 ELSE 0)
  BY <1>3, CountFlags
<1>5. "FIN" \in fl => ~IsOpen(a1, k) /\ seqno + len > a1.curseq_
  BY <1>2 DEF IsOpen, Fin, Open
<1>6. /\ SCore(a2, k)
      /\ \A f \in {"state_", "curseq_", "maxseq_", "highest_ack_", "t_seqno_",
                   "h_seqno_", "connection_", "signal_on_empty_", "flags_"} :
            a2[f] = a1[f]
  <2>1. len > 0 => seqno >= 1 /\ seqno + len <= a1.curseq_ + 1 /\ a1.state_ # "SYN_SENT"
    BY <1>2
  <2>. QED BY <1>2, <1>3, <1>5, <2>1, SSendpacket
<1>7. amt \in Nat /\ ("SYN" \in pflags => amt = 1)
  BY <1>4
<1>8. IsOpen(a1, k) => seqno + amt <= a1.curseq_ + 1
  <2>. SUFFICES ASSUME IsOpen(a1, k)
                PROVE  seqno + amt <= a1.curseq_ + 1
    OBVIOUS
  <2>1. "FIN" \notin fl /\ IsOpen(a, k)
    BY <1>2, <1>5 DEF IsOpen, Open
  <2>2. a.curseq_ \in Nat /\ k.e[a.connection_] = a.curseq_
    BY <2>1 DEF SCore, STyped, SStates
  <2>3. "SYN" \in fl => "SYN" \in pflags
    OBVIOUS
  <2>. QED BY <1>2, <1>4, <2>1, <2>2, <2>3
<1>. HIDE DEF a1, a2, amt, fl
<1>9. /\ DOMAIN b = Fields
      /\ \A f \in Fields \ {"flags_", "maxseq_", "rtx_timer_"} : b[f] = a2[f]
      /\ b.flags_ = a2.flags_ \ {"NEEDCLOSE", "ACKNOW", "DELACK"}
      /\ b.maxseq_ = Largest(a2.maxseq_, seqno + amt)
  BY <1>6, FieldsAre DEF SCore, STyped
<1>. HIDE DEF b
<1>10. b.maxseq_ \in Int /\ b.maxseq_ >= a2.maxseq_ /\ b.maxseq_ >= seqno + amt
       /\ (b.maxseq_ = a2.maxseq_ \/ b.maxseq_ = seqno + amt)
  BY <1>6, <1>7, <1>9 DEF SCore, STyped, Largest
<1>11. STyped(b, k) /\ SAcked(b, k) /\ SStates(b, k) /\ SOut(b, k)
  <2>9. /\ b.state_ = a2.state_ /\ b.curseq_ = a2.curseq_ /\ b.done = a2.done
        /\ b.highest_ack_ = a2.highest_ack_ /\ b.t_seqno_ = a2.t_seqno_
        /\ b.h_seqno_ = a2.h_seqno_ /\ b.connection_ = a2.connection_
        /\ b.sq_ = a2.sq_ /\ b.rqfin = a2.rqfin
        /\ b.signal_on_empty_ = a2.signal_on_empty_
        /\ b.close_on_empty_ = a2.close_on_empty_
    BY <1>9, FieldsAre
  <2>10. STyped(b, k)
    BY <1>6, <1>9, <1>10, <2>9 DEF SCore, STyped
  <2>11. SAcked(b, k)
    BY <1>6, <2>9 DEF SCore, SAcked
  <2>1. STyped(b, k) /\ SAcked(b, k)
    BY <2>10, <2>11
  <2>2. SOut(b, k)
    BY <1>6, <1>9, FieldsAre DEF SCore, SOut, IsOpen
  <2>3. /\ \A f \in {"state_", "curseq_", "highest_ack_", "t_seqno_", "connection_",
                     "signal_on_empty_", "close_on_empty_", "sq_", "rqfin"} : b[f] = a2[f]
        /\ b.flags_ \subseteq a2.flags_
    BY <1>9, FieldsAre
  <2>4. (IsOpen(b, k) <=> IsOpen(a2, k)) /\ (IsOpen(a2, k) <=> IsOpen(a1, k))
    BY <2>3, <1>6 DEF IsOpen
  <2>5. IsOpen(b, k) => b.maxseq_ <= b.curseq_ + 1
    BY <2>3, <2>4, <1>6, <1>8, <1>10 DEF SCore, SStates
  <2>6. /\ b.state_ = a2.state_ /\ b.curseq_ = a2.curseq_ /\ b.sq_ = a2.sq_
        /\ b.highest_ack_ = a2.highest_ack_ /\ b.t_seqno_ = a2.t_seqno_
        /\ b.connection_ = a2.connection_
        /\ b.signal_on_empty_ = a2.signal_on_empty_
        /\ b.close_on_empty_ = a2.close_on_empty_ /\ b.rqfin = a2.rqfin
    BY <2>3
  <2>7. SStates(a2, k) /\ a2.maxseq_ \in Int
    BY <1>6 DEF SCore, STyped
  <2>8. SStates(b, k)
    BY <2>3, <2>6, <2>4, <2>5, <2>7, <1>10 DEF SStates
  <2>. QED BY <2>1, <2>2, <2>8
<1>14. SPrio(b, k)
  <2>1. /\ b.curseq_ = a2.curseq_ /\ b.connection_ = a2.connection_
        /\ b.seq_bound_ = a2.seq_bound_ /\ b.last_prio_ = a2.last_prio_
        /\ b.twice = a2.twice /\ b.out = a2.out /\ b.highest_ack_ = a2.highest_ack_
        /\ b.state_ = a2.state_ /\ b.rqfin = a2.rqfin
    BY <1>9, FieldsAre
  <2>2. SPrio(a2, k) /\ a2.highest_ack_ \in Int /\ a2.maxseq_ \in Int
    BY <1>6 DEF SCore, STyped
  <2>3. b.highest_ack_ <= b.maxseq_
    BY <1>10, <2>1, <2>2 DEF SPrio
  <2>4. Waits(b) => Waits(a2) /\ b.rqfin = NoFin /\ b.state_ # "CLOSE_WAIT"
    BY <2>1, <2>2 DEF Waits, SPrio
  <2>. QED BY <2>1, <2>2, <2>3, <2>4, SPrioKept
<1>12. \A f \in Kept : b[f] = a[f]
  BY <1>2, <1>6, <1>9, FieldsAre DEF Kept
<1>13. b.state_ = a1.state_ /\ b.curseq_ = a1.curseq_
  BY <1>6, <1>9, FieldsAre
<1>. QED BY <1>1, <1>2, <1>7, <1>8, <1>9, <1>10, <1>11, <1>12, <1>13, <1>14
         DEF SMid, SCore, IsOpen


\* A segment never goes beyond the bytes the application has given.
LEMMA PayloadFits ==
    ASSUME NEW a, a.curseq_ \in Nat, a.highest_ack_ \in Int,
           NEW seqno \in Nat, NEW w \in Nat
    PROVE  LET len == Payload(a, seqno, w)
           IN /\ len \in Nat
              /\ len > 0 => seqno >= 1 /\ seqno + len <= a.curseq_ + 1
<1>1. CASE seqno = ISS
  BY <1>1 DEF Payload, ISS
<1>2. CASE seqno # ISS
  <2> DEFINE win == IF a.prob_mode_ THEN 1 ELSE w * MaxSeg
             off == seqno - Largest(a.highest_ack_, ISS)
             room == IF a.pipectrl_ THEN Buffered(a) ELSE Least(Buffered(a), win)
  <2>1. win \in Int
    BY TcpOutputAssumption
  <2>. HIDE DEF win
  <2>2. Buffered(a) \in Int /\ off \in Int /\ Buffered(a) - off <= a.curseq_ + 1 - seqno
    BY DEF Buffered, ISS, Largest
  <2>3. room \in Int /\ room <= Buffered(a)
    BY <2>1, <2>2 DEF Least
  <2>4. Payload(a, seqno, w) = Largest(0, Least(room - off, MaxSeg))
    BY <1>2 DEF Payload, win
  <2>. HIDE DEF off, room
  <2>. QED BY <1>2, <2>2, <2>3, <2>4, TcpOutputAssumption DEF Largest, Least, ISS
<1>. QED BY <1>1, <1>2

\* done_data is called when the message has arrived.
LEMMA SSignalEmpty ==
    ASSUME NEW a, NEW k, KOk(k), SMid(a, k), NEW seqno
    PROVE  LET b == SignalEmpty(a, seqno)
           IN SMid(b, k) /\ b.state_ = a.state_ /\ \A f \in Kept : b[f] = a[f]
<1> DEFINE b == [a EXCEPT !.signal_on_empty_ = FALSE, !.done = @ + 1]
<1>. SUFFICES ASSUME a.signal_on_empty_, Buffered(a) = 0
              PROVE  SMid(b, k) /\ b.state_ = a.state_ /\ \A f \in Kept : b[f] = a[f]
  BY DEF SignalEmpty, bufferempty
<1>1. /\ k.q /\ a.done < a.connection_ /\ a.done \in Nat /\ a.connection_ \in 0 .. Len(k.s)
      /\ a.curseq_ \in Nat /\ a.highest_ack_ \in Int
      /\ a.curseq_ = k.e[a.connection_]
  BY DEF SMid, SCore, STyped, SAcked, SStates, IsOpen, KOk
<1>2. k.e[a.done + 1] <= a.curseq_ /\ a.curseq_ > 0 /\ k.e[a.done + 1] \in Nat
  <2> DEFINE d == a.done + 1
             c == a.connection_
  <2>1. d \in 0 .. Len(k.s) /\ c \in 0 .. Len(k.s) /\ 0 < c /\ d <= c /\ 0 \in 0 .. Len(k.s)
    BY <1>1 DEF KOk
  <2>. HIDE DEF d, c
  <2>3. k.e[d] \in Nat /\ k.e[c] \in Nat /\ k.e[0] = 0
    BY <2>1 DEF KOk
  <2>4. k.e[0] < k.e[c]
    BY <2>1 DEF KOk
  <2>5. d < c => k.e[d] < k.e[c]
    BY <2>1 DEF KOk
  <2>6. d = c \/ d < c
    BY <2>1
  <2>2. k.e[d] <= k.e[c] /\ 0 < k.e[c] /\ k.e[d] \in Nat
    BY <2>3, <2>4, <2>5, <2>6
  <2>. QED BY <2>2, <1>1 DEF d, c
<1>3. a.highest_ack_ = a.curseq_ + 1
  BY <1>1, <1>2 DEF Buffered, ISS
<1>4. 1 .. k.e[a.done + 1] \subseteq k.G
  BY <1>1, <1>2, <1>3 DEF SMid, SCore, SAcked, Known
<1>5. /\ DOMAIN b = Fields /\ b.done = a.done + 1 /\ b.signal_on_empty_ = FALSE
      /\ \A f \in Fields \ {"signal_on_empty_", "done"} : b[f] = a[f]
  BY FieldsAre DEF SMid, SCore, STyped
<1>. HIDE DEF b
<1>6. /\ b.state_ = a.state_ /\ b.curseq_ = a.curseq_ /\ b.sq_ = a.sq_
      /\ b.highest_ack_ = a.highest_ack_ /\ b.t_seqno_ = a.t_seqno_
      /\ b.h_seqno_ = a.h_seqno_ /\ b.maxseq_ = a.maxseq_
      /\ b.connection_ = a.connection_ /\ b.flags_ = a.flags_
      /\ b.close_on_empty_ = a.close_on_empty_ /\ b.out = a.out /\ b.rqfin = a.rqfin
      /\ b.seq_bound_ = a.seq_bound_ /\ b.last_prio_ = a.last_prio_ /\ b.twice = a.twice
  BY <1>5, FieldsAre
<1>7. STyped(b, k)
  <2>1. b.done \in 0 .. b.connection_
    BY <1>1, <1>5, <1>6 DEF KOk
  <2>. QED BY <2>1, <1>5, <1>6 DEF SMid, SCore, STyped
<1>8. SAcked(b, k)
  BY <1>4, <1>5, <1>6 DEF SMid, SCore, SAcked
<1>9. SStates(b, k)
  BY <1>3, <1>5, <1>6 DEF SMid, SCore, SStates, IsOpen
<1>10. SOut(b, k)
  BY <1>6 DEF SMid, SCore, SOut, IsOpen
<1>11. SPrio(b, k)
  BY <1>6, SPrioSame DEF SMid, SCore, SPrio
<1>. QED BY <1>6, <1>7, <1>8, <1>9, <1>10, <1>11 DEF SMid, SCore, Kept

\* A flag does not matter, but for NEEDFIN and NEEDCLOSE.
LEMMA SRaise ==
    ASSUME NEW a, NEW k, SCore(a, k), NEW flag, flag # "NEEDFIN"
    PROVE  LET b == raise(a, flag)
           IN /\ SCore(b, k) /\ b.flags_ = a.flags_ \cup {flag}
              /\ \A f \in Fields \ {"flags_"} : b[f] = a[f]
<1> DEFINE b == raise(a, flag)
<1>1. /\ DOMAIN b = Fields /\ b.flags_ = a.flags_ \cup {flag}
      /\ \A f \in Fields \ {"flags_"} : b[f] = a[f]
  BY FieldsAre DEF SCore, STyped, raise
<1>. HIDE DEF b
<1>2. /\ b.state_ = a.state_ /\ b.curseq_ = a.curseq_ /\ b.sq_ = a.sq_
      /\ b.highest_ack_ = a.highest_ack_ /\ b.t_seqno_ = a.t_seqno_
      /\ b.h_seqno_ = a.h_seqno_ /\ b.maxseq_ = a.maxseq_
      /\ b.connection_ = a.connection_ /\ b.done = a.done
      /\ b.signal_on_empty_ = a.signal_on_empty_
      /\ b.close_on_empty_ = a.close_on_empty_ /\ b.out = a.out /\ b.rqfin = a.rqfin
      /\ b.seq_bound_ = a.seq_bound_ /\ b.last_prio_ = a.last_prio_ /\ b.twice = a.twice
  BY <1>1, FieldsAre
<1>5. SPrio(b, k)
  BY <1>2, SPrioSame DEF SCore, SPrio
<1>3. STyped(b, k) /\ SAcked(b, k) /\ SOut(b, k)
  BY <1>1, <1>2 DEF SCore, STyped, SAcked, SOut, IsOpen
<1>4. SStates(b, k)
  BY <1>1, <1>2 DEF SCore, SStates, IsOpen
<1>. QED BY <1>1, <1>3, <1>4, <1>5 DEF SCore, b

\* What foutput returns for the sender.
Output(r, a, seqno, k) ==
    /\ SMid(r.agent, k) /\ r.amt \in Nat
    /\ IsOpen(r.agent, k) => seqno + r.amt <= r.agent.curseq_ + 1
    /\ r.agent.state_ = "SYN_SENT" => r.agent.maxseq_ >= 1 /\ r.amt = 1
    /\ r.agent.state_ = "SYN_SENT" <=> a.state_ = "SYN_SENT"
    /\ \A f \in Kept : r.agent[f] = a[f]

\* foutput keeps the invariant and sends no byte beyond curseq_.
LEMMA SFoutput ==
    ASSUME NEW a, NEW k, KOk(k), SMid(a, k), NEW seqno \in Nat, NEW w \in Nat,
           a.state_ = "SYN_SENT" => seqno = 0,
           a.state_ \in Fin => seqno >= 1,
           IsOpen(a, k) => seqno <= a.curseq_ + 1
    PROVE  Output(foutput(a, seqno, w), a, seqno, k)
<1> DEFINE a1 == SignalEmpty(a, seqno)
           len == Payload(a, seqno, w)
           emptying == seqno + len > a1.curseq_ \/ seqno = ISS
           a2 == CloseOnEmpty(a1, seqno, emptying)
           pflags == IF emptying THEN outflags(a2) ELSE outflags(a2) \ {"FIN"}
           reason == \/ WorthSending(a2, seqno, len, emptying)
                     \/ need_send(a2)
                     \/ "NEEDCLOSE" \in a2.flags_
                     \/ pflags \cap {"SYN", "FIN"} # {}
           r == IF reason THEN transmit(a2, seqno, pflags, len) ELSE [amt |-> 0, agent |-> a2]
<1>1. foutput(a, seqno, w) = r
  BY DEF foutput, Segment, SendIfReason
<1>2. SMid(a1, k) /\ a1.state_ = a.state_ /\ \A f \in Kept : a1[f] = a[f]
  BY SSignalEmpty
<1>3. /\ len \in Nat
      /\ len > 0 => seqno >= 1 /\ seqno + len <= a.curseq_ + 1
  BY PayloadFits DEF SMid, SCore, STyped
<1>. HIDE DEF a1, len
<1>4. /\ SCore(a2, k) /\ a2.state_ = a.state_ /\ \A f \in Kept : a2[f] = a[f]
      /\ "NEEDCLOSE" \in a2.flags_ =>
            ~k.q /\ a.state_ # "SYN_SENT" /\ seqno + len > a.curseq_
  <2>1. CASE a2 = a1
    BY <1>2, <2>1 DEF SMid
  <2>2. CASE a2 # a1
    <3>1. a2 = raise(a1, "NEEDCLOSE") /\ emptying /\ seqno # ISS /\ a1.close_on_empty_
      BY <2>2 DEF CloseOnEmpty
    <3>2. SCore(a2, k) /\ \A f \in Fields \ {"flags_"} : a2[f] = a1[f]
      BY <3>1, <1>2, SRaise DEF SMid
    <3>3. ~k.q
      BY <3>1, <1>2 DEF SMid, SCore, SStates
    <3>4. a1.curseq_ = a.curseq_ /\ a2.state_ = a1.state_
      BY <1>2, <3>2, FieldsAre DEF Kept
    <3>. QED BY <1>2, <3>1, <3>2, <3>3, <3>4, FieldsAre DEF Kept, ISS
  <2>. QED BY <2>1, <2>2
<1>5. a1.curseq_ = a.curseq_ /\ a2.curseq_ = a.curseq_ /\ a2.connection_ = a.connection_
  BY <1>2, <1>4 DEF Kept
<1>. HIDE DEF a2
<1>6. a.curseq_ \in Nat /\ a.curseq_ <= k.e[a.connection_] /\ k.e[a.connection_] \in Nat
  BY DEF SMid, SCore, STyped, KOk
<1>7. /\ "FIN" \in pflags => a2.state_ \in Fin /\ ~k.q /\ seqno + len > a2.curseq_
      /\ "SYN" \in pflags => a2.state_ = "SYN_SENT" /\ seqno = 0 /\ len = 0 /\ "FIN" \notin pflags
      /\ a2.state_ = "SYN_SENT" => "SYN" \in pflags
  <2>1. a2.state_ \in {"CLOSED"} \cup Open \cup Fin
    BY <1>4 DEF SCore, STyped
  <2>2. "FIN" \in outflags(a2) => a2.state_ \in Fin
    BY DEF outflags, Fin
  <2>3. "SYN" \in outflags(a2) <=> a2.state_ = "SYN_SENT"
    BY <2>1 DEF outflags, Fin, Open
  <2>4. a2.state_ \in Fin => ~k.q
    BY <1>4 DEF SCore, SStates, Fin
  <2>5. a2.state_ = "SYN_SENT" => seqno = 0 /\ len = 0 /\ "FIN" \notin outflags(a2)
    BY <1>3, <1>4, <2>2 DEF Fin
  <2>6. "FIN" \in pflags => seqno + len > a2.curseq_
    BY <1>3, <1>4, <1>5, <2>2, <1>6 DEF ISS
  <2>. QED BY <2>2, <2>3, <2>4, <2>5, <2>6
<1>8. IsOpen(a2, k) => seqno <= a2.curseq_ + 1
  BY <1>4, <1>5 DEF IsOpen
<1>. HIDE DEF pflags, emptying
<1>9. len > 0 => seqno >= 1 /\ seqno + len <= a2.curseq_ + 1 /\ a2.state_ # "SYN_SENT"
  BY <1>3, <1>4, <1>5, <1>6
<1>10. "NEEDCLOSE" \in a2.flags_ =>
           ~k.q /\ a2.state_ # "SYN_SENT" /\ seqno + len > a2.curseq_
  BY <1>4, <1>5
<1>11. CASE reason
  <2> DEFINE b == transmit(a2, seqno, pflags, len).agent
             amt == transmit(a2, seqno, pflags, len).amt
  <2>1. /\ SMid(b, k) /\ amt \in Nat
        /\ IsOpen(b, k) => seqno + amt <= b.curseq_ + 1
        /\ b.maxseq_ >= seqno + amt
        /\ "SYN" \in pflags => amt = 1
        /\ b.state_ = "SYN_SENT" <=> a2.state_ = "SYN_SENT"
        /\ \A f \in Kept : b[f] = a2[f]
    BY <1>3, <1>4, <1>7, <1>8, <1>9, <1>10, STransmit
  <2>2. r.agent = b /\ r.amt = amt
    BY <1>11
  <2>. HIDE DEF b, amt, r, reason
  <2>3. b.state_ = "SYN_SENT" => b.maxseq_ >= 1 /\ amt = 1
    BY <1>7, <2>1 DEF SMid, SCore, STyped
  <2>. QED BY <1>1, <1>4, <2>1, <2>2, <2>3 DEF Output
<1>12. CASE ~reason
  <2>1. r.agent = a2 /\ r.amt = 0
    BY <1>12
  <2>2. a2.state_ # "SYN_SENT" /\ "NEEDCLOSE" \notin a2.flags_
    BY <1>7, <1>12
  <2>. HIDE DEF r, reason
  <2>. QED BY <1>1, <1>4, <1>8, <2>1, <2>2 DEF SMid, Output
<1>. QED BY <1>11, <1>12


\* The first hole exists, for the queue is finite.
LEMMA NextHoleIs ==
    ASSUME NEW m \in Nat, NEW queue \in SUBSET (1 .. m), NEW seq \in Int
    PROVE  LET x == NextHole(queue, seq)
           IN /\ x \in Int /\ x >= seq /\ x \notin queue
              /\ \A y \in seq .. x - 1 : y \in queue
<1> DEFINE T == {n \in Nat : seq + n \notin queue}
<1>1. T \subseteq Nat /\ T # {}
  <2>1. CASE seq + (m + 1) \in queue
    <3>1. seq + (m + 1) <= m
      BY <2>1
    <3>2. seq \notin queue
      BY <3>1
    <3>. QED BY <3>2
  <2>2. CASE seq + (m + 1) \notin queue
    BY <2>2
  <2>. QED BY <2>1, <2>2
<1>2. PICK n \in T : \A l \in T : n <= l
  BY <1>1, LeastNat
<1> DEFINE P(x) == x >= seq /\ x \notin queue /\ \A y \in seq .. x - 1 : y \in queue
           C == {seq} \cup {y + 1 : y \in queue}
           z == seq + n
<1>3. z \in Int /\ z >= seq /\ z \notin queue
  BY <1>2
<1>4. \A y \in seq .. z - 1 : y \in queue
  <2>. SUFFICES ASSUME NEW y \in seq .. z - 1, y \notin queue
                PROVE  FALSE
    OBVIOUS
  <2>1. y - seq \in T
    OBVIOUS
  <2>. QED BY <2>1, <1>2
<1>5. z \in C
  <2>1. CASE z = seq
    BY <2>1
  <2>2. CASE z # seq
    <3>1. z - 1 \in queue /\ z = (z - 1) + 1
      BY <2>2, <1>3, <1>4
    <3>. QED BY <3>1
  <2>. QED BY <2>1, <2>2
<1>6. \E x \in C : P(x)
  BY <1>3, <1>4, <1>5
<1>7. C \subseteq Int
  OBVIOUS
<1>8. NextHole(queue, seq) = CHOOSE x \in C : P(x)
  BY DEF NextHole
<1>. HIDE DEF C
<1>9. NextHole(queue, seq) \in C /\ P(NextHole(queue, seq))
  BY <1>6, <1>8
<1>. QED BY <1>7, <1>9

\* The fields of the sender that the invariant is about, but for h_seqno_.
Said == {"state_", "curseq_", "maxseq_", "highest_ack_", "t_seqno_", "connection_", "done",
         "signal_on_empty_", "close_on_empty_", "sq_", "flags_", "out", "rqfin",
         "seq_bound_", "last_prio_", "twice"}

\* The other fields do not matter.
LEMMA SSame ==
    ASSUME NEW a, NEW k, NEW b, DOMAIN b = Fields, b.h_seqno_ \in Int,
           \A f \in Said : b[f] = a[f]
    PROVE  (SCore(a, k) => SCore(b, k)) /\ (SMid(a, k) => SMid(b, k)) /\ (SOk(a, k) => SOk(b, k))
<1>1. /\ b.state_ = a.state_ /\ b.curseq_ = a.curseq_ /\ b.sq_ = a.sq_
      /\ b.highest_ack_ = a.highest_ack_ /\ b.t_seqno_ = a.t_seqno_
      /\ b.maxseq_ = a.maxseq_ /\ b.flags_ = a.flags_
      /\ b.connection_ = a.connection_ /\ b.done = a.done
      /\ b.signal_on_empty_ = a.signal_on_empty_
      /\ b.close_on_empty_ = a.close_on_empty_ /\ b.out = a.out /\ b.rqfin = a.rqfin
      /\ b.seq_bound_ = a.seq_bound_ /\ b.last_prio_ = a.last_prio_ /\ b.twice = a.twice
  BY DEF Said
<1>2. STyped(a, k) => STyped(b, k)
  BY <1>1 DEF STyped
<1>3. (SAcked(a, k) => SAcked(b, k)) /\ (SOut(a, k) => SOut(b, k))
  BY <1>1 DEF SAcked, SOut, IsOpen
<1>4. SStates(a, k) => SStates(b, k)
  BY <1>1 DEF SStates, IsOpen
<1>5. ASSUME SPrio(a, k)
      PROVE  SPrio(b, k)
  BY <1>1, <1>5, SPrioSame DEF SPrio
<1>. QED BY <1>1, <1>2, <1>3, <1>4, <1>5 DEF SCore, SMid, SOk

\* nxt_tseq gives a number from which the sender may send.
LEMMA SNext ==
    ASSUME NEW a, NEW k, KOk(k), SMid(a, k)
    PROVE  LET r == nxt_tseq(a)
               b == r.agent
           IN /\ SMid(b, k) /\ r.seq \in Nat
              /\ \A f \in Said : b[f] = a[f]
              /\ a.state_ = "SYN_SENT" => r.seq = a.t_seqno_
              /\ a.state_ \in Fin => r.seq >= 1
              /\ IsOpen(b, k) => r.seq <= b.curseq_ + 1
<1> DEFINE hole == NextHole(a.sq_, a.h_seqno_)
           held == a.highest_ack_ < a.recover_ /\ hole > 0 /\ \E y \in a.sq_ : y > hole
           c == [a EXCEPT !.h_seqno_ = hole]
<1>1. CASE held
  <2>1. PICK E \in Nat : E = k.e[a.connection_]
    BY DEF SMid, SCore, STyped, KOk
  <2>2. a.sq_ \subseteq 1 .. E /\ a.h_seqno_ \in Int
    BY <2>1 DEF SMid, SCore, STyped, SAcked
  <2>3. hole \in Int
    BY <2>2, NextHoleIs
  <2>. HIDE DEF hole
  <2>4. hole \in Nat /\ hole >= 1 /\ hole < E
    BY <2>2, <2>3, <1>1
  <2>5. DOMAIN c = Fields /\ c.h_seqno_ = hole /\ \A f \in Said : c[f] = a[f]
    BY FieldsAre DEF SMid, SCore, STyped, Said
  <2>6. nxt_tseq(a) = [seq |-> hole, agent |-> c]
    BY <1>1 DEF nxt_tseq, hole
  <2>. HIDE DEF c
  <2>7. SMid(c, k)
    BY <2>3, <2>5, SSame
  <2>8. a.state_ # "SYN_SENT"
    BY <1>1 DEF SMid, SCore, SStates
  <2>9. IsOpen(c, k) => hole <= c.curseq_ + 1
    BY <2>1, <2>4, <2>7, <2>5 DEF SMid, SCore, SStates, Said
  <2>. QED BY <2>4, <2>5, <2>6, <2>7, <2>8, <2>9
<1>2. CASE ~held
  <2>1. nxt_tseq(a) = [seq |-> a.t_seqno_, agent |-> a]
    BY <1>2 DEF nxt_tseq
  <2>. QED BY <2>1 DEF SMid, SCore, STyped, SStates, Fin, Said
<1>. QED BY <1>1, <1>2

\* sent moves t_seqno_ and h_seqno_ no further than what has left.
LEMMA SSent ==
    ASSUME NEW a, NEW k, SMid(a, k), NEW seq \in Nat, NEW amt \in Nat,
           IsOpen(a, k) => seq + amt <= a.curseq_ + 1
    PROVE  LET b == sent(a, seq, amt)
           IN /\ SMid(b, k) /\ b.state_ = a.state_ /\ b.maxseq_ = a.maxseq_
              /\ b.t_seqno_ = IF seq = a.t_seqno_ THEN seq + amt ELSE a.t_seqno_
<1> DEFINE b == sent(a, seq, amt)
<1>1. /\ DOMAIN b = Fields
      /\ b.h_seqno_ = IF seq = a.h_seqno_ THEN a.h_seqno_ + amt ELSE a.h_seqno_
      /\ b.t_seqno_ = IF seq = a.t_seqno_ THEN a.t_seqno_ + amt ELSE a.t_seqno_
      /\ \A f \in Said \ {"t_seqno_"} : b[f] = a[f]
  BY FieldsAre DEF SMid, SCore, STyped, Said, sent
<1>. HIDE DEF b
<1>2. /\ b.state_ = a.state_ /\ b.curseq_ = a.curseq_ /\ b.sq_ = a.sq_
      /\ b.highest_ack_ = a.highest_ack_
      /\ b.maxseq_ = a.maxseq_ /\ b.flags_ = a.flags_
      /\ b.connection_ = a.connection_ /\ b.done = a.done
      /\ b.signal_on_empty_ = a.signal_on_empty_
      /\ b.close_on_empty_ = a.close_on_empty_ /\ b.out = a.out /\ b.rqfin = a.rqfin
      /\ b.seq_bound_ = a.seq_bound_ /\ b.last_prio_ = a.last_prio_ /\ b.twice = a.twice
  BY <1>1 DEF Said
<1>3. b.t_seqno_ \in Nat /\ b.t_seqno_ >= a.t_seqno_ /\ b.h_seqno_ \in Int
  BY <1>1 DEF SMid, SCore, STyped
<1>4. STyped(b, k)
  BY <1>1, <1>2, <1>3 DEF SMid, SCore, STyped
<1>5. SAcked(b, k) /\ SOut(b, k)
  BY <1>2 DEF SMid, SCore, SAcked, SOut, IsOpen
<1>6. IsOpen(b, k) => b.t_seqno_ <= b.curseq_ + 1
  BY <1>1, <1>2 DEF SMid, SCore, SStates, IsOpen
<1>7. a.t_seqno_ \in Nat /\ (IsOpen(a, k) <=> IsOpen(b, k))
  BY <1>2 DEF SMid, SCore, STyped, IsOpen
<1>8. SStates(b, k)
  BY <1>2, <1>3, <1>6, <1>7 DEF SMid, SCore, SStates
<1>9. SPrio(b, k)
  BY <1>2, SPrioSame DEF SMid, SCore, SPrio
<1>. QED BY <1>1, <1>2, <1>4, <1>5, <1>8, <1>9 DEF SMid, SCore, b


\* The rounds of send_much, as a function.
IsRounds(f, m, a, force, w) ==
    f = [n \in 1 .. m |->
            IF n = 1 THEN Round(a, force, w)
            ELSE LET last == f[n - 1]
                 IN IF last.more THEN Round(last.agent, FALSE, w) ELSE last]

\* The rounds exist, whatever their number.
LEMMA RoundsExist ==
    ASSUME NEW a, NEW force, NEW w, NEW m \in Nat
    PROVE  \E f : IsRounds(f, m, a, force, w)
<1> DEFINE S == {j \in Nat : \E f : IsRounds(f, j, a, force, w)}
<1>1. 0 \in S
  <2>1. IsRounds([n \in 1 .. 0 |-> {}], 0, a, force, w)
    BY DEF IsRounds
  <2>. QED BY <2>1
<1>2. ASSUME NEW j \in S
      PROVE  j + 1 \in S
  <2>1. PICK f : IsRounds(f, j, a, force, w)
    OBVIOUS
  <2> DEFINE step(g, n) == IF n = 1 THEN Round(a, force, w)
                           ELSE IF g[n - 1].more THEN Round(g[n - 1].agent, FALSE, w) ELSE g[n - 1]
             h == [n \in 1 .. j + 1 |-> IF n <= j THEN f[n] ELSE step(f, n)]
  <2>2. f = [n \in 1 .. j |-> step(f, n)]
    BY <2>1 DEF IsRounds
  <2>. HIDE DEF step
  <2>3. \A n \in 1 .. j : h[n] = f[n]
    OBVIOUS
  <2>4. \A n \in 1 .. j + 1 : h[n] = step(f, n)
    BY <2>2
  <2>5. \A n \in 1 .. j + 1 : step(h, n) = step(f, n)
    <3>. SUFFICES ASSUME NEW n \in 1 .. j + 1
                  PROVE  step(h, n) = step(f, n)
      OBVIOUS
    <3>1. n # 1 => h[n - 1] = f[n - 1]
      BY <2>3
    <3>. HIDE DEF h
    <3>. QED BY <3>1 DEF step
  <2>6. h = [n \in 1 .. j + 1 |-> step(h, n)]
    <3>1. h = [n \in 1 .. j + 1 |-> step(f, n)]
      BY <2>4
    <3>. HIDE DEF h
    <3>. QED BY <3>1, <2>5
  <2>. HIDE DEF h
  <2>7. IsRounds(h, j + 1, a, force, w)
    BY <2>6 DEF step, IsRounds
  <2>. QED BY <2>7
<1>. HIDE DEF S
<1>3. m \in S
  BY <1>1, <1>2, SetInduction DEF S
<1>. QED BY <1>3 DEF S

\* The rounds of a call of send_much, which returns what the last one leaves.
RoundsOf(f, a, force, w) ==
    /\ f[1] = Round(a, force, w)
    /\ \A n \in 2 .. MaxBurst :
          f[n] = IF f[n - 1].more THEN Round(f[n - 1].agent, FALSE, w) ELSE f[n - 1]
    /\ send_much(a, force, w) = f[MaxBurst].agent

\* Every call has its rounds.
LEMMA SendMuchRounds ==
    ASSUME NEW a, NEW force, NEW w
    PROVE  \E f : RoundsOf(f, a, force, w)
<1>1. PICK f : /\ IsRounds(f, MaxBurst, a, force, w)
               /\ send_much(a, force, w) = f[MaxBurst].agent
  <2>1. \E f : IsRounds(f, MaxBurst, a, force, w)
    BY RoundsExist, TcpOutputAssumption
  <2> DEFINE f == CHOOSE g : IsRounds(g, MaxBurst, a, force, w)
  <2>2. IsRounds(f, MaxBurst, a, force, w)
    BY <2>1
  <2>3. send_much(a, force, w) = f[MaxBurst].agent
    BY DEF send_much, IsRounds
  <2>. QED BY <2>2, <2>3
<1>2. MaxBurst \in Nat \ {0}
  BY TcpOutputAssumption
<1>3. \A n \in 1 .. MaxBurst :
         f[n] = IF n = 1 THEN Round(a, force, w)
                ELSE LET last == f[n - 1]
                     IN IF last.more THEN Round(last.agent, FALSE, w) ELSE last
  BY <1>1 DEF IsRounds
<1>4. f[1] = Round(a, force, w)
  <2>1. 1 \in 1 .. MaxBurst
    BY <1>2
  <2>. QED BY <1>3, <2>1
<1>5. ASSUME NEW n \in 2 .. MaxBurst
      PROVE  f[n] = IF f[n - 1].more THEN Round(f[n - 1].agent, FALSE, w) ELSE f[n - 1]
  <2>1. n \in 1 .. MaxBurst /\ n # 1
    OBVIOUS
  <2>. QED BY <1>3, <2>1
<1>. QED BY <1>1, <1>4, <1>5 DEF RoundsOf

\* One round of send_much.
LEMMA SRound ==
    ASSUME NEW a, NEW k, KOk(k), SMid(a, k), NEW force \in BOOLEAN, NEW w \in Nat,
           a.state_ = "SYN_SENT" => a.t_seqno_ = 0 /\ force
    PROVE  LET r == Round(a, force, w)
           IN SOk(r.agent, k) /\ (r.more => r.agent.state_ # "SYN_SENT")
<1> DEFINE next == nxt_tseq(a)
           b == next.agent
           o == foutput(b, next.seq, w)
           fl == outflags(o.agent)
           amt == IF "FIN" \in fl THEN o.amt - 1 ELSE o.amt
           c == sent(o.agent, next.seq, amt)
<1>1. /\ SMid(b, k) /\ next.seq \in Nat
      /\ \A f \in Said : b[f] = a[f]
      /\ a.state_ = "SYN_SENT" => next.seq = a.t_seqno_
      /\ a.state_ \in Fin => next.seq >= 1
      /\ IsOpen(b, k) => next.seq <= b.curseq_ + 1
  BY SNext
<1>2. b.state_ = a.state_ /\ b.t_seqno_ = a.t_seqno_
  BY <1>1 DEF Said
<1>8. /\ ~(force \/ send_allowed(b, next.seq, w)) =>
            Round(a, force, w) = [agent |-> b, more |-> FALSE]
      /\ (force \/ send_allowed(b, next.seq, w)) /\ o.amt = 0 =>
            Round(a, force, w) = [agent |-> o.agent, more |-> FALSE]
      /\ (force \/ send_allowed(b, next.seq, w)) /\ o.amt # 0 =>
            Round(a, force, w) = [agent |-> c, more |-> fl \cap {"SYN", "FIN"} = {}]
  BY DEF Round
<1>. HIDE DEF b, next
<1>3. /\ SMid(o.agent, k) /\ o.amt \in Nat
      /\ IsOpen(o.agent, k) => next.seq + o.amt <= o.agent.curseq_ + 1
      /\ o.agent.state_ = "SYN_SENT" => o.agent.maxseq_ >= 1 /\ o.amt = 1
      /\ o.agent.state_ = "SYN_SENT" <=> b.state_ = "SYN_SENT"
      /\ o.agent.t_seqno_ = b.t_seqno_
  <2>1. /\ b.state_ = "SYN_SENT" => next.seq = 0
        /\ b.state_ \in Fin => next.seq >= 1
    BY <1>1, <1>2
  <2>2. PICK seq \in Nat : seq = next.seq
    BY <1>1
  <2>3. /\ SMid(b, k)
        /\ IsOpen(b, k) => seq <= b.curseq_ + 1
        /\ b.state_ = "SYN_SENT" => seq = 0
        /\ b.state_ \in Fin => seq >= 1
    BY <1>1, <2>1, <2>2
  <2>. HIDE DEF o
  <2>4. o = foutput(b, seq, w)
    BY <2>2 DEF o
  <2>5. Output(foutput(b, seq, w), b, seq, k)
    BY <2>3, SFoutput
  <2>. QED BY <2>2, <2>4, <2>5 DEF Output, Kept
<1>4. o.agent.state_ = "SYN_SENT" => "SYN" \in fl /\ "FIN" \notin fl
  BY DEF outflags
<1>. HIDE DEF o, fl
<1>5. CASE ~(force \/ send_allowed(b, next.seq, w))
  <2>1. Round(a, force, w) = [agent |-> b, more |-> FALSE]
    BY <1>5, <1>8
  <2>2. SOk(b, k)
    BY <1>1, <1>2, <1>5 DEF SOk
  <2>. QED BY <2>1, <2>2
<1>6. CASE (force \/ send_allowed(b, next.seq, w)) /\ o.amt = 0
  <2>1. Round(a, force, w) = [agent |-> o.agent, more |-> FALSE]
    BY <1>6, <1>8
  <2>2. SOk(o.agent, k)
    BY <1>3, <1>6 DEF SOk
  <2>. QED BY <2>1, <2>2
<1>7. CASE (force \/ send_allowed(b, next.seq, w)) /\ o.amt # 0
  <2>1. Round(a, force, w) = [agent |-> c, more |-> fl \cap {"SYN", "FIN"} = {}]
    BY <1>7, <1>8
  <2>2. amt \in Nat /\ (IsOpen(o.agent, k) => next.seq + amt <= o.agent.curseq_ + 1)
    <3>1. IsOpen(o.agent, k) => o.agent.curseq_ \in Nat
      BY <1>3 DEF SMid, SCore, STyped
    <3>. QED BY <1>1, <1>3, <1>7, <3>1
  <2>9. PICK e : e = o.agent
    OBVIOUS
  <2>. HIDE DEF amt
  <2>10. SMid(e, k) /\ (IsOpen(e, k) => next.seq + amt <= e.curseq_ + 1)
    BY <1>3, <2>2, <2>9
  <2>11. c = sent(e, next.seq, amt)
    BY <2>9
  <2>3. /\ SMid(c, k) /\ c.state_ = o.agent.state_ /\ c.maxseq_ = o.agent.maxseq_
        /\ c.t_seqno_ = IF next.seq = o.agent.t_seqno_ THEN next.seq + amt ELSE o.agent.t_seqno_
    BY <1>1, <2>2, <2>9, <2>10, <2>11, SSent
  <2>4. c.state_ = "SYN_SENT" => amt = 1 /\ next.seq = o.agent.t_seqno_
    BY <1>1, <1>2, <1>3, <1>4, <2>3 DEF amt
  <2>5. c.state_ = "SYN_SENT" => c.t_seqno_ >= 1 /\ c.maxseq_ >= 1
    BY <1>1, <1>3, <2>3, <2>4
  <2>6. SOk(c, k)
    BY <2>3, <2>5 DEF SOk
  <2>7. c.state_ = "SYN_SENT" => fl \cap {"SYN", "FIN"} # {}
    BY <1>4, <2>3
  <2> DEFINE none == fl \cap {"SYN", "FIN"} = {}
  <2>12. Round(a, force, w) = [agent |-> c, more |-> none]
    BY <2>1
  <2>13. none \in BOOLEAN
    OBVIOUS
  <2>. HIDE DEF none, c
  <2>8. Round(a, force, w).agent = c /\ (Round(a, force, w).more => none)
    BY <2>12, <2>13
  <2>. QED BY <2>8, <2>6, <2>7 DEF none
<1>. QED BY <1>5, <1>6, <1>7

\* send_much keeps the invariant, by induction over its rounds.
LEMMA SSendMuch ==
    ASSUME NEW a, NEW k, KOk(k), SMid(a, k), NEW force \in BOOLEAN, NEW w \in Nat,
           a.state_ = "SYN_SENT" => a.t_seqno_ = 0 /\ force
    PROVE  SOk(send_much(a, force, w), k)
<1>0. PICK f : RoundsOf(f, a, force, w)
  BY SendMuchRounds
<1>1. /\ f[1] = Round(a, force, w)
      /\ \A n \in 2 .. MaxBurst :
            f[n] = IF f[n - 1].more THEN Round(f[n - 1].agent, FALSE, w) ELSE f[n - 1]
      /\ send_much(a, force, w) = f[MaxBurst].agent
  BY <1>0 DEF RoundsOf
<1> DEFINE good(r) == SOk(r.agent, k) /\ (r.more => r.agent.state_ # "SYN_SENT")
           S == {j \in Nat : j + 1 <= MaxBurst => good(f[j + 1])}
<1>2. MaxBurst \in Nat \ {0}
  BY TcpOutputAssumption
<1>3. 0 \in S
  BY <1>1, SRound
<1>4. ASSUME NEW j \in S
      PROVE  j + 1 \in S
  <2>. SUFFICES ASSUME j + 2 <= MaxBurst
                PROVE  good(f[j + 2])
    BY <1>2
  <2>1. good(f[j + 1])
    BY <1>2
  <2>2. f[j + 2] = IF f[j + 1].more THEN Round(f[j + 1].agent, FALSE, w) ELSE f[j + 1]
    <3>1. j + 2 \in 2 .. MaxBurst /\ (j + 2) - 1 = j + 1
      BY <1>2
    <3>. QED BY <1>1, <3>1
  <2>3. f[j + 1].more => good(Round(f[j + 1].agent, FALSE, w))
    BY <2>1, SRound DEF SOk
  <2>. QED BY <2>1, <2>2, <2>3
<1>6. S \in SUBSET Nat
  OBVIOUS
<1>. HIDE DEF S
<1>5. MaxBurst - 1 \in S
  BY <1>2, <1>3, <1>4, <1>6, SetInduction
<1>7. MaxBurst - 1 + 1 = MaxBurst
  BY <1>2
<1>8. good(f[MaxBurst])
  BY <1>2, <1>5, <1>7 DEF S
<1>. QED BY <1>1, <1>8


------------------------------------------------------------------------------
(* The sender: what the steps of recv leave *)

\* Of the flags only NEEDFIN and NEEDCLOSE matter.
LEMMA SFlags ==
    ASSUME NEW a, NEW k, NEW b, DOMAIN b = Fields, b.h_seqno_ \in Int,
           \A f \in Said \ {"flags_"} : b[f] = a[f],
           "NEEDFIN" \in b.flags_ => "NEEDFIN" \in a.flags_,
           "NEEDCLOSE" \in b.flags_ => "NEEDCLOSE" \in a.flags_
    PROVE  (SMid(a, k) => SMid(b, k)) /\ (SOk(a, k) => SOk(b, k))
<1>1. /\ b.state_ = a.state_ /\ b.curseq_ = a.curseq_ /\ b.sq_ = a.sq_
      /\ b.highest_ack_ = a.highest_ack_ /\ b.t_seqno_ = a.t_seqno_
      /\ b.maxseq_ = a.maxseq_
      /\ b.connection_ = a.connection_ /\ b.done = a.done
      /\ b.signal_on_empty_ = a.signal_on_empty_
      /\ b.close_on_empty_ = a.close_on_empty_ /\ b.out = a.out /\ b.rqfin = a.rqfin
      /\ b.seq_bound_ = a.seq_bound_ /\ b.last_prio_ = a.last_prio_ /\ b.twice = a.twice
  BY DEF Said
<1>2. STyped(a, k) => STyped(b, k)
  BY <1>1 DEF STyped
<1>3. (SAcked(a, k) => SAcked(b, k)) /\ (SOut(a, k) => SOut(b, k))
  BY <1>1 DEF SAcked, SOut, IsOpen
<1>4. SStates(a, k) => SStates(b, k)
  BY <1>1 DEF SStates, IsOpen
<1>5. ASSUME SPrio(a, k)
      PROVE  SPrio(b, k)
  BY <1>1, <1>5, SPrioSame DEF SPrio
<1>. QED BY <1>1, <1>2, <1>3, <1>4, <1>5 DEF SCore, SMid, SOk

\* An acknowledgement that the sender may take.
Acks(n, a, k) ==
    /\ n \in Int /\ Known(n, a.curseq_, k.G)
    /\ IsOpen(a, k) => n <= a.curseq_ + 1
    /\ k.q => n <= 0 \/ n <= k.n

\* An acknowledgement moves highest_ack_ and t_seqno_ and may change the scoreboard.
LEMMA SAdvance ==
    ASSUME NEW a, NEW k, NEW b, KOk(k), SMid(a, k), a.state_ \notin {"CLOSED", "SYN_SENT"},
           DOMAIN b = Fields, b.h_seqno_ \in Int, b.sq_ \subseteq k.G,
           Acks(b.highest_ack_, a, k), b.highest_ack_ >= a.highest_ack_,
           b.highest_ack_ <= a.maxseq_,
           b.t_seqno_ \in Nat, b.t_seqno_ >= a.t_seqno_,
           IsOpen(a, k) => b.t_seqno_ <= a.curseq_ + 1,
           \A f \in Said \ {"sq_", "highest_ack_", "t_seqno_"} : b[f] = a[f]
    PROVE  SMid(b, k) /\ (IsQuiet(b, k) => IsQuiet(a, k))
<1>1. /\ b.state_ = a.state_ /\ b.curseq_ = a.curseq_
      /\ b.maxseq_ = a.maxseq_ /\ b.flags_ = a.flags_
      /\ b.connection_ = a.connection_ /\ b.done = a.done
      /\ b.signal_on_empty_ = a.signal_on_empty_
      /\ b.close_on_empty_ = a.close_on_empty_ /\ b.out = a.out /\ b.rqfin = a.rqfin
      /\ b.seq_bound_ = a.seq_bound_ /\ b.last_prio_ = a.last_prio_ /\ b.twice = a.twice
  BY DEF Said
<1>2. STyped(b, k)
  BY <1>1 DEF SMid, SCore, STyped, Acks
<1>3. SAcked(b, k) /\ SOut(b, k)
  BY <1>1 DEF SMid, SCore, SAcked, SOut, IsOpen, Acks
<1>4. /\ IsOpen(b, k) <=> IsOpen(a, k)
      /\ a.highest_ack_ \in Int /\ b.highest_ack_ \in Int /\ a.t_seqno_ \in Nat
      /\ IsOpen(a, k) => b.highest_ack_ <= a.curseq_ + 1
      /\ k.q => b.highest_ack_ <= 0 \/ b.highest_ack_ <= k.n
      /\ k.q => IsOpen(a, k)
      /\ a.curseq_ \in Int
  BY <1>1 DEF SMid, SCore, STyped, IsOpen, Acks
<1>6. a.highest_ack_ >= 1
  BY DEF SMid, SCore, SStates
<1>7. k.q => b.highest_ack_ <= k.n
  BY <1>4, <1>6
<1>5. SStates(b, k)
  <2>1. b.state_ \notin {"CLOSED", "SYN_SENT"}
    BY <1>1
  <2>. QED BY <1>1, <1>4, <1>7, <2>1 DEF SMid, SCore, SStates
<1>8. Waits(b) => Waits(a)
  BY <1>1, <1>4 DEF Waits
<1>9. SPrio(b, k)
  <2>1. a.connection_ \in 0 .. Len(k.s) /\ b.highest_ack_ <= b.maxseq_
    BY <1>1 DEF SMid, SCore, STyped
  <2>2. Waits(b) => Waits(a) /\ b.rqfin = NoFin /\ b.state_ # "CLOSE_WAIT"
    BY <1>1, <1>8 DEF SMid, SCore, SPrio
  <2>3. SPrio(a, k)
    BY DEF SMid, SCore
  <2>. QED BY <1>1, <1>4, <2>1, <2>2, <2>3, SPrioKept
<1>. QED BY <1>1, <1>2, <1>3, <1>5, <1>8, <1>9 DEF SMid, SCore, IsQuiet

\* The sender closes: the state changes, and leaves the open ones.
LEMMA SNewstate ==
    ASSUME NEW a, NEW k, NEW b, SMid(a, k), ~k.q,
           DOMAIN b = Fields, b.h_seqno_ \in Int,
           \A f \in Said \ {"state_", "flags_"} : b[f] = a[f],
           "NEEDCLOSE" \notin b.flags_,
           b.state_ \in {"CLOSED"} \cup Open \cup Fin, b.state_ # "SYN_SENT",
           b.state_ # "CLOSED" => a.state_ \notin {"CLOSED", "SYN_SENT"},
           b.state_ \in Open => a.state_ \in Open,
           a.state_ # "SYN_SENT", b.state_ = "CLOSE_WAIT" => ~Waits(a)
    PROVE  SMid(b, k) /\ (IsQuiet(b, k) => IsQuiet(a, k))
<1>1. /\ b.curseq_ = a.curseq_ /\ b.sq_ = a.sq_
      /\ b.highest_ack_ = a.highest_ack_ /\ b.t_seqno_ = a.t_seqno_
      /\ b.maxseq_ = a.maxseq_
      /\ b.connection_ = a.connection_ /\ b.done = a.done
      /\ b.signal_on_empty_ = a.signal_on_empty_
      /\ b.close_on_empty_ = a.close_on_empty_ /\ b.out = a.out /\ b.rqfin = a.rqfin
      /\ b.seq_bound_ = a.seq_bound_ /\ b.last_prio_ = a.last_prio_ /\ b.twice = a.twice
  BY DEF Said
<1>2. STyped(b, k)
  BY <1>1 DEF SMid, SCore, STyped
<1>3. SAcked(b, k)
  BY <1>1 DEF SMid, SCore, SAcked
<1>4. IsOpen(b, k) => IsOpen(a, k)
  BY DEF IsOpen
<1>5. SStates(b, k)
  BY <1>1, <1>4 DEF SMid, SCore, SStates
<1>6. SOut(b, k)
  BY <1>1, <1>4 DEF SMid, SCore, SOut, AllToReceiver, ToReceiver
<1>7. Waits(b) => Waits(a)
  BY <1>1 DEF Waits
<1>8. SPrio(b, k)
  <2>1. b.highest_ack_ <= b.maxseq_
    BY <1>1 DEF SMid, SCore, SPrio
  <2>2. Waits(b) => Waits(a) /\ b.rqfin = NoFin /\ b.state_ # "CLOSE_WAIT"
    BY <1>1, <1>7 DEF SMid, SCore, SPrio
  <2>. QED BY <1>1, <2>1, <2>2, SPrioKept DEF SMid, SCore
<1>. QED BY <1>2, <1>3, <1>5, <1>6, <1>7, <1>8 DEF SMid, SCore, IsQuiet


\* Where newack, pack_action and ack_action leave the sender.
LEMMA SAckAction ==
    ASSUME NEW a, NEW k, KOk(k), SMid(a, k), a.state_ \notin {"CLOSED", "SYN_SENT"},
           NEW p, Acks(p.ackno, a, k), p.ackno <= a.maxseq_,
           NEW partial \in BOOLEAN
    PROVE  LET b == AckAction(a, p, partial)
           IN /\ SMid(newack(a, p.ackno), k) /\ SMid(b, k) /\ b.state_ = a.state_
              /\ b.maxseq_ = a.maxseq_ /\ (IsQuiet(b, k) => IsQuiet(a, k))
<1> DEFINE una == Largest(a.highest_ack_, p.ackno)
           c == newack(a, p.ackno)
           b == AckAction(a, p, partial)
<1>1. /\ a.highest_ack_ \in Int /\ a.t_seqno_ \in Nat /\ a.h_seqno_ \in Int
      /\ a.sq_ \subseteq k.G /\ DOMAIN a = Fields
      /\ Acks(a.highest_ack_, a, k) /\ p.ackno \in Int /\ a.curseq_ \in Int
      /\ IsOpen(a, k) => a.t_seqno_ <= a.curseq_ + 1
  BY DEF SMid, SCore, STyped, SAcked, SStates, Acks, IsOpen
<1>2. una \in Int /\ una >= a.highest_ack_ /\ Acks(una, a, k)
  BY <1>1 DEF Largest
<1>14. una <= a.maxseq_
  BY DEF Largest, SMid, SCore, SPrio
<1>3. Largest(a.t_seqno_, una) \in Nat /\ Largest(a.t_seqno_, una) >= a.t_seqno_
  BY <1>1, <1>2 DEF Largest
<1>4. IsOpen(a, k) => Largest(a.t_seqno_, una) <= a.curseq_ + 1
  BY <1>1, <1>2 DEF Largest, Acks
<1>. HIDE DEF una
<1>5. /\ DOMAIN c = Fields /\ c.highest_ack_ = una /\ c.t_seqno_ = Largest(a.t_seqno_, una)
      /\ \A f \in Fields \ {"rtx_timer_", "highest_ack_", "t_seqno_"} : c[f] = a[f]
  BY <1>1, FieldsAre DEF newack, una
<1>. HIDE DEF c
<1>6. c.sq_ = a.sq_ /\ c.h_seqno_ = a.h_seqno_ /\ c.state_ = a.state_
  BY <1>5, FieldsAre
<1>7. SMid(c, k)
  <2>1. \A f \in Said \ {"sq_", "highest_ack_", "t_seqno_"} : c[f] = a[f]
    BY <1>5, FieldsAre DEF Said
  <2>. QED BY <2>1, <1>1, <1>2, <1>3, <1>4, <1>5, <1>6, <1>14, SAdvance
<1> DEFINE d == ClearToAck(c)
<1>8. /\ DOMAIN d = Fields /\ d.sq_ \subseteq c.sq_
      /\ d.h_seqno_ = Largest(c.h_seqno_, c.highest_ack_)
      /\ \A f \in Fields \ {"sq_", "h_seqno_"} : d[f] = c[f]
  BY <1>5, FieldsAre DEF ClearToAck
<1>. HIDE DEF d
<1>9. /\ DOMAIN b = Fields
      /\ \A f \in Fields \ {"fastrecov_", "pipectrl_", "pipe_", "dupacks_"} : b[f] = d[f]
  <2>1. b = IF partial THEN pack_action(c) ELSE ack_action(c)
    BY DEF AckAction, c
  <2>. HIDE DEF b
  <2>2. pack_action(c) = [d EXCEPT !.pipe_ = IF c.pipectrl_ THEN @ - MaxSeg ELSE @]
    BY DEF pack_action, d
  <2>3. ack_action(c) = [d EXCEPT !.fastrecov_ = FALSE, !.pipectrl_ = FALSE,
                                  !.pipe_ = 0, !.dupacks_ = 0]
    BY DEF ack_action, d
  <2>. QED BY <1>8, <2>1, <2>2, <2>3, FieldsAre
<1>. HIDE DEF b
<1>10. /\ b.sq_ = d.sq_ /\ b.h_seqno_ = d.h_seqno_ /\ b.state_ = c.state_
       /\ b.highest_ack_ = una /\ b.t_seqno_ = c.t_seqno_
  BY <1>5, <1>8, <1>9, FieldsAre
<1>11. b.h_seqno_ \in Int /\ b.sq_ \subseteq k.G
  BY <1>1, <1>2, <1>5, <1>6, <1>8, <1>10 DEF Largest
<1>12. \A f \in Said \ {"sq_", "highest_ack_", "t_seqno_"} : b[f] = a[f]
  BY <1>5, <1>8, <1>9, FieldsAre DEF Said
<1>13. SMid(b, k) /\ (IsQuiet(b, k) => IsQuiet(a, k))
  BY <1>1, <1>2, <1>3, <1>4, <1>5, <1>9, <1>10, <1>11, <1>12, <1>14, SAdvance
<1>15. b.maxseq_ = a.maxseq_
  BY <1>12 DEF Said
<1>. QED BY <1>6, <1>7, <1>10, <1>13, <1>15 DEF b, c

\* The sender after it has been reset.
LEMMA SReset ==
    ASSUME NEW a, NEW k, KOk(k), SMid(a, k), ~k.q
    PROVE  SOk(reset(newstate(a, "CLOSED")), k)
<1> DEFINE c == newstate(a, "CLOSED")
           b == reset(c)
<1>1. DOMAIN c = Fields /\ c.state_ = "CLOSED" /\ \A f \in Fields \ {"state_"} : c[f] = a[f]
  BY FieldsAre DEF SMid, SCore, STyped, newstate
<1>. HIDE DEF c
<1>2. /\ DOMAIN b = Fields
      /\ b.curseq_ = 0 /\ b.maxseq_ = -1 /\ b.highest_ack_ = -1 /\ b.t_seqno_ = 0
      /\ b.h_seqno_ = -1 /\ b.sq_ = {} /\ b.flags_ = {} /\ b.close_on_empty_ = FALSE
      /\ b.rqfin = NoFin
      /\ b.seq_bound_ = c.seq_bound_ /\ b.last_prio_ = c.last_prio_ /\ b.twice = c.twice
      /\ b.state_ = c.state_ /\ b.out = c.out /\ b.done = c.done
      /\ b.connection_ = c.connection_ /\ b.signal_on_empty_ = c.signal_on_empty_
  BY <1>1 DEF reset, Fresh, Created, Fields, ISS
<1>. HIDE DEF b
<1>3. /\ b.state_ = "CLOSED" /\ b.out = a.out /\ b.done = a.done
      /\ b.seq_bound_ = a.seq_bound_ /\ b.last_prio_ = a.last_prio_ /\ b.twice = a.twice
      /\ b.connection_ = a.connection_ /\ b.signal_on_empty_ = a.signal_on_empty_
  BY <1>1, <1>2, FieldsAre
<1>4. /\ k.e[a.connection_] \in Nat /\ a.connection_ \in 0 .. Len(k.s) /\ a.curseq_ \in Nat
  BY DEF SMid, SCore, STyped, KOk
<1>5. STyped(b, k)
  <2>1. /\ a.done \in 0 .. a.connection_
        /\ a.signal_on_empty_ \in BOOLEAN
        /\ b.curseq_ <= k.e[b.connection_]
    BY <1>2, <1>3, <1>4 DEF SMid, SCore, STyped
  <2>2. b.signal_on_empty_ \in BOOLEAN /\ b.close_on_empty_ \in BOOLEAN
    BY <2>1, <1>2, <1>3
  <2>3. /\ b.curseq_ \in Nat /\ b.maxseq_ \in Int /\ b.highest_ack_ \in Int
        /\ b.t_seqno_ \in Nat /\ b.h_seqno_ \in Int
    BY <1>2
  <2>4. /\ b.connection_ = k.m /\ b.curseq_ <= k.x /\ b.state_ \notin Open
        /\ k.q => b.rqfin = NoFin
    BY <1>2, <1>3 DEF SMid, SCore, STyped, KOk, Open
  <2>. QED BY <2>1, <2>2, <2>3, <2>4, <1>2, <1>3, <1>4 DEF STyped
<1>6. SAcked(b, k)
  BY <1>2, <1>3, <1>4 DEF SMid, SCore, SAcked, Known
<1>7. ~IsOpen(b, k)
  BY <1>3 DEF IsOpen, Open
<1>8. SStates(b, k)
  BY <1>2, <1>3, <1>7 DEF SStates
<1>9. SOut(b, k)
  BY <1>2, <1>3, <1>4, <1>7, StillToReceiver DEF SMid, SCore, SOut
<1>10. SPrio(b, k)
  <2>1. ~Waits(b) /\ b.highest_ack_ <= b.maxseq_ /\ b.curseq_ = 0
    BY <1>2, <1>3 DEF Waits, Open
  <2>. QED BY <1>3, <2>1 DEF SMid, SCore, SPrio
<1>. QED BY <1>2, <1>3, <1>5, <1>6, <1>8, <1>9, <1>10 DEF SOk, SMid, SCore, b, c

\* usrclosed keeps the invariant, when the application has asked to close.
LEMMA SUsrclosed ==
    ASSUME NEW a, NEW k, KOk(k), SMid(a, k), ~k.q, NEW w \in Nat,
           a.state_ \in {"ESTABLISHED", "CLOSE_WAIT"}, ~Waits(a)
    PROVE  SOk(usrclosed(a, w), k)
<1> DEFINE b == newstate(raise([a EXCEPT !.curseq_ = a.maxseq_ - 1], "NEEDFIN"),
                         AfterClose[a.state_])
<1>1. usrclosed(a, w) = send_much(b, TRUE, w)
  BY DEF usrclosed, AfterClose
<1>2. b.state_ \in Fin
  BY FieldsAre DEF SMid, SCore, STyped, newstate, raise, AfterClose, Fin
<1>3. /\ DOMAIN b = Fields /\ b.curseq_ = a.maxseq_ - 1 /\ b.flags_ = a.flags_ \cup {"NEEDFIN"}
      /\ \A f \in Fields \ {"curseq_", "flags_", "state_"} : b[f] = a[f]
  BY FieldsAre DEF SMid, SCore, STyped, newstate, raise
<1>. HIDE DEF b
<1>4. /\ b.maxseq_ = a.maxseq_ /\ b.sq_ = a.sq_
      /\ b.highest_ack_ = a.highest_ack_ /\ b.t_seqno_ = a.t_seqno_
      /\ b.h_seqno_ = a.h_seqno_
      /\ b.connection_ = a.connection_ /\ b.done = a.done
      /\ b.signal_on_empty_ = a.signal_on_empty_
      /\ b.close_on_empty_ = a.close_on_empty_ /\ b.out = a.out /\ b.rqfin = a.rqfin
      /\ b.seq_bound_ = a.seq_bound_ /\ b.last_prio_ = a.last_prio_ /\ b.twice = a.twice
  BY <1>3, FieldsAre
<1>5. IsOpen(a, k) /\ ~IsOpen(b, k)
  BY <1>2 DEF IsOpen, Open, Fin
<1>12. /\ a.curseq_ \in Nat /\ a.maxseq_ \in Int /\ a.highest_ack_ \in Int
       /\ a.connection_ \in 0 .. Len(k.s)
  BY DEF SMid, SCore, STyped
<1>13. a.maxseq_ <= a.curseq_ + 1
  BY <1>5 DEF SMid, SCore, SStates
<1>14. a.maxseq_ >= 1
  BY DEF SMid, SCore, SStates
<1>15. k.e[a.connection_] \in Nat
  BY <1>12 DEF KOk
<1>6. /\ b.curseq_ \in Nat /\ a.curseq_ \in Nat /\ b.curseq_ <= a.curseq_
      /\ k.e[a.connection_] \in Nat /\ a.highest_ack_ \in Int /\ a.maxseq_ >= 1
  BY <1>3, <1>12, <1>13, <1>14, <1>15
<1>7. STyped(b, k)
  <2>1. b.curseq_ <= k.x /\ b.state_ \notin Open
    <3>1. a.curseq_ <= k.x /\ k.x \in Int
      BY DEF SMid, SCore, STyped, KOk
    <3>. QED BY <1>2, <1>6, <3>1 DEF Open, Fin
  <2>. QED BY <2>1, <1>2, <1>3, <1>4, <1>6 DEF SMid, SCore, STyped
<1>8. SAcked(b, k)
  BY <1>4, <1>6 DEF SMid, SCore, SAcked, Known
<1>9. SStates(b, k)
  BY <1>2, <1>4, <1>5 DEF SMid, SCore, SStates, Fin
<1>10. SOut(b, k)
  <2>1. AllToReceiver(a.out, a.curseq_, k.e[a.connection_], IsOpen(a, k))
    BY DEF SMid, SCore, SOut
  <2>2. AllToReceiver(a.out, b.curseq_, k.e[a.connection_], IsOpen(b, k))
    BY <2>1, <1>5, <1>6 DEF AllToReceiver, ToReceiver
  <2>. QED BY <2>2, <1>4 DEF SOut
<1>16. a.curseq_ < a.highest_ack_ /\ a.highest_ack_ <= a.maxseq_
  <2>1. a.state_ \in Open
    BY DEF Open
  <2>. QED BY <2>1, <1>12 DEF Waits, SMid, SCore, SPrio
<1>17. b.curseq_ = a.curseq_
  BY <1>3, <1>12, <1>13, <1>16
<1>18. SPrio(b, k)
  <2>1. /\ ~Waits(b) /\ b.highest_ack_ <= b.maxseq_
        /\ b.state_ # "SYN_SENT" => a.state_ # "SYN_SENT"
    BY <1>2, <1>4, <1>16 DEF Waits, Open, Fin
  <2>. QED BY <1>4, <1>17, <2>1, SPrioKept DEF SMid, SCore
<1>11. SMid(b, k) /\ b.state_ # "SYN_SENT"
  BY <1>2, <1>3, <1>7, <1>8, <1>9, <1>10, <1>18 DEF SMid, SCore, Fin
<1>. QED BY <1>1, <1>11, SSendMuch

\* The sender's timer keeps the invariant.
LEMMA STimeout ==
    ASSUME NEW a, NEW k, KOk(k), SOk(a, k), NEW w \in Nat
    PROVE  SOk(timeout([a EXCEPT !.rtx_timer_ = FALSE], w), k)
<1> DEFINE c == [a EXCEPT !.rtx_timer_ = FALSE]
           b == timeout_action(c)
<1>1. /\ DOMAIN c = Fields /\ \A f \in Fields \ {"rtx_timer_"} : c[f] = a[f]
  BY FieldsAre DEF SOk, SMid, SCore, STyped
<1>. HIDE DEF c
<1>2. c.highest_ack_ = a.highest_ack_
  BY <1>1, FieldsAre
<1>3. /\ DOMAIN b = Fields
      /\ b.t_seqno_ = Largest(a.highest_ack_, ISS)
      /\ b.h_seqno_ \in {a.h_seqno_, a.highest_ack_}
      /\ \A f \in Said \ {"t_seqno_"} : b[f] = a[f]
  <2> DEFINE n == Least(c.prob_count_ + 1, ProbCap + 1)
             d == IF ProbCap = 0 THEN c
                  ELSE [c EXCEPT !.prob_count_ = n,
                                 !.prob_mode_ = c.prob_mode_ \/ n = ProbCap,
                                 !.h_seqno_ = c.highest_ack_]
             g == Largest(c.highest_ack_, ISS)
  <2>1. /\ DOMAIN d = DOMAIN c /\ d.h_seqno_ \in {c.h_seqno_, c.highest_ack_}
        /\ \A f \in DOMAIN c \ {"prob_count_", "prob_mode_", "h_seqno_"} : d[f] = c[f]
    <3>. HIDE DEF n
    <3>1. {"prob_count_", "prob_mode_", "h_seqno_"} \subseteq DOMAIN c
      BY <1>1, FieldsAre
    <3>2. CASE ProbCap = 0
      BY <3>2
    <3>3. CASE ProbCap # 0
      BY <3>1, <3>3
    <3>. QED BY <3>2, <3>3
  <2>2. b = [d EXCEPT !.recover_ = c.maxseq_, !.rtx_timer_ = TRUE, !.fastrecov_ = FALSE,
                      !.t_seqno_ = g, !.dupacks_ = 0]
    BY DEF timeout_action
  <2>. HIDE DEF d, b, g
  <2>3. /\ DOMAIN b = DOMAIN d /\ b.t_seqno_ = g /\ b.h_seqno_ = d.h_seqno_
        /\ \A f \in Fields \ {"recover_", "rtx_timer_", "fastrecov_", "t_seqno_", "dupacks_"} :
              b[f] = d[f]
    BY <1>1, <2>1, <2>2, FieldsAre
  <2>4. \A f \in Said \ {"t_seqno_"} : f \in Fields /\ b[f] = a[f]
    <3>1. \A f \in Said : f \in Fields
      BY FieldsAre DEF Said
    <3>2. \A f \in Said \ {"t_seqno_"} :
            f \notin {"recover_", "rtx_timer_", "fastrecov_", "t_seqno_", "dupacks_",
                      "prob_count_", "prob_mode_", "h_seqno_"}
      BY DEF Said
    <3>. QED BY <1>1, <2>1, <2>3, <3>1, <3>2
  <2>5. c.h_seqno_ = a.h_seqno_
    BY <1>1, FieldsAre
  <2>. QED BY <1>1, <1>2, <2>1, <2>3, <2>4, <2>5 DEF g
<1>. HIDE DEF b
<1>4. /\ b.state_ = a.state_ /\ b.curseq_ = a.curseq_ /\ b.sq_ = a.sq_
      /\ b.highest_ack_ = a.highest_ack_ /\ b.maxseq_ = a.maxseq_ /\ b.flags_ = a.flags_
      /\ b.connection_ = a.connection_ /\ b.done = a.done
      /\ b.signal_on_empty_ = a.signal_on_empty_
      /\ b.close_on_empty_ = a.close_on_empty_ /\ b.out = a.out /\ b.rqfin = a.rqfin
      /\ b.seq_bound_ = a.seq_bound_ /\ b.last_prio_ = a.last_prio_ /\ b.twice = a.twice
  BY <1>3 DEF Said
<1>5. SMid(a, k) /\ a.highest_ack_ \in Int /\ a.h_seqno_ \in Int /\ a.curseq_ \in Nat
  BY DEF SOk, SMid, SCore, STyped
<1>6. /\ b.t_seqno_ \in Nat /\ b.h_seqno_ \in Int
      /\ a.highest_ack_ >= 1 => b.t_seqno_ >= 1
      /\ a.highest_ack_ <= a.curseq_ + 1 => b.t_seqno_ <= a.curseq_ + 1
      /\ a.highest_ack_ = -1 => b.t_seqno_ = 0
  BY <1>3, <1>5 DEF Largest, ISS
<1>7. STyped(b, k)
  BY <1>3, <1>4, <1>5, <1>6 DEF SMid, SCore, STyped
<1>8. SAcked(b, k) /\ SOut(b, k)
  BY <1>4, <1>5 DEF SMid, SCore, SAcked, SOut, IsOpen
<1>9. SStates(b, k)
  BY <1>4, <1>5, <1>6 DEF SMid, SCore, SStates, IsOpen
<1>11. SPrio(b, k)
  BY <1>4, <1>5, SPrioSame DEF SMid, SCore, SPrio
<1>10. SMid(b, k) /\ (b.state_ = "SYN_SENT" => b.t_seqno_ = 0)
  BY <1>4, <1>5, <1>6, <1>7, <1>8, <1>9, <1>11 DEF SMid, SCore, SStates
<1>. QED BY <1>10, SSendMuch DEF timeout, b, c


\* Two agents of which the invariant of the sender says the same.
Alike(a, b) ==
    /\ DOMAIN a = Fields /\ DOMAIN b = Fields
    /\ \A f \in (Said \ {"flags_", "rqfin"}) \cup {"h_seqno_"} : b[f] = a[f]
    /\ "NEEDFIN" \in b.flags_ => "NEEDFIN" \in a.flags_
    /\ "NEEDCLOSE" \in b.flags_ => "NEEDCLOSE" \in a.flags_

\* The invariant carries over from one to the other.
LEMMA SAlike ==
    ASSUME NEW a, NEW k, NEW b, Alike(a, b), IsQuiet(a, k) => b.rqfin = NoFin
    PROVE  /\ (SMid(a, k) => SMid(b, k)) /\ (SOk(a, k) => SOk(b, k))
           /\ b.state_ = a.state_ /\ (IsQuiet(b, k) <=> IsQuiet(a, k))
<1>1. /\ b.state_ = a.state_ /\ b.curseq_ = a.curseq_ /\ b.sq_ = a.sq_
      /\ b.highest_ack_ = a.highest_ack_ /\ b.t_seqno_ = a.t_seqno_
      /\ b.maxseq_ = a.maxseq_ /\ b.h_seqno_ = a.h_seqno_
      /\ b.connection_ = a.connection_ /\ b.done = a.done
      /\ b.signal_on_empty_ = a.signal_on_empty_
      /\ b.close_on_empty_ = a.close_on_empty_ /\ b.out = a.out
      /\ b.seq_bound_ = a.seq_bound_ /\ b.last_prio_ = a.last_prio_ /\ b.twice = a.twice
  BY DEF Alike, Said
<1>2. DOMAIN b = Fields
      /\ ("NEEDFIN" \in b.flags_ => "NEEDFIN" \in a.flags_)
      /\ ("NEEDCLOSE" \in b.flags_ => "NEEDCLOSE" \in a.flags_)
  BY DEF Alike
<1>3. STyped(a, k) => STyped(b, k)
  BY <1>1, <1>2 DEF STyped, IsQuiet
<1>4. (SAcked(a, k) => SAcked(b, k)) /\ (SOut(a, k) => SOut(b, k))
  BY <1>1 DEF SAcked, SOut, IsOpen
<1>5. SStates(a, k) => SStates(b, k)
  BY <1>1, <1>2 DEF SStates, IsOpen
<1>6. Waits(b) <=> Waits(a)
  BY <1>1 DEF Waits
<1>7. ASSUME SPrio(a, k)
      PROVE  SPrio(b, k)
  BY <1>1, <1>7, SPrioSame DEF IsQuiet
<1>. QED BY <1>1, <1>2, <1>3, <1>4, <1>5, <1>6, <1>7 DEF SCore, SMid, SOk, IsQuiet

\* Alike is an ordering.
LEMMA AlikeAgain ==
    ASSUME NEW a, NEW b, NEW c, Alike(a, b), Alike(b, c)
    PROVE  Alike(a, c)
BY DEF Alike

\* Flags but for the two that matter.
LEMMA AlikeRaise ==
    ASSUME NEW a, DOMAIN a = Fields, NEW flag \in {"ACKNOW", "DELACK"}
    PROVE  Alike(a, raise(a, flag)) /\ Alike(a, a)
BY FieldsAre DEF Alike, Said, raise

\* The countdown changes nothing of the sender.
LEMMA AlikeCountdown ==
    ASSUME NEW a, DOMAIN a = Fields, NEW bytes
    PROVE  Alike(a, countdown(a, bytes))
<1> DEFINE n == IF a.flow_remaining_ > 0 THEN a.flow_remaining_ - bytes ELSE a.flow_remaining_
           b == raise(a, "ACKNOW")
<1>1. countdown(a, bytes) = IF n = 0 THEN [b EXCEPT !.flow_remaining_ = -1]
                            ELSE [a EXCEPT !.flow_remaining_ = n]
  BY DEF countdown
<1>. HIDE DEF n
<1>2. Alike(a, b)
  BY AlikeRaise
<1>. HIDE DEF b
<1>3. Alike(a, [b EXCEPT !.flow_remaining_ = -1])
  BY <1>2, FieldsAre DEF Alike, Said
<1>4. Alike(a, [a EXCEPT !.flow_remaining_ = n])
  BY FieldsAre DEF Alike, Said
<1>. QED BY <1>1, <1>3, <1>4

\* Data that arrives changes nothing of the sender.
LEMMA AlikeTake ==
    ASSUME NEW a, DOMAIN a = Fields, NEW p
    PROVE  Alike(a, Take(a, p).agent)
<1> DEFINE inOrder == p.seqno = a.rcv_nxt_ /\ a.rq_ = {} /\ a.rqfin = NoFin
           b == [raise(a, "DELACK") EXCEPT !.rcv_nxt_ = @ + p.len]
           r == reass(a, p)
           q == r.agent
           c == countdown(q, Filled(a, q.rcv_nxt_, p))
           d == IF q.rcv_nxt_ > a.rcv_nxt_ THEN c ELSE q
<1>1. Take(a, p).agent = IF inOrder THEN IF p.len > 0 THEN countdown(b, p.len) ELSE b
                         ELSE raise(d, "ACKNOW")
  BY DEF Take
<1>2. Alike(a, b)
  <2>1. Alike(a, raise(a, "DELACK"))
    BY AlikeRaise
  <2>. QED BY <2>1, FieldsAre DEF Alike, Said
<1>3. Alike(a, q)
  BY FieldsAre DEF Alike, Said, reass
<1>. HIDE DEF inOrder, b, q, r
<1>4. DOMAIN b = Fields /\ DOMAIN q = Fields
  BY <1>2, <1>3 DEF Alike
<1>5. Alike(b, countdown(b, p.len)) /\ Alike(q, c)
  BY <1>4, AlikeCountdown
<1>. HIDE DEF c
<1>6. Alike(a, d)
  BY <1>3, <1>5, AlikeAgain
<1>. HIDE DEF d
<1>7. Alike(d, raise(d, "ACKNOW"))
  BY <1>6, AlikeRaise DEF Alike
<1>8. Alike(a, raise(d, "ACKNOW"))
  BY <1>6, <1>7, AlikeAgain
<1>9. Alike(a, countdown(b, p.len))
  BY <1>2, <1>5, AlikeAgain
<1>. QED BY <1>1, <1>2, <1>8, <1>9

\* The FIN of the peer, which comes after a close only.
LEMMA STakeFin ==
    ASSUME NEW a, NEW k, SMid(a, k), ~IsQuiet(a, k), a.state_ # "SYN_SENT"
    PROVE  SMid(TakeFin(a), k) /\ TakeFin(a).state_ # "SYN_SENT"
<1> DEFINE b == [raise(a, "ACKNOW") EXCEPT !.rcv_nxt_ = @ + 1]
           c == TakeFin(a)
<1>1. DOMAIN a = Fields /\ a.h_seqno_ \in Int /\ a.state_ \in {"CLOSED"} \cup Open \cup Fin
  BY DEF SMid, SCore, STyped
<1>2. Alike(a, b)
  <2>1. Alike(a, raise(a, "ACKNOW"))
    BY <1>1, AlikeRaise
  <2>. QED BY <2>1, FieldsAre DEF Alike, Said
<1>3. b.state_ = a.state_
  BY <1>2 DEF Alike, Said
<1>4. /\ a.state_ = "ESTABLISHED" => c = newstate(b, "CLOSE_WAIT")
      /\ a.state_ = "FIN_WAIT_1" => c = newstate(b, "CLOSING")
      /\ a.state_ = "FIN_WAIT_2" => c = newstate(cancel_timers(b), "CLOSED")
      /\ a.state_ \notin {"ESTABLISHED", "FIN_WAIT_1", "FIN_WAIT_2", "SYN_RECEIVED"} => c = b
  BY DEF TakeFin
<1>. HIDE DEF b, c
<1>7. ~k.q /\ ~Waits(a) /\ ~Waits(b)
  BY <1>2 DEF IsQuiet, Waits, Alike, Said
<1>5. CASE a.state_ \in {"ESTABLISHED", "FIN_WAIT_1", "FIN_WAIT_2"}
  <2>0. PICK s \in {"CLOSE_WAIT", "CLOSING", "CLOSED"} :
            /\ c = newstate(b, s) \/ c = newstate(cancel_timers(b), s)
            /\ s = "CLOSE_WAIT" => a.state_ = "ESTABLISHED"
    BY <1>4, <1>5
  <2>1. /\ DOMAIN c = Fields /\ c.h_seqno_ = b.h_seqno_ /\ c.flags_ = b.flags_
        /\ \A f \in Said \ {"state_", "flags_"} : c[f] = b[f]
        /\ c.state_ = s
    <3>1. DOMAIN b = Fields
      BY <1>2 DEF Alike
    <3>2. c \in {[b EXCEPT !.state_ = s], [[b EXCEPT !.rtx_timer_ = FALSE] EXCEPT !.state_ = s]}
      BY <2>0 DEF newstate, cancel_timers
    <3>3. /\ DOMAIN c = Fields /\ c.state_ = s
          /\ \A f \in Fields \ {"state_", "rtx_timer_"} : c[f] = b[f]
      BY <3>1, <3>2, FieldsAre
    <3>. QED BY <3>3, FieldsAre DEF Said
  <2>2. SMid(b, k)
    BY <1>2, <1>7, SAlike DEF IsQuiet
  <2>3. c.h_seqno_ \in Int /\ "NEEDCLOSE" \notin c.flags_
    BY <2>1, <2>2 DEF SMid, SCore, STyped
  <2>4. /\ c.state_ \in {"CLOSED"} \cup Open \cup Fin /\ c.state_ # "SYN_SENT"
        /\ c.state_ # "CLOSED" => b.state_ \notin {"CLOSED", "SYN_SENT"}
        /\ c.state_ \in Open => b.state_ \in Open
    BY <2>0, <2>1, <1>3, <1>5 DEF Open, Fin
  <2>5. b.state_ # "SYN_SENT"
    BY <1>3
  <2>6. SMid(c, k)
    BY <1>7, <2>1, <2>2, <2>3, <2>4, <2>5, SNewstate
  <2>. QED BY <2>4, <2>6 DEF c
<1>6. CASE a.state_ \notin {"ESTABLISHED", "FIN_WAIT_1", "FIN_WAIT_2"}
  <2>1. c = b
    BY <1>1, <1>4, <1>6 DEF Open, Fin
  <2>. QED BY <2>1, <1>2, <1>3, <1>7, SAlike DEF c, IsQuiet
<1>. QED BY <1>5, <1>6

\* No FIN is queued but one that came.
LEMMA TakeRqfin ==
    ASSUME NEW a, DOMAIN a = Fields, NEW p, "FIN" \notin p.flags, a.rqfin = NoFin
    PROVE  Take(a, p).agent.rqfin = NoFin /\ ~Take(a, p).fin
<1> DEFINE inOrder == p.seqno = a.rcv_nxt_ /\ a.rq_ = {} /\ a.rqfin = NoFin
           b == [raise(a, "DELACK") EXCEPT !.rcv_nxt_ = @ + p.len]
           r == reass(a, p)
           q == r.agent
           c == countdown(q, Filled(a, q.rcv_nxt_, p))
           d == IF q.rcv_nxt_ > a.rcv_nxt_ THEN c ELSE q
<1>1. /\ Take(a, p).agent = IF inOrder THEN IF p.len > 0 THEN countdown(b, p.len) ELSE b
                            ELSE raise(d, "ACKNOW")
      /\ Take(a, p).fin = IF inOrder THEN "FIN" \in p.flags ELSE r.fin
  BY DEF Take
<1>2. DOMAIN b = Fields /\ b.rqfin = NoFin
  BY FieldsAre DEF raise
<1>3. DOMAIN q = Fields /\ q.rqfin = NoFin /\ ~r.fin
  BY FieldsAre DEF reass
<1>4. ASSUME NEW e, DOMAIN e = Fields, e.rqfin = NoFin, NEW bytes
      PROVE  DOMAIN countdown(e, bytes) = Fields /\ countdown(e, bytes).rqfin = NoFin
  BY <1>4, FieldsAre DEF countdown, raise
<1>. HIDE DEF inOrder, b, q, r
<1>5. DOMAIN d = Fields /\ d.rqfin = NoFin
  BY <1>3, <1>4
<1>. HIDE DEF d
<1>6. raise(d, "ACKNOW").rqfin = NoFin
  BY <1>5, FieldsAre DEF raise
<1>7. countdown(b, p.len).rqfin = NoFin
  BY <1>2, <1>4
<1>8. Take(a, p).agent.rqfin = NoFin
  BY <1>1, <1>2, <1>6, <1>7
<1>9. ~Take(a, p).fin
  BY <1>1, <1>3
<1>. QED BY <1>8, <1>9

\* Everything is acknowledged.
LEMMA SAllAcked ==
    ASSUME NEW a, NEW k, SMid(a, k), a.state_ # "SYN_SENT"
    PROVE  /\ SMid(AllAcked(a), k) /\ AllAcked(a).state_ # "SYN_SENT"
           /\ IsQuiet(AllAcked(a), k) => IsQuiet(a, k)
<1> DEFINE c == AllAcked(a)
           x == cancel_timers(a)
<1>1. CASE a.state_ \in {"FIN_WAIT_1", "CLOSING"}
  <2>1. PICK s \in {"FIN_WAIT_2", "CLOSED"} : c = newstate(x, s)
    BY <1>1 DEF AllAcked
  <2>2. DOMAIN a = Fields /\ a.h_seqno_ \in Int /\ ~k.q /\ "NEEDCLOSE" \notin a.flags_
    BY <1>1 DEF SMid, SCore, STyped, SStates
  <2>3. c = [[a EXCEPT !.rtx_timer_ = FALSE] EXCEPT !.state_ = s]
    BY <2>1 DEF newstate, cancel_timers
  <2>. HIDE DEF c
  <2>4. /\ DOMAIN c = Fields /\ c.state_ = s
        /\ \A f \in Fields \ {"state_", "rtx_timer_"} : c[f] = a[f]
    BY <2>2, <2>3, FieldsAre
  <2>5. /\ \A f \in Said \ {"state_", "flags_"} : c[f] = a[f]
        /\ c.h_seqno_ = a.h_seqno_ /\ c.flags_ = a.flags_
    BY <2>4, FieldsAre DEF Said
  <2>6. /\ c.state_ \in {"CLOSED"} \cup Open \cup Fin /\ c.state_ # "SYN_SENT"
        /\ c.state_ # "CLOSED" => a.state_ \notin {"CLOSED", "SYN_SENT"}
        /\ c.state_ \in Open => a.state_ \in Open
        /\ c.state_ # "CLOSE_WAIT"
    BY <1>1, <2>4 DEF Open, Fin
  <2>7. SMid(c, k) /\ (IsQuiet(c, k) => IsQuiet(a, k))
    BY <2>2, <2>4, <2>5, <2>6, SNewstate
  <2>. QED BY <2>6, <2>7 DEF c
<1>2. CASE a.state_ \notin {"FIN_WAIT_1", "CLOSING"}
  <2>1. c = a
    BY <1>2 DEF AllAcked
  <2>. QED BY <2>1
<1>. QED BY <1>1, <1>2

\* Answer, the output after a segment, keeps the invariant.
LEMMA SAnswer ==
    ASSUME NEW a, NEW k, KOk(k), SMid(a, k), a.state_ # "SYN_SENT",
           NEW needoutput \in BOOLEAN, NEW w \in Nat
    PROVE  SOk(Answer(a, needoutput, w), k)
<1> DEFINE force == needoutput \/ "ACKNOW" \in a.flags_
           b == IF force \/ a.curseq_ >= a.highest_ack_ THEN send_much(a, force, w) ELSE a
<1>1. Answer(a, needoutput, w) = CloseWaiting(b, w)
  BY DEF Answer
<1>2. SOk(a, k)
  BY DEF SOk
<1>3. force \in BOOLEAN
  OBVIOUS
<1>. HIDE DEF force
<1>4. SOk(b, k)
  BY <1>2, <1>3, SSendMuch
<1>. HIDE DEF b
<1>5. CASE b.state_ = "CLOSE_WAIT" /\ b.highest_ack_ = b.maxseq_
  <2>1. SMid(b, k) /\ ~k.q /\ ~Waits(b)
    BY <1>4, <1>5 DEF SOk, SMid, SCore, SStates, SPrio
  <2>2. SOk(usrclosed(b, w), k)
    BY <1>5, <2>1, SUsrclosed
  <2>. QED BY <1>1, <1>5, <2>2 DEF CloseWaiting
<1>6. CASE ~(b.state_ = "CLOSE_WAIT" /\ b.highest_ack_ = b.maxseq_)
  BY <1>1, <1>4, <1>6 DEF CloseWaiting
<1>. QED BY <1>5, <1>6

\* step6, data, FIN and the answer, keeps the invariant.
LEMMA SStep6 ==
    ASSUME NEW a, NEW k, KOk(k), SMid(a, k), a.state_ # "SYN_SENT",
           NEW p, "FIN" \in p.flags => ~IsQuiet(a, k),
           NEW needoutput \in BOOLEAN, NEW w \in Nat
    PROVE  SOk(step6(a, p, needoutput, w), k)
<1>1. CASE (p.len > 0 \/ "FIN" \in p.flags) /\ a.state_ \notin HaveReceivedFin
  <2> DEFINE t == Take(a, p)
             b == t.agent
             need == needoutput \/ need_send(b)
             c == IF t.fin THEN TakeFin(b) ELSE b
  <2>1. step6(a, p, needoutput, w) = Answer(c, need, w)
    BY <1>1 DEF step6, Taken
  <2>2. DOMAIN a = Fields /\ (IsQuiet(a, k) => a.rqfin = NoFin)
    BY DEF SMid, SCore, STyped, SPrio, IsQuiet
  <2>3. Alike(a, b)
    BY <2>2, AlikeTake
  <2>4. IsQuiet(a, k) => b.rqfin = NoFin /\ ~t.fin
    BY <2>2, TakeRqfin
  <2>5. need \in BOOLEAN
    BY DEF need_send
  <2>. HIDE DEF need, b
  <2>6. SMid(b, k) /\ b.state_ = a.state_ /\ (IsQuiet(b, k) <=> IsQuiet(a, k))
    BY <2>3, <2>4, SAlike
  <2>7. t.fin => SMid(TakeFin(b), k) /\ TakeFin(b).state_ # "SYN_SENT"
    BY <2>4, <2>6, STakeFin
  <2>8. SMid(c, k) /\ c.state_ # "SYN_SENT"
    BY <2>6, <2>7
  <2>. HIDE DEF c, t
  <2>. QED BY <2>1, <2>5, <2>8, SAnswer
<1>2. CASE ~((p.len > 0 \/ "FIN" \in p.flags) /\ a.state_ \notin HaveReceivedFin)
  <2>1. step6(a, p, needoutput, w) = Answer(a, needoutput, w)
    BY <1>2 DEF step6
  <2>. QED BY <2>1, SAnswer
<1>. QED BY <1>1, <1>2

\* A packet that answers out of order.
LEMMA SDropwithreset ==
    ASSUME NEW a, NEW k, KOk(k), SOk(a, k), NEW p, p.ackno \in Int
    PROVE  SOk(dropwithreset(a, p), k)
<1>1. SCore(a, k) /\ "NEEDCLOSE" \notin a.flags_
  BY DEF SOk, SMid
<1>2. ASSUME NEW seqno \in Int, NEW ackno, NEW pflags \in {{}, {"ACK"}}
      PROVE  SOk(sendpacket(a, seqno, ackno, pflags, 0), k)
  <2>1. "FIN" \notin pflags /\ "SYN" \notin pflags
    BY <1>2
  <2> DEFINE b == sendpacket(a, seqno, ackno, pflags, 0)
  <2>2. /\ SCore(b, k)
        /\ \A f \in {"state_", "curseq_", "maxseq_", "highest_ack_", "t_seqno_",
                     "h_seqno_", "connection_", "signal_on_empty_", "flags_"} : b[f] = a[f]
    BY <1>1, <2>1, SSendpacket
  <2>. HIDE DEF b
  <2>3. /\ b.state_ = a.state_ /\ b.flags_ = a.flags_
        /\ b.maxseq_ = a.maxseq_ /\ b.t_seqno_ = a.t_seqno_
    BY <2>2
  <2>4. SOk(b, k)
    BY <1>1, <2>2, <2>3 DEF SOk, SMid
  <2>. QED BY <2>4 DEF b
<1>. QED BY <1>2 DEF dropwithreset

\* An acknowledgement for the sender is one it may take.
LEMMA SItsOwn ==
    ASSUME NEW a, NEW k, SMid(a, k)
    PROVE  Acks(a.highest_ack_, a, k)
BY DEF Acks, SMid, SCore, STyped, SAcked, SStates

\* dropafterack: what is acknowledged was never sent.
LEMMA SDropafterack ==
    ASSUME NEW a, NEW k, KOk(k), SMid(a, k), a.state_ # "SYN_SENT", NEW w \in Nat
    PROVE  SOk(dropafterack(a, w), k)
<1>1. SCore(a, k)
  BY DEF SMid
<1> DEFINE b == raise(a, "ACKNOW")
<1>2. /\ SCore(b, k) /\ b.flags_ = a.flags_ \cup {"ACKNOW"}
      /\ \A f \in Fields \ {"flags_"} : b[f] = a[f]
  BY <1>1, SRaise
<1>. HIDE DEF b
<1>3. SMid(b, k) /\ b.state_ # "SYN_SENT"
  BY <1>2, FieldsAre DEF SMid
<1>. QED BY <1>3, SSendMuch DEF dropafterack, b

\* process_ACK: an acknowledgement that advances.
LEMMA SProcessACK ==
    ASSUME NEW a, NEW k, KOk(k), SMid(a, k), a.state_ \notin {"CLOSED", "SYN_SENT"},
           NEW p, Acks(p.ackno, a, k), "FIN" \in p.flags => ~IsQuiet(a, k), NEW w \in Nat
    PROVE  SOk(process_ACK(a, p, w), k)
<1> DEFINE partial == /\ a.fastrecov_ /\ p.ackno >= a.highest_ack_
                      /\ p.ackno < a.recover_
           c == AckAction(a, p, partial)
           all == p.ackno = a.maxseq_
           need == all /\ a.state_ # "FIN_WAIT_1"
           d == IF all THEN AllAcked(c) ELSE c
<1>1. process_ACK(a, p, w) =
         CASE p.ackno > a.maxseq_ -> dropafterack(a, w)
           [] all /\ a.state_ = "LAST_ACK" -> reset(newstate(c, "CLOSED"))
           [] OTHER -> step6(d, p, need, w)
  BY DEF process_ACK
<1>2. partial \in BOOLEAN /\ need \in BOOLEAN
  OBVIOUS
<1>. HIDE DEF partial, need
<1>3. ~(p.ackno > a.maxseq_) =>
         SMid(c, k) /\ c.state_ = a.state_ /\ (IsQuiet(c, k) => IsQuiet(a, k))
  <2>1. p.ackno \in Int /\ a.maxseq_ \in Int
    BY DEF Acks, SMid, SCore, STyped
  <2>. QED BY <1>2, <2>1, SAckAction
<1>. HIDE DEF c
<1>4. CASE p.ackno > a.maxseq_
  <2>3. p.ackno \in Int /\ a.maxseq_ \in Int
    BY DEF Acks, SMid, SCore, STyped
  <2>4. ~all
    BY <1>4, <2>3
  <2>5. SOk(dropafterack(a, w), k)
    BY SDropafterack
  <2>1. ~all /\ SOk(dropafterack(a, w), k)
    BY <2>4, <2>5
  <2>. HIDE DEF all
  <2>2. process_ACK(a, p, w) = dropafterack(a, w)
    BY <1>1, <1>4, <2>1
  <2>. QED BY <2>1, <2>2
<1>5. CASE ~(p.ackno > a.maxseq_) /\ all /\ a.state_ = "LAST_ACK"
  <2>1. ~k.q
    BY <1>5 DEF SMid, SCore, SStates
  <2>2. SOk(reset(newstate(c, "CLOSED")), k)
    BY <1>3, <1>5, <2>1, SReset
  <2>. HIDE DEF all
  <2>3. process_ACK(a, p, w) = reset(newstate(c, "CLOSED"))
    BY <1>1, <1>5
  <2>. QED BY <2>2, <2>3
<1>6. CASE ~(p.ackno > a.maxseq_) /\ ~(all /\ a.state_ = "LAST_ACK")
  <2>4. SMid(c, k) /\ c.state_ # "SYN_SENT" /\ (IsQuiet(c, k) => IsQuiet(a, k))
    BY <1>3, <1>6
  <2>1. SMid(d, k) /\ d.state_ # "SYN_SENT" /\ (IsQuiet(d, k) => IsQuiet(a, k))
    BY <2>4, SAllAcked
  <2>. HIDE DEF d
  <2>2. SOk(step6(d, p, need, w), k)
    BY <1>2, <2>1, SStep6
  <2>. HIDE DEF all
  <2>3. process_ACK(a, p, w) = step6(d, p, need, w)
    BY <1>1, <1>6
  <2>. QED BY <2>2, <2>3
<1>. QED BY <1>4, <1>5, <1>6

\* Fast retransmit keeps the invariant.
LEMMA SDupack ==
    ASSUME NEW a, NEW k, KOk(k), SMid(a, k), a.state_ \notin {"CLOSED", "SYN_SENT"},
           NEW w \in Nat, NEW ecnCut
    PROVE  SOk(dupack_action(a, w, ecnCut), k)
<1>1. /\ DOMAIN a = Fields /\ a.h_seqno_ \in Int /\ a.highest_ack_ \in Int
      /\ a.highest_ack_ >= 1
      /\ IsOpen(a, k) => a.highest_ack_ <= a.curseq_ + 1
  BY DEF SMid, SCore, STyped, SStates
<1> DEFINE b == [a EXCEPT !.fastrecov_ = TRUE, !.rtx_timer_ = FALSE,
                          !.recover_ = a.maxseq_, !.pipectrl_ = TRUE,
                          !.pipe_ = InFlight(a)]
           o == foutput(b, a.highest_ack_, w)
           c == [o.agent EXCEPT !.h_seqno_ = a.highest_ack_ + o.amt]
           d == [a EXCEPT !.fastrecov_ = TRUE,
                          !.pipe_ = IF a.pipectrl_ THEN InFlight(a) ELSE @]
<1>2. /\ DOMAIN b = Fields /\ b.h_seqno_ = a.h_seqno_
      /\ \A f \in Said : b[f] = a[f]
  BY <1>1, FieldsAre DEF Said
<1>3. /\ DOMAIN d = Fields /\ d.h_seqno_ = a.h_seqno_
      /\ \A f \in Said : d[f] = a[f]
  BY <1>1, FieldsAre DEF Said
<1>4. dupack_action(a, w, ecnCut) =
         IF a.highest_ack_ > a.recover_ \/ ecnCut THEN send_much(c, FALSE, w) ELSE d
  BY DEF dupack_action, Resent
<1>5. SMid(b, k) /\ SMid(d, k) /\ b.state_ = a.state_ /\ d.state_ = a.state_
      /\ b.curseq_ = a.curseq_
  <2>. HIDE DEF b, d
  <2>1. SMid(b, k) /\ SMid(d, k)
    BY <1>1, <1>2, <1>3, SSame
  <2>2. b.state_ = a.state_ /\ d.state_ = a.state_ /\ b.curseq_ = a.curseq_
    BY <1>2, <1>3 DEF Said
  <2>. QED BY <2>1, <2>2
<1>. HIDE DEF b, d
<1>6. SOk(d, k)
  BY <1>5 DEF SOk
<1>7. PICK n \in Nat : n = a.highest_ack_
  BY <1>1
<1>8. IsOpen(b, k) => n <= b.curseq_ + 1
  BY <1>1, <1>5, <1>7 DEF IsOpen
<1>9. Output(foutput(b, n, w), b, n, k)
  BY <1>1, <1>5, <1>7, <1>8, SFoutput
<1>10. SMid(o.agent, k) /\ o.amt \in Nat /\ o.agent.state_ # "SYN_SENT"
  BY <1>5, <1>7, <1>9 DEF Output
<1>. HIDE DEF o
<1>11. PICK e : e = o.agent
  OBVIOUS
<1>12. SMid(e, k) /\ DOMAIN e = Fields /\ e.state_ # "SYN_SENT"
  BY <1>10, <1>11 DEF SMid, SCore, STyped
<1>13. c = [e EXCEPT !.h_seqno_ = n + o.amt]
  BY <1>7, <1>11
<1>. HIDE DEF c
<1>14. /\ DOMAIN c = Fields /\ c.h_seqno_ = n + o.amt
       /\ \A f \in Said : c[f] = e[f]
  BY <1>12, <1>13, FieldsAre DEF Said
<1>15. SMid(c, k) /\ c.state_ # "SYN_SENT"
  <2>1. n + o.amt \in Int
    BY <1>10
  <2>2. SMid(c, k)
    BY <1>12, <1>14, <2>1, SSame
  <2>3. c.state_ = e.state_
    BY <1>14 DEF Said
  <2>. QED BY <1>12, <2>2, <2>3
<1>16. SOk(send_much(c, FALSE, w), k)
  BY <1>15, SSendMuch
<1>. QED BY <1>4, <1>6, <1>16

\* An acknowledgement that does not advance.
LEMMA SOldAck ==
    ASSUME NEW a, NEW k, KOk(k), SMid(a, k), a.state_ \notin {"CLOSED", "SYN_SENT"},
           NEW p, "FIN" \in p.flags => ~IsQuiet(a, k), NEW duplicate,
           NEW w \in Nat, NEW ecnCut
    PROVE  SOk(OldAck(a, p, duplicate, w, ecnCut), k)
<1> DEFINE other == p.len > 0 \/ duplicate
           stale == ~a.rtx_timer_ \/ p.ackno < a.highest_ack_
           n == [a EXCEPT !.dupacks_ = Least(@ + 1, RexmtThresh + 1)]
           z == [a EXCEPT !.dupacks_ = 0]
           d == IF other THEN a ELSE IF stale THEN z ELSE n
<1>1. OldAck(a, p, duplicate, w, ecnCut) \in
         {step6(d, p, FALSE, w), dupack_action(n, w, ecnCut), send_much(n, FALSE, w)}
  BY DEF OldAck
<1>2. DOMAIN a = Fields /\ a.h_seqno_ \in Int
  BY DEF SMid, SCore, STyped
<1>3. /\ DOMAIN n = Fields /\ n.h_seqno_ = a.h_seqno_ /\ \A f \in Said : n[f] = a[f]
      /\ DOMAIN z = Fields /\ z.h_seqno_ = a.h_seqno_ /\ \A f \in Said : z[f] = a[f]
  BY <1>2, FieldsAre DEF Said
<1>. HIDE DEF n, z
<1>4. /\ SMid(n, k) /\ SMid(z, k) /\ n.state_ = a.state_ /\ z.state_ = a.state_
      /\ IsQuiet(n, k) <=> IsQuiet(a, k)
      /\ IsQuiet(z, k) <=> IsQuiet(a, k)
  BY <1>2, <1>3, SSame DEF Said, IsQuiet, Waits
<1>5. SMid(d, k) /\ d.state_ # "SYN_SENT" /\ (IsQuiet(d, k) <=> IsQuiet(a, k))
  BY <1>4
<1>. HIDE DEF d
<1>6. SOk(step6(d, p, FALSE, w), k)
  BY <1>5, SStep6
<1>7. SOk(dupack_action(n, w, ecnCut), k)
  BY <1>4, SDupack
<1>8. SOk(send_much(n, FALSE, w), k)
  BY <1>4, SSendMuch
<1>. QED BY <1>1, <1>6, <1>7, <1>8

\* Every acknowledgement, with its report of the queue.
LEMMA SProcessAck ==
    ASSUME NEW a, NEW k, KOk(k), SMid(a, k), a.state_ \notin {"CLOSED", "SYN_SENT"},
           NEW p, Acks(p.ackno, a, k), p.sack \subseteq k.G, "FIN" \in p.flags => ~IsQuiet(a, k),
           NEW duplicate, NEW w \in Nat, NEW ecnCut
    PROVE  SOk(ProcessAck(a, p, duplicate, w, ecnCut), k)
<1> DEFINE b == process_sack(a, p.sack)
           c == IF a.fastrecov_ /\ a.pipectrl_ /\ (p.len = 0 \/ p.ackno > a.highest_ack_)
                THEN [b EXCEPT !.pipe_ = @ - MaxSeg] ELSE b
<1>1. ProcessAck(a, p, duplicate, w, ecnCut) =
         IF p.ackno <= a.highest_ack_ THEN OldAck(c, p, duplicate, w, ecnCut)
         ELSE process_ACK(c, p, w)
  BY DEF ProcessAck
<1>2. /\ DOMAIN a = Fields /\ a.h_seqno_ \in Int /\ a.highest_ack_ \in Int /\ a.t_seqno_ \in Nat
      /\ a.sq_ \subseteq k.G /\ Acks(a.highest_ack_, a, k)
      /\ IsOpen(a, k) => a.t_seqno_ <= a.curseq_ + 1
  BY SItsOwn DEF SMid, SCore, STyped, SAcked, SStates
<1>3. /\ DOMAIN b = Fields /\ b.sq_ = a.sq_ \cup p.sack
      /\ \A f \in Fields \ {"sq_"} : b[f] = a[f]
  BY <1>2, FieldsAre DEF process_sack
<1>. HIDE DEF b
<1>4. /\ DOMAIN c = Fields /\ c.sq_ = a.sq_ \cup p.sack
      /\ \A f \in Fields \ {"sq_", "pipe_"} : c[f] = a[f]
  BY <1>3, FieldsAre
<1>. HIDE DEF c
<1>5. /\ c.h_seqno_ = a.h_seqno_ /\ c.highest_ack_ = a.highest_ack_ /\ c.t_seqno_ = a.t_seqno_
      /\ c.state_ = a.state_ /\ c.curseq_ = a.curseq_
      /\ \A f \in Said \ {"sq_", "highest_ack_", "t_seqno_"} : c[f] = a[f]
  BY <1>4, FieldsAre DEF Said
<1>6. SMid(c, k) /\ (IsQuiet(c, k) => IsQuiet(a, k))
  <2>1. c.sq_ \subseteq k.G
    BY <1>2, <1>4
  <2>2. /\ a.highest_ack_ >= a.highest_ack_ /\ a.t_seqno_ >= a.t_seqno_
        /\ a.highest_ack_ <= a.maxseq_
    BY <1>2 DEF SMid, SCore, SPrio
  <2>. QED BY <1>2, <1>4, <1>5, <2>1, <2>2, SAdvance
<1>7. Acks(p.ackno, c, k)
  BY <1>5 DEF Acks, IsOpen
<1>8. SOk(OldAck(c, p, duplicate, w, ecnCut), k)
  BY <1>5, <1>6, SOldAck
<1>9. SOk(process_ACK(c, p, w), k)
  BY <1>5, <1>6, <1>7, SProcessACK
<1>. QED BY <1>1, <1>8, <1>9

\* A packet for the sender.
Reply(p, a, k) == ToSender(p, a.curseq_, k.G, IsQuiet(a, k), IsOpen(a, k), k.n)

\* It says what it acknowledges and reports.
LEMMA SReply ==
    ASSUME NEW a, NEW k, KOk(k), NEW p, Reply(p, a, k)
    PROVE  /\ Acks(p.ackno, a, k) /\ p.sack \subseteq k.G /\ p.ackno \in Int
           /\ "FIN" \in p.flags => ~IsQuiet(a, k)
           /\ "SYN" \in p.flags => "ACK" \in p.flags
           /\ DOMAIN p = PacketFields
BY DEF Reply, ToSender, Acks, KOk, IsQuiet

\* The sender's SYN is answered.
LEMMA SRecvSynSent ==
    ASSUME NEW a, NEW k, KOk(k), SOk(a, k), a.state_ = "SYN_SENT",
           NEW p, Reply(p, a, k), NEW w \in Nat
    PROVE  SOk(RecvSynSent(a, p, w), k)
<1> DEFINE q == [p EXCEPT !.seqno = @ + 1]
           b == [a EXCEPT !.rcv_nxt_ = p.seqno + p.len + 1]
           bad == "ACK" \in p.flags /\ (p.ackno <= ISS \/ p.ackno > a.maxseq_)
           c == raise([b EXCEPT !.highest_ack_ = p.ackno], IF p.len > 0 THEN "DELACK" ELSE "ACKNOW")
           d == Opened(c)
           s == sendpacket(d, d.t_seqno_, d.rcv_nxt_, {"ACK"}, 0)
<1>1. /\ Acks(p.ackno, a, k) /\ p.ackno \in Int
      /\ "FIN" \in p.flags => ~IsQuiet(a, k)
      /\ "SYN" \in p.flags => "ACK" \in p.flags
      /\ DOMAIN p = PacketFields
  BY SReply
<1>2. RecvSynSent(a, p, w) =
         CASE bad -> dropwithreset(a, p)
           [] ~bad /\ "SYN" \notin p.flags -> a
           [] ~bad /\ {"SYN", "ACK"} \subseteq p.flags -> process_ACK(s, q, w)
           [] OTHER -> step6([newstate(cancel_timers(raise(b, "ACKNOW")), "SYN_RECEIVED")
                        EXCEPT !.t_seqno_ = @ - 1], q, FALSE, w)
  BY DEF RecvSynSent, AckSyn
<1>3. ~bad /\ "SYN" \in p.flags => p.ackno >= 1 /\ p.ackno <= a.maxseq_
  <2>1. a.maxseq_ \in Int
    BY DEF SOk, SMid, SCore, STyped
  <2>. QED BY <1>1, <2>1 DEF ISS
<1>. HIDE DEF bad
<1>4. CASE bad
  <2>1. SOk(dropwithreset(a, p), k)
    BY <1>1, SDropwithreset
  <2>. QED BY <1>2, <1>4, <2>1
<1>5. CASE ~bad /\ "SYN" \notin p.flags
  BY <1>2, <1>5
<1>6. CASE ~bad /\ "SYN" \in p.flags
  <2>1. RecvSynSent(a, p, w) = process_ACK(s, q, w)
    BY <1>1, <1>2, <1>6
  <2>2. /\ SMid(a, k) /\ DOMAIN a = Fields
        /\ "NEEDFIN" \notin a.flags_ /\ "NEEDCLOSE" \notin a.flags_
        /\ a.h_seqno_ \in Int /\ a.highest_ack_ = -1 /\ a.curseq_ \in Nat /\ a.t_seqno_ >= 1
        /\ a.maxseq_ >= 1 /\ a.t_seqno_ \in Nat /\ a.connection_ = 1
    BY DEF SOk, SMid, SCore, STyped, SStates
  <2>22. Waits(a) /\ "FIN" \notin p.flags
    BY <1>1, <2>2 DEF Waits, IsQuiet, Open
  <2>3. /\ DOMAIN c = Fields /\ c.highest_ack_ = p.ackno
        /\ c.flags_ \subseteq a.flags_ \cup {"DELACK", "ACKNOW"}
        /\ \A f \in Fields \ {"rcv_nxt_", "highest_ack_", "flags_"} : c[f] = a[f]
    BY <2>2, FieldsAre DEF raise
  <2>. HIDE DEF c
  <2>4. d = [c EXCEPT !.state_ = "ESTABLISHED"]
    BY <2>2, <2>3 DEF Opened, newstate
  <2>. HIDE DEF d
  <2>5. /\ DOMAIN d = Fields /\ d.highest_ack_ = p.ackno /\ d.state_ = "ESTABLISHED"
        /\ d.flags_ = c.flags_
        /\ \A f \in Fields \ {"rcv_nxt_", "highest_ack_", "flags_", "state_"} : d[f] = a[f]
    BY <2>3, <2>4, FieldsAre
  <2>6. /\ d.curseq_ = a.curseq_ /\ d.sq_ = a.sq_ /\ d.t_seqno_ = a.t_seqno_
        /\ d.maxseq_ = a.maxseq_ /\ d.h_seqno_ = a.h_seqno_
        /\ d.connection_ = a.connection_ /\ d.done = a.done
        /\ d.signal_on_empty_ = a.signal_on_empty_
        /\ d.close_on_empty_ = a.close_on_empty_ /\ d.out = a.out /\ d.rqfin = a.rqfin
        /\ d.seq_bound_ = a.seq_bound_ /\ d.last_prio_ = a.last_prio_ /\ d.twice = a.twice
        /\ "NEEDFIN" \notin d.flags_ /\ "NEEDCLOSE" \notin d.flags_
    BY <2>2, <2>3, <2>5, FieldsAre
  <2>7. STyped(d, k)
    BY <1>1, <2>2, <2>5, <2>6 DEF SMid, SCore, STyped, Open
  <2>8. SAcked(d, k)
    BY <1>1, <2>2, <2>5, <2>6 DEF SMid, SCore, SAcked, Acks
  <2>9. IsOpen(a, k) /\ IsOpen(d, k)
    BY <2>5 DEF IsOpen, Open
  <2>10. SOut(d, k)
    BY <2>2, <2>6, <2>9 DEF SMid, SCore, SOut
  <2>20. p.ackno >= 1 /\ p.ackno <= a.maxseq_
    BY <1>3, <1>6
  <2>21. k.q => p.ackno <= k.n
    BY <1>1, <2>20 DEF Acks
  <2>11. k.q => p.ackno <= k.n /\ a.signal_on_empty_
    BY <2>2, <2>21 DEF SMid, SCore, SStates
  <2>12. p.ackno <= a.curseq_ + 1 /\ p.ackno >= 1
    BY <1>1, <1>3, <1>6, <2>9 DEF Acks
  <2>13. SStates(d, k)
    BY <2>2, <2>5, <2>6, <2>9, <2>11, <2>12 DEF SMid, SCore, SStates
  <2>23. SPrio(d, k)
    <3>1. k.e[d.connection_ - 1] = 0
      BY <2>2, <2>6 DEF KOk
    <3>2. SPrio(a, k)
      BY <2>2 DEF SMid, SCore
    <3>3. \/ d.curseq_ = 0
          \/ /\ d.connection_ >= 1 /\ d.curseq_ = k.e[d.connection_]
             /\ d.highest_ack_ >= k.e[d.connection_ - 1] + 1
      BY <3>1, <3>2, <2>5, <2>6, <2>12 DEF SPrio
    <3>4. k.w /\ d.rqfin = NoFin
      BY <3>2, <2>6, <2>22 DEF SPrio
    <3>5. Measured =>
              /\ d.connection_ >= 1 /\ d.seq_bound_ # -1 =>
                    Near(d.last_prio_, d.twice, d.connection_, k)
              /\ \A i \in DOMAIN d.out : NearPacket(d.out[i], k)
      BY <3>2, <2>6 DEF SPrio
    <3>. QED BY <2>5, <2>6, <2>20, <3>3, <3>4, <3>5 DEF SPrio
  <2>14. SCore(d, k)
    BY <2>7, <2>8, <2>10, <2>13, <2>23 DEF SCore
  <2>15. /\ SCore(s, k)
         /\ \A f \in {"state_", "curseq_", "maxseq_", "highest_ack_", "t_seqno_",
                      "h_seqno_", "connection_", "signal_on_empty_", "flags_"} : s[f] = d[f]
    <3>1. /\ d.t_seqno_ \in Int
          /\ "FIN" \notin {"ACK"} /\ "SYN" \notin {"ACK"} /\ 0 \in Nat /\ ~(0 > 0)
      BY <2>2, <2>6
    <3>. QED BY <2>14, <3>1, SSendpacket
  <2>. HIDE DEF s
  <2>16. SMid(s, k) /\ s.state_ = "ESTABLISHED" /\ s.curseq_ = a.curseq_
    BY <2>5, <2>6, <2>15 DEF SMid
  <2>17. IsOpen(s, k) /\ Acks(p.ackno, s, k)
    BY <1>1, <2>9, <2>16 DEF IsOpen, Open, Acks
  <2>18. q.ackno = p.ackno /\ q.flags = p.flags
    BY <1>1 DEF PacketFields
  <2>. HIDE DEF q
  <2>19. SOk(process_ACK(s, q, w), k)
    BY <2>16, <2>17, <2>18, <2>22, SProcessACK
  <2>. QED BY <2>1, <2>19
<1>. QED BY <1>4, <1>5, <1>6

\* What Trim leaves of a packet and of the agent.
LEMMA Trimmed ==
    ASSUME NEW a, DOMAIN a = Fields, NEW p, DOMAIN p = PacketFields
    PROVE  LET t == Trim(a, p)
           IN /\ t.agent \in {a, raise(a, "ACKNOW")}
              /\ DOMAIN t.packet = PacketFields
              /\ t.packet.ackno = p.ackno /\ t.packet.sack = p.sack
              /\ t.packet.flags \subseteq p.flags
<1>1. CASE a.rcv_nxt_ <= p.seqno \/ ~("SYN" \in p.flags \/ p.len > 0)
  BY <1>1 DEF Trim
<1>2. CASE ~(a.rcv_nxt_ <= p.seqno \/ ~("SYN" \in p.flags \/ p.len > 0))
  <2> DEFINE syn   == "SYN" \in p.flags
             first == IF syn THEN p.seqno + 1 ELSE p.seqno
             over  == a.rcv_nxt_ - first
             dup   == over > p.len \/ (over = p.len /\ "FIN" \notin p.flags)
             cut   == IF dup THEN p.len ELSE over
             q == [p EXCEPT !.seqno = first + cut, !.len = @ - cut,
                           !.flags = @ \ (IF dup THEN {"SYN", "FIN"} ELSE {"SYN"})]
  <2>1. /\ Trim(a, p).packet = q
        /\ Trim(a, p).agent = IF dup THEN raise(a, "ACKNOW") ELSE a
    BY <1>2 DEF Trim
  <2>. HIDE DEF cut, dup, first
  <2>2. /\ DOMAIN q = PacketFields /\ q.ackno = p.ackno /\ q.sack = p.sack
        /\ q.flags \subseteq p.flags
    BY DEF PacketFields
  <2>. QED BY <2>1, <2>2
<1>. QED BY <1>1, <1>2

\* recv in the states after SYN_SENT.
LEMMA SRecvOther ==
    ASSUME NEW a, NEW k, KOk(k), SOk(a, k), a.state_ \notin {"CLOSED", "SYN_SENT"},
           NEW p, Reply(p, a, k), NEW w \in Nat, NEW ecnCut
    PROVE  SOk(RecvOther(a, p, w, ecnCut), k)
<1> DEFINE t == Trim(a, p)
           b == t.agent
           q == t.packet
<1>1. DOMAIN a = Fields /\ SCore(a, k) /\ SMid(a, k)
  BY DEF SOk, SMid, SCore, STyped
<1>2. /\ Acks(p.ackno, a, k) /\ p.sack \subseteq k.G /\ p.ackno \in Int
      /\ "FIN" \in p.flags => ~IsQuiet(a, k)
      /\ DOMAIN p = PacketFields
  BY SReply
<1>3. /\ b \in {a, raise(a, "ACKNOW")}
      /\ DOMAIN q = PacketFields /\ q.ackno = p.ackno /\ q.sack = p.sack
      /\ q.flags \subseteq p.flags
  BY <1>1, <1>2, Trimmed
<1>4. RecvOther(a, p, w, ecnCut) = RecvTrimmed(b, q, t.duplicate, w, ecnCut)
  BY DEF RecvOther
<1>. HIDE DEF t, b, q
<1>5. /\ SMid(b, k) /\ b.state_ = a.state_ /\ b.curseq_ = a.curseq_
      /\ IsQuiet(b, k) <=> IsQuiet(a, k)
  <2>1. Alike(a, b)
    BY <1>1, <1>3, AlikeRaise
  <2>2. b.rqfin = a.rqfin
    BY <1>1, <1>3, FieldsAre DEF raise
  <2>3. IsQuiet(a, k) => b.rqfin = NoFin
    BY <2>2, <1>1 DEF SCore, STyped, SPrio, IsQuiet
  <2>. QED BY <1>1, <2>1, <2>3, SAlike DEF Alike, Said
<1>6. b.state_ # "SYN_RECEIVED" /\ SOk(b, k) /\ Acks(q.ackno, b, k)
  BY <1>1, <1>2, <1>3, <1>5 DEF SOk, SMid, SCore, STyped, Open, Fin, Acks, IsOpen
<1>7. RecvTrimmed(b, q, t.duplicate, w, ecnCut) \in
        {dropwithreset(b, q), b, ProcessAck(b, q, t.duplicate, w, ecnCut)}
  BY <1>6 DEF RecvTrimmed
<1>8. SOk(dropwithreset(b, q), k)
  BY <1>2, <1>3, <1>6, SDropwithreset
<1>9. SOk(ProcessAck(b, q, t.duplicate, w, ecnCut), k)
  BY <1>2, <1>3, <1>5, <1>6, SProcessAck
<1>. QED BY <1>4, <1>6, <1>7, <1>8, <1>9

\* recv of the sender keeps the invariant, in every state.
LEMMA SRecv ==
    ASSUME NEW a0, NEW k, KOk(k), SOk(a0, k), NEW p, Reply(p, a0, k), NEW w \in Nat, NEW ecnCut
    PROVE  SOk(recv(a0, p, w, ecnCut), k)
<1> DEFINE a == [a0 EXCEPT !.prob_mode_ = FALSE, !.prob_count_ = 0]
<1>1. DOMAIN a0 = Fields /\ a0.h_seqno_ \in Int
  BY DEF SOk, SMid, SCore, STyped
<1>2. DOMAIN a = Fields /\ a.h_seqno_ = a0.h_seqno_ /\ \A f \in Said : a[f] = a0[f]
  BY <1>1, FieldsAre DEF Said
<1>4. recv(a0, p, w, ecnCut) =
        CASE a.state_ = "CLOSED" -> IF "FIN" \in p.flags THEN dropafterack(a, w) ELSE a
         [] PredictedAck(a, p, w) -> send_much(newack(a, p.ackno), FALSE, w)
         [] PredictedData(a, p) -> AfterPredicted(Take(a, p).agent, w)
         [] a.state_ = "LISTEN" -> RecvListen(a, p, w)
         [] a.state_ = "SYN_SENT" -> RecvSynSent(a, p, w)
         [] a.state_ = "LAST_ACK" /\ "FIN" \in p.flags -> a
         [] OTHER -> RecvOther(a, p, w, ecnCut)
  BY DEF recv
<1>. HIDE DEF a
<1>5. /\ SOk(a, k) /\ a.state_ = a0.state_ /\ a.curseq_ = a0.curseq_
      /\ a.highest_ack_ = a0.highest_ack_
  BY <1>1, <1>2, SSame DEF Said
<1>6. Reply(p, a, k) /\ a.state_ # "LISTEN"
  BY <1>5 DEF IsQuiet, Waits, Reply, IsOpen, SOk, SMid, SCore, STyped, Open, Fin
<1>7. /\ Acks(p.ackno, a, k) /\ SMid(a, k)
      /\ PredictedAck(a, p, w) \/ PredictedData(a, p) => a.state_ = "ESTABLISHED"
  BY <1>5, <1>6, SReply DEF SOk, PredictedAck, PredictedData, predict_ok
<1>8. CASE a.state_ = "CLOSED"
  <2>1. SOk(dropafterack(a, w), k)
    BY <1>7, <1>8, SDropafterack
  <2>. QED BY <1>4, <1>5, <1>7, <1>8, <2>1
<1>9. CASE PredictedAck(a, p, w)
  <2>5. p.ackno <= a.maxseq_
    BY <1>7, <1>9 DEF PredictedAck, Acks, SMid, SCore, STyped
  <2>1. SMid(newack(a, p.ackno), k)
    BY <1>7, <1>9, <2>5, SAckAction
  <2>2. newack(a, p.ackno).state_ = a.state_
    BY <1>2, FieldsAre DEF newack
  <2>3. SOk(send_much(newack(a, p.ackno), FALSE, w), k)
    BY <1>7, <1>9, <2>1, <2>2, SSendMuch
  <2>4. ~PredictedData(a, p)
    BY <1>9 DEF PredictedAck, PredictedData
  <2>. QED BY <1>4, <1>7, <1>9, <2>3, <2>4
<1>10. CASE PredictedData(a, p)
  <2> DEFINE b == Take(a, p).agent
  <2>1. Alike(a, b)
    BY <1>2, AlikeTake
  <2>2. "FIN" \notin p.flags
    BY <1>10 DEF PredictedData, predict_ok
  <2>3. IsQuiet(a, k) => b.rqfin = NoFin
    <3>1. IsQuiet(a, k) => a.rqfin = NoFin
      BY <1>7 DEF SMid, SCore, STyped, SPrio, IsQuiet
    <3>. QED BY <1>2, <2>2, <3>1, TakeRqfin
  <2>. HIDE DEF b
  <2>4. SMid(b, k) /\ SOk(b, k) /\ b.state_ = a.state_
    BY <1>5, <1>7, <2>1, <2>3, SAlike
  <2>5. SOk(send_much(b, TRUE, w), k)
    BY <1>7, <1>10, <2>4, SSendMuch
  <2>6. SOk(AfterPredicted(b, w), k)
    BY <2>4, <2>5 DEF AfterPredicted
  <2>7. ~PredictedAck(a, p, w)
    BY <1>10 DEF PredictedAck, PredictedData
  <2>. QED BY <1>4, <1>7, <1>10, <2>6, <2>7 DEF b
<1>11. CASE a.state_ = "SYN_SENT"
  <2>1. SOk(RecvSynSent(a, p, w), k)
    BY <1>5, <1>6, <1>11, SRecvSynSent
  <2>. QED BY <1>4, <1>7, <1>11, <2>1
<1>12. CASE /\ a.state_ \notin {"CLOSED", "SYN_SENT"}
            /\ ~PredictedAck(a, p, w) /\ ~PredictedData(a, p)
  <2>1. SOk(RecvOther(a, p, w, ecnCut), k)
    BY <1>5, <1>6, <1>12, SRecvOther
  <2>. QED BY <1>4, <1>5, <1>6, <1>12, <2>1
<1>. QED BY <1>8, <1>9, <1>10, <1>11, <1>12

\* A step towards the next message: what changes in what is known.
NextMessage(k, l, flag) ==
    /\ l.s = k.s /\ l.e = k.e /\ l.G = k.G /\ l.n = k.n
    /\ l.q = (flag = "DAT_EOF") /\ l.p = TRUE /\ l.w = TRUE
    /\ l.m = k.m + 1 /\ l.x = k.e[k.m + 1]

\* The first message opens the connection.
LEMMA SConnect ==
    ASSUME NEW b, NEW k, KOk(k), NEW w \in Nat,
           DOMAIN b = Fields, b.state_ = "SYN_SENT", k.q, k.n >= -1,
           b.curseq_ = k.e[1], b.maxseq_ = -1, b.highest_ack_ = -1, b.t_seqno_ = 0, b.h_seqno_ = -1,
           b.connection_ = 1, b.done = 0, b.signal_on_empty_ = TRUE, b.close_on_empty_ = FALSE,
           b.sq_ = {}, b.flags_ = {}, b.out = <<>>, b.rqfin = NoFin,
           1 <= Len(k.s), k.G = {}, k.m = 1, k.x = k.e[1], k.p = TRUE,
           k.w = TRUE, b.seq_bound_ = -1
    PROVE  LET o == foutput(b, ISS, w) IN SOk(sent(o.agent, ISS, o.amt), k)
<1>1. k.e[0] = 0 /\ k.e[1] \in Nat /\ 0 \in 0 .. Len(k.s) /\ 1 \in 0 .. Len(k.s) /\ IsOpen(b, k)
  BY DEF KOk, IsOpen
<1>2. STyped(b, k)
  <2>1. /\ b.state_ \in {"CLOSED"} \cup Open \cup Fin
        /\ b.curseq_ \in Nat /\ b.maxseq_ \in Int /\ b.highest_ack_ \in Int
        /\ b.t_seqno_ \in Nat /\ b.h_seqno_ \in Int
    BY <1>1 DEF Open
  <2>2. b.connection_ \in 0 .. Len(k.s) /\ b.done \in 0 .. b.connection_
    BY <1>1
  <2>4. b.signal_on_empty_ \in BOOLEAN /\ b.close_on_empty_ \in BOOLEAN
    OBVIOUS
  <2>3. b.curseq_ <= k.e[b.connection_] /\ b.curseq_ <= k.x
    BY <1>1
  <2>. QED BY <2>1, <2>2, <2>3, <2>4 DEF STyped
<1>3. SAcked(b, k)
  BY <1>1 DEF SAcked, Known
<1>4. SStates(b, k)
  BY <1>1 DEF SStates
<1>5. SOut(b, k)
  <2>1. \A E, o, c : AllToReceiver(<<>>, c, E, o)
    BY DEF AllToReceiver
  <2>. QED BY <2>1 DEF SOut
<1>15. SPrio(b, k)
  BY DEF SPrio
<1>6. SMid(b, k)
  BY <1>2, <1>3, <1>4, <1>5, <1>15 DEF SMid, SCore
<1> DEFINE o == foutput(b, ISS, w)
<1>7. Output(o, b, ISS, k)
  <2>1. ISS \in Nat /\ ISS = 0 /\ (IsOpen(b, k) => ISS <= b.curseq_ + 1)
    BY <1>1 DEF ISS
  <2>. QED BY <1>6, <2>1, SFoutput DEF Fin
<1>. HIDE DEF o
<1>8. /\ SMid(o.agent, k) /\ o.amt \in Nat /\ o.agent.state_ = "SYN_SENT"
      /\ o.agent.maxseq_ >= 1 /\ o.amt = 1
      /\ IsOpen(o.agent, k) => ISS + o.amt <= o.agent.curseq_ + 1
      /\ o.agent.t_seqno_ = 0
  BY <1>7 DEF Output, Kept
<1>9. PICK e : e = o.agent
  OBVIOUS
<1>10. PICK n \in Nat : n = o.amt
  BY <1>8
<1>11. ISS \in Nat /\ ISS = 0
  BY DEF ISS
<1> DEFINE c == sent(e, ISS, n)
<1>12. /\ SMid(c, k) /\ c.state_ = e.state_ /\ c.maxseq_ = e.maxseq_
       /\ c.t_seqno_ = IF ISS = e.t_seqno_ THEN ISS + n ELSE e.t_seqno_
  BY <1>8, <1>9, <1>10, <1>11, SSent
<1>. HIDE DEF c
<1>13. c.t_seqno_ >= 1 /\ c.maxseq_ >= 1
  BY <1>8, <1>9, <1>10, <1>11, <1>12
<1>14. SOk(c, k)
  BY <1>12, <1>13 DEF SOk
<1>. QED BY <1>9, <1>10, <1>14 DEF c, o

\* sendmsg keeps the invariant, of a sender with one message more.
LEMMA SSendmsg ==
    ASSUME NEW a, NEW k, NEW l, KOk(k), KOk(l), SOk(a, k), k.q, a.out = <<>>,
           ~a.signal_on_empty_, a.state_ \in {"CLOSED", "ESTABLISHED"},
           a.connection_ + 1 <= Len(k.s),
           NEW flag \in {"DAT_EOF", "MSG_EOF"}, flag = "MSG_EOF" => a.state_ = "ESTABLISHED",
           NEW nb \in Nat, k.e[a.connection_ + 1] = k.e[a.connection_] + nb, nb > 0,
           NextMessage(k, l, flag), NEW w \in Nat
    PROVE  SOk(sendmsg(a, nb, flag, w), l)
<1> DEFINE z == [a EXCEPT !.close_on_empty_ = @ \/ flag = "MSG_EOF",
                          !.signal_on_empty_ = @ \/ flag = "DAT_EOF"]
<1>1. /\ DOMAIN a = Fields /\ a.connection_ \in 0 .. Len(k.s) /\ a.done \in 0 .. a.connection_
      /\ a.curseq_ = k.e[a.connection_] /\ a.highest_ack_ \in Int /\ a.highest_ack_ <= k.n
      /\ a.close_on_empty_ = FALSE /\ a.signal_on_empty_ = FALSE /\ k.m = a.connection_
      /\ a.curseq_ \in Nat /\ SMid(a, k)
      /\ IsOpen(a, k)
  BY DEF SOk, SMid, SCore, STyped, SStates, IsOpen
<1>2. /\ DOMAIN z = Fields /\ z.close_on_empty_ = (flag = "MSG_EOF")
      /\ z.signal_on_empty_ = (flag = "DAT_EOF")
      /\ \A f \in Fields \ {"close_on_empty_", "signal_on_empty_"} : z[f] = a[f]
  BY <1>1, FieldsAre
<1>3. sendmsg(a, nb, flag, w) = advance_bytes(z, nb, w)
  BY DEF sendmsg
<1>. HIDE DEF z
<1>4. CASE a.state_ = "CLOSED"
  <2> DEFINE b == [reset(z) EXCEPT !.startseq_ = ISS, !.connection_ = @ + 1,
                       !.curseq_ = ISS + nb, !.seq_bound_ = -1]
             c == newstate(b, "SYN_SENT")
  <2>1. z.state_ = "CLOSED" /\ flag = "DAT_EOF" /\ z.signal_on_empty_ = TRUE
    BY <1>2, <1>4, FieldsAre
  <2>2. advance_bytes(z, nb, w) =
          LET o == foutput(c, ISS, w) IN sent(o.agent, ISS, o.amt)
    BY <2>1 DEF advance_bytes, connect
  <2>3. a.connection_ = 0 /\ a.highest_ack_ = -1 /\ a.done = 0 /\ k.e[0] = 0
    BY <1>1, <1>4 DEF SMid, SCore, SStates, KOk
  <2>4. /\ z.connection_ = 0 /\ z.done = 0 /\ z.out = <<>>
    BY <1>2, <2>3, FieldsAre
  <2>5. /\ DOMAIN reset(z) = Fields
        /\ reset(z).maxseq_ = -1 /\ reset(z).highest_ack_ = -1 /\ reset(z).t_seqno_ = 0
        /\ reset(z).h_seqno_ = -1 /\ reset(z).sq_ = {} /\ reset(z).flags_ = {}
        /\ reset(z).close_on_empty_ = FALSE /\ reset(z).rqfin = NoFin
        /\ reset(z).out = z.out /\ reset(z).done = z.done
        /\ reset(z).connection_ = z.connection_ /\ reset(z).signal_on_empty_ = z.signal_on_empty_
    BY <1>2 DEF reset, Fresh, Created, Fields, ISS
  <2> DEFINE r == reset(z)
  <2>. HIDE DEF r
  <2>6. c = [[r EXCEPT !.startseq_ = ISS, !.connection_ = @ + 1,
                       !.curseq_ = ISS + nb, !.seq_bound_ = -1] EXCEPT !.state_ = "SYN_SENT"]
    BY DEF newstate, r
  <2>7. DOMAIN r = Fields /\ r.connection_ = 0
    BY <2>4, <2>5 DEF r
  <2>. HIDE DEF c
  <2>8. /\ DOMAIN c = Fields /\ c.connection_ = 1 /\ c.curseq_ = nb /\ c.state_ = "SYN_SENT"
        /\ \A f \in Said \ {"state_", "connection_", "curseq_", "seq_bound_"} : c[f] = r[f]
        /\ c.h_seqno_ = r.h_seqno_ /\ c.seq_bound_ = -1
    <3>1. {"startseq_", "connection_", "curseq_", "seq_bound_", "state_"} \subseteq Fields
      BY DEF Fields, Created, Fresh
    <3>2. /\ DOMAIN c = Fields /\ c.connection_ = r.connection_ + 1 /\ c.curseq_ = ISS + nb
          /\ c.state_ = "SYN_SENT" /\ c.seq_bound_ = -1
          /\ \A f \in Fields \ {"startseq_", "connection_", "curseq_", "seq_bound_", "state_"} :
                c[f] = r[f]
      BY <2>6, <2>7, <3>1
    <3>3. ISS + nb = nb
      BY DEF ISS
    <3>. QED BY <2>7, <3>2, <3>3, FieldsAre DEF Said
  <2>9. /\ c.maxseq_ = -1 /\ c.highest_ack_ = -1 /\ c.t_seqno_ = 0 /\ c.h_seqno_ = -1
        /\ c.sq_ = {} /\ c.flags_ = {} /\ c.close_on_empty_ = FALSE /\ c.rqfin = NoFin
        /\ c.out = <<>> /\ c.done = 0 /\ c.signal_on_empty_ = TRUE
    BY <2>1, <2>4, <2>5, <2>8 DEF Said, r
  <2>10. /\ c.curseq_ = l.e[1] /\ l.q /\ l.n >= -1 /\ 1 <= Len(l.s) /\ l.m = 1 /\ l.x = l.e[1]
         /\ l.p = TRUE /\ l.w = TRUE
    <3>1. k.e[1] = nb /\ 1 <= Len(k.s) /\ k.m + 1 = 1 /\ -1 <= k.n /\ k.n \in Int
      BY <1>1, <2>3 DEF KOk
    <3>. QED BY <2>1, <2>8, <3>1 DEF NextMessage
  <2>11. l.G = {}
    BY <2>3 DEF SOk, SMid, SCore, SAcked, NextMessage
  <2>12. LET o == foutput(c, ISS, w) IN SOk(sent(o.agent, ISS, o.amt), l)
    BY <2>8, <2>9, <2>10, <2>11, SConnect
  <2>. QED BY <1>3, <2>2, <2>12
<1>5. CASE a.state_ = "ESTABLISHED"
  <2> DEFINE b == [z EXCEPT !.startseq_ = z.curseq_, !.connection_ = @ + 1,
                         !.curseq_ = @ + nb, !.seq_bound_ = -1]
  <2>1. z.state_ = "ESTABLISHED" /\ z.connection_ = a.connection_ /\ z.curseq_ = a.curseq_
    BY <1>2, <1>5, FieldsAre
  <2>2. advance_bytes(z, nb, w) = send_much(b, FALSE, w)
    BY <2>1 DEF advance_bytes
  <2>3. /\ DOMAIN b = Fields /\ b.connection_ = a.connection_ + 1 /\ b.curseq_ = a.curseq_ + nb
        /\ b.seq_bound_ = -1
        /\ \A f \in Fields \ {"connection_", "curseq_", "startseq_", "seq_bound_"} : b[f] = z[f]
    BY <1>2, <2>1, FieldsAre
  <2>. HIDE DEF b
  <2>4. /\ b.state_ = "ESTABLISHED" /\ b.sq_ = a.sq_
        /\ b.highest_ack_ = a.highest_ack_ /\ b.t_seqno_ = a.t_seqno_
        /\ b.maxseq_ = a.maxseq_ /\ b.h_seqno_ = a.h_seqno_
        /\ b.done = a.done /\ b.flags_ = a.flags_
        /\ b.signal_on_empty_ = (flag = "DAT_EOF")
        /\ b.close_on_empty_ = (flag = "MSG_EOF") /\ b.out = <<>> /\ b.rqfin = a.rqfin
    BY <1>2, <1>5, <2>3, FieldsAre
  <2>5. b.curseq_ = l.e[b.connection_] /\ l.m = b.connection_ /\ l.x = b.curseq_
    BY <1>1, <2>3 DEF NextMessage
  <2>6. STyped(b, l)
    <3>1. b.connection_ \in 0 .. Len(l.s) /\ b.done \in 0 .. b.connection_ /\ b.curseq_ \in Nat
      BY <1>1, <2>3, <2>4 DEF NextMessage
    <3>2. b.rqfin = NoFin
      BY <1>1, <2>4 DEF SMid, SCore, STyped
    <3>3. b.maxseq_ \in Int /\ b.highest_ack_ \in Int /\ b.t_seqno_ \in Nat /\ b.h_seqno_ \in Int
      BY <1>1, <2>4 DEF SMid, SCore, STyped
    <3>4. b.signal_on_empty_ \in BOOLEAN /\ b.close_on_empty_ \in BOOLEAN /\ l.p
      BY <2>4 DEF NextMessage
    <3>. QED BY <2>3, <2>4, <2>5, <3>1, <3>2, <3>3, <3>4 DEF STyped, Open
  <2>7. a.highest_ack_ <= a.curseq_ + 1 /\ a.t_seqno_ <= a.curseq_ + 1 /\ a.maxseq_ <= a.curseq_ + 1
        /\ a.t_seqno_ >= 1 /\ a.highest_ack_ >= 1 /\ a.maxseq_ >= 1
        /\ a.t_seqno_ \in Int /\ a.maxseq_ \in Int
    BY <1>1, <1>5 DEF SMid, SCore, SStates, STyped
  <2>8. SAcked(b, l)
    <3>1. /\ Known(a.highest_ack_, a.curseq_, k.G) /\ a.sq_ \subseteq k.G
          /\ k.G \subseteq 1 .. a.curseq_ /\ 1 .. k.e[a.done] \subseteq k.G
      BY <1>1 DEF SMid, SCore, SAcked
    <3>2. Known(b.highest_ack_, b.curseq_, k.G)
      BY <1>1, <2>3, <2>4, <2>7, <3>1 DEF Known
    <3>3. k.G \subseteq 1 .. b.curseq_
      BY <1>1, <2>3, <3>1
    <3>4. b.done < b.connection_
      BY <1>1, <2>3, <2>4
    <3>5. b.signal_on_empty_ => l.q
      BY <2>4 DEF NextMessage
    <3>. QED BY <2>4, <2>5, <3>1, <3>2, <3>3, <3>4, <3>5 DEF SAcked, NextMessage
  <2>9. SStates(b, l)
    <3>1. b.highest_ack_ <= l.n
      BY <1>1, <2>4 DEF NextMessage
    <3>4. b.t_seqno_ = a.t_seqno_ /\ b.maxseq_ = a.maxseq_ /\ b.highest_ack_ = a.highest_ack_
      BY <2>4
    <3>5. a.curseq_ \in Nat /\ a.highest_ack_ \in Int /\ a.curseq_ <= b.curseq_
      BY <1>1, <2>3
    <3>6. b.curseq_ \in Int
      BY <1>1, <2>3
    <3>7. \A n \in Int : n <= a.curseq_ + 1 => n <= b.curseq_ + 1
      BY <3>5, <3>6
    <3>2. /\ b.t_seqno_ <= b.curseq_ + 1 /\ b.maxseq_ <= b.curseq_ + 1
          /\ b.highest_ack_ <= b.curseq_ + 1
      BY <2>7, <3>4, <3>5, <3>7
    <3>3. l.q => ~b.close_on_empty_ /\ b.signal_on_empty_
      BY <2>4 DEF NextMessage
    <3>. QED BY <2>4, <2>5, <2>7, <3>1, <3>2, <3>3 DEF SStates
  <2>10. SOut(b, l)
    <3>1. \A E, o, c : AllToReceiver(<<>>, c, E, o)
      BY DEF AllToReceiver
    <3>. QED BY <2>4, <3>1 DEF SOut
  <2>13. SPrio(b, l)
    <3>1. SPrio(a, k) /\ a.highest_ack_ = a.curseq_ + 1
      BY <1>1, <1>5 DEF SMid, SCore, SStates
    <3>2. b.connection_ - 1 = a.connection_
      BY <1>1, <2>3
    <3>3. /\ b.connection_ >= 1 /\ b.curseq_ = l.e[b.connection_]
          /\ b.highest_ack_ >= l.e[b.connection_ - 1] + 1
      BY <1>1, <2>3, <2>4, <2>5, <3>1, <3>2 DEF NextMessage
    <3>4. b.rqfin = NoFin
      BY <1>1, <2>4 DEF SMid, SCore, STyped
    <3>5. b.highest_ack_ <= b.maxseq_
      BY <2>4, <3>1 DEF SPrio
    <3>. QED BY <2>3, <2>4, <3>3, <3>4, <3>5 DEF SPrio, NextMessage
  <2>11. SMid(b, l) /\ b.state_ # "SYN_SENT"
    BY <1>1, <2>4, <2>6, <2>8, <2>9, <2>10, <2>13 DEF SMid, SCore
  <2>12. SOk(send_much(b, FALSE, w), l)
    BY <2>11, SSendMuch
  <2>. QED BY <1>3, <2>2, <2>12
<1>. QED BY <1>4, <1>5

------------------------------------------------------------------------------
(* The receiver *)

\* What the countdown of a message shows when the bytes before n are in order.
Left(E, n) == IF E - Largest(n, 1) + 1 > 0 THEN E - Largest(n, 1) + 1 ELSE -1

\* The receiver's fields; it sends no data and has no close to make on empty.
RTyped(a, k) ==
    /\ DOMAIN a = Fields
    /\ a.state_ \in {"LISTEN", "CLOSED", "SYN_RECEIVED", "ESTABLISHED", "CLOSE_WAIT"} \cup Fin
    /\ a.rcv_nxt_ \in Int /\ a.flow_remaining_ \in Int
    /\ ~a.close_on_empty_ /\ "NEEDCLOSE" \notin a.flags_

\* What is in order and in the reassembly queue has arrived, and a FIN is no byte.
RData(a, k) ==
    /\ Known(a.rcv_nxt_, k.c, k.G) /\ a.rq_ \subseteq k.G
    /\ a.rqfin = NoFin \/ (a.rqfin \in Int /\ a.rqfin > k.c)
    /\ k.o => a.rcv_nxt_ <= k.c + 1 /\ a.rqfin = NoFin

\* The receiver's counters in each state; the last conjunct is FlowRemaining.
RStates(a, k) ==
    /\ a.state_ \notin {"LISTEN", "CLOSED"} => a.rcv_nxt_ >= 1
    /\ a.state_ = "LISTEN" => a.rcv_nxt_ <= 1
    /\ k.q => a.state_ \in Named /\ "NEEDFIN" \notin a.flags_ /\ a.rcv_nxt_ >= k.m
    /\ a.state_ \in Named => a.rcv_nxt_ <= k.E + 1
    /\ (a.state_ \in Named /\ ~FairCopy) => a.flow_remaining_ = Left(k.E, a.rcv_nxt_)

\* A list of packets for the sender.
AllToSender(out, n, k) ==
    /\ out \in Seq({out[i] : i \in DOMAIN out})
    /\ \A i \in DOMAIN out : ToSender(out[i], k.c, k.G, k.q, k.o, n)

\* What the receiver has sent in this step.
ROut(a, k) == AllToSender(a.out, a.rcv_nxt_, k)

\* The invariant of the receiver after a step.
ROk(a, k) == RTyped(a, k) /\ RData(a, k) /\ RStates(a, k) /\ ROut(a, k)

\* What is known of the sender.
RK(k) ==
    /\ k.c \in Nat /\ k.E \in Nat /\ k.c <= k.E /\ k.G \subseteq 1 .. k.E
    /\ k.q \in BOOLEAN /\ k.o \in BOOLEAN /\ (k.q => k.o) /\ (k.o => k.c = k.E)
    /\ k.m \in Int

\* The fields of the receiver that its invariant is about.
RSaid == {"state_", "rcv_nxt_", "rq_", "rqfin", "flow_remaining_", "close_on_empty_", "out"}

\* Two agents of which it says the same.
RLike(a, b) ==
    /\ DOMAIN b = Fields
    /\ \A f \in RSaid : b[f] = a[f]
    /\ "NEEDFIN" \in b.flags_ => "NEEDFIN" \in a.flags_
    /\ "NEEDCLOSE" \in b.flags_ => "NEEDCLOSE" \in a.flags_

\* The invariant carries over from one to the other.
LEMMA RAlike ==
    ASSUME NEW a, NEW k, NEW b, RLike(a, b), ROk(a, k)
    PROVE  ROk(b, k) /\ b.state_ = a.state_
<1>1. /\ b.state_ = a.state_ /\ b.rcv_nxt_ = a.rcv_nxt_ /\ b.rq_ = a.rq_ /\ b.rqfin = a.rqfin
      /\ b.flow_remaining_ = a.flow_remaining_ /\ b.close_on_empty_ = a.close_on_empty_
      /\ b.out = a.out
  BY DEF RLike, RSaid
<1>2. RTyped(b, k)
  BY <1>1 DEF RLike, ROk, RTyped
<1>3. RData(b, k) /\ ROut(b, k)
  BY <1>1 DEF ROk, RData, ROut
<1>4. RStates(b, k)
  BY <1>1 DEF RLike, ROk, RStates
<1>. QED BY <1>1, <1>2, <1>3, <1>4 DEF ROk

\* A packet joins a list of packets for the sender.
LEMMA AppendToSender ==
    ASSUME NEW out, NEW n, NEW k, AllToSender(out, n, k),
           NEW p, ToSender(p, k.c, k.G, k.q, k.o, n)
    PROVE  AllToSender(Append(out, p), n, k)
BY AppendOne DEF AllToSender

\* sendpacket: a packet leaves the receiver, nothing else of the invariant changes.
LEMMA RSendpacket ==
    ASSUME NEW a, NEW k, ROk(a, k), RK(k),
           NEW seqno, NEW ackno \in {0, a.rcv_nxt_}, NEW pflags, NEW len,
           "FIN" \in pflags => ~k.q, "SYN" \in pflags => "ACK" \in pflags
    PROVE  LET b == sendpacket(a, seqno, ackno, pflags, len)
           IN ROk(b, k) /\ b.state_ = a.state_ /\ b.flags_ = a.flags_
<1> DEFINE b == sendpacket(a, seqno, ackno, pflags, len)
           p == [seqno |-> seqno, ackno |-> ackno, flags |-> pflags, len |-> len,
                 sack |-> a.rq_, connection |-> a.connection_,
                 prio |-> Priority(a, seqno, len),
                 twice |-> IF len = 0 THEN 0
                           ELSE IF (len > 0 /\ NewBatch(a)) \/ PrioScheme = 2 THEN Twice(a)
                           ELSE a.twice]
<1>1. DOMAIN a = Fields
  BY DEF ROk, RTyped
<1>2. /\ DOMAIN b = Fields /\ b.out = Append(a.out, p)
      /\ \A f \in (RSaid \ {"out"}) \cup {"flags_"} : b[f] = a[f]
  BY <1>1, FieldsAre DEF sendpacket, RSaid
<1>3. p.ackno = ackno /\ p.sack = a.rq_ /\ p.flags = pflags /\ DOMAIN p = PacketFields
  BY DEF PacketFields
<1>. HIDE DEF b, p
<1>4. ToSender(p, k.c, k.G, k.q, k.o, a.rcv_nxt_)
  <2>1. ackno \in Int /\ Known(ackno, k.c, k.G)
    BY DEF ROk, RTyped, RData, Known
  <2>2. /\ a.rq_ \subseteq k.G
        /\ k.o => ackno <= k.c + 1
        /\ ackno <= 0 \/ ackno <= a.rcv_nxt_
    BY DEF ROk, RTyped, RData, RK
  <2>. QED BY <1>3, <2>1, <2>2 DEF ToSender
<1>5. AllToSender(b.out, a.rcv_nxt_, k)
  BY <1>2, <1>4, AppendToSender DEF ROk, ROut
<1>6. /\ b.state_ = a.state_ /\ b.rcv_nxt_ = a.rcv_nxt_ /\ b.rq_ = a.rq_ /\ b.rqfin = a.rqfin
      /\ b.flow_remaining_ = a.flow_remaining_ /\ b.close_on_empty_ = a.close_on_empty_
      /\ b.flags_ = a.flags_
  BY <1>2 DEF RSaid
<1>7. RTyped(b, k)
  BY <1>2, <1>6 DEF ROk, RTyped
<1>8. RData(b, k) /\ RStates(b, k) /\ ROut(b, k)
  BY <1>5, <1>6 DEF ROk, RData, RStates, ROut
<1>. QED BY <1>6, <1>7, <1>8 DEF ROk, b

\* transmit of the receiver, which has no close to make.
LEMMA RTransmit ==
    ASSUME NEW a, NEW k, ROk(a, k), RK(k), NEW seqno, NEW pflags, NEW len,
           "FIN" \in pflags => ~k.q, "SYN" \in pflags => "ACK" \in pflags
    PROVE  ROk(transmit(a, seqno, pflags, len).agent, k)
<1> DEFINE amt == len + Cardinality(pflags \cap {"SYN", "FIN"})
           c == sendpacket(a, seqno, a.rcv_nxt_, pflags, len)
           b == [c EXCEPT !.flags_ = @ \ {"NEEDCLOSE", "ACKNOW", "DELACK"},
                          !.maxseq_ = Largest(@, seqno + amt),
                          !.rtx_timer_ = @ \/ amt > 0]
<1>1. transmit(a, seqno, pflags, len).agent = b
  BY DEF transmit, ROk, RTyped
<1>2. ROk(c, k)
  BY RSendpacket
<1>. HIDE DEF c, amt
<1>3. RLike(c, b)
  BY <1>2, FieldsAre DEF ROk, RTyped, RLike, RSaid
<1>. HIDE DEF b
<1>. QED BY <1>1, <1>2, <1>3, RAlike

\* foutput of the receiver keeps the invariant.
LEMMA RFoutput ==
    ASSUME NEW a, NEW k, ROk(a, k), RK(k), NEW seqno, NEW w
    PROVE  ROk(foutput(a, seqno, w).agent, k)
<1> DEFINE b == SignalEmpty(a, seqno)
           len == Payload(a, seqno, w)
           emptying == seqno + len > b.curseq_ \/ seqno = ISS
           pflags == IF emptying THEN outflags(b) ELSE outflags(b) \ {"FIN"}
           reason == \/ WorthSending(b, seqno, len, emptying)
                     \/ need_send(b)
                     \/ "NEEDCLOSE" \in b.flags_
                     \/ pflags \cap {"SYN", "FIN"} # {}
<1>1. RLike(a, b)
  BY FieldsAre DEF SignalEmpty, bufferempty, RLike, RSaid, ROk, RTyped
<1>. HIDE DEF b, len
<1>2. ROk(b, k) /\ ~b.close_on_empty_
  BY <1>1, RAlike DEF ROk, RTyped
<1>3. foutput(a, seqno, w) = IF reason THEN transmit(b, seqno, pflags, len)
                             ELSE [amt |-> 0, agent |-> b]
  BY <1>2 DEF foutput, Segment, SendIfReason, CloseOnEmpty, b, len
<1>4. b.state_ \in {"LISTEN", "CLOSED", "SYN_RECEIVED", "ESTABLISHED", "CLOSE_WAIT"} \cup Fin
  BY <1>2 DEF ROk, RTyped
<1>5. /\ "FIN" \in outflags(b) => b.state_ \in {"FIN_WAIT_1", "CLOSING", "LAST_ACK"}
      /\ "SYN" \in outflags(b) => "ACK" \in outflags(b)
  BY <1>4 DEF outflags, Fin
<1>6. b.state_ \in {"FIN_WAIT_1", "CLOSING", "LAST_ACK"} => ~k.q
  BY <1>2 DEF ROk, RStates, Named
<1>7. ("FIN" \in pflags => ~k.q) /\ ("SYN" \in pflags => "ACK" \in pflags)
  BY <1>5, <1>6
<1>. HIDE DEF pflags, reason
<1>8. ROk(transmit(b, seqno, pflags, len).agent, k)
  BY <1>2, <1>7, RTransmit
<1>. QED BY <1>2, <1>3, <1>8

\* One round of send_much of the receiver.
LEMMA RRound ==
    ASSUME NEW a, NEW k, ROk(a, k), RK(k), NEW force, NEW w
    PROVE  ROk(Round(a, force, w).agent, k)
<1> DEFINE next == nxt_tseq(a)
           b == next.agent
           o == foutput(b, next.seq, w)
           fl == outflags(o.agent)
           amt == IF "FIN" \in fl THEN o.amt - 1 ELSE o.amt
           c == sent(o.agent, next.seq, amt)
<1>1. /\ ~(force \/ send_allowed(b, next.seq, w)) =>
            Round(a, force, w).agent = b
      /\ (force \/ send_allowed(b, next.seq, w)) /\ o.amt = 0 =>
            Round(a, force, w).agent = o.agent
      /\ (force \/ send_allowed(b, next.seq, w)) /\ o.amt # 0 =>
            Round(a, force, w).agent = c
  BY DEF Round
<1>2. RLike(a, b)
  BY FieldsAre DEF nxt_tseq, RLike, RSaid, ROk, RTyped
<1>. HIDE DEF b, next
<1>3. ROk(b, k)
  BY <1>2, RAlike
<1>4. ROk(o.agent, k)
  BY <1>3, RFoutput
<1>. HIDE DEF o, amt, fl
<1>5. PICK e : e = o.agent
  OBVIOUS
<1>6. RLike(e, c)
  BY <1>4, <1>5, FieldsAre DEF sent, RLike, RSaid, ROk, RTyped
<1>. HIDE DEF c
<1>7. ROk(c, k)
  BY <1>4, <1>5, <1>6, RAlike
<1>. QED BY <1>1, <1>3, <1>4, <1>7

\* send_much of the receiver keeps the invariant.
LEMMA RSendMuch ==
    ASSUME NEW a, NEW k, ROk(a, k), RK(k), NEW force, NEW w
    PROVE  ROk(send_much(a, force, w), k)
<1>0. PICK f : RoundsOf(f, a, force, w)
  BY SendMuchRounds
<1>1. /\ f[1] = Round(a, force, w)
      /\ \A n \in 2 .. MaxBurst :
            f[n] = IF f[n - 1].more THEN Round(f[n - 1].agent, FALSE, w) ELSE f[n - 1]
      /\ send_much(a, force, w) = f[MaxBurst].agent
  BY <1>0 DEF RoundsOf
<1> DEFINE S == {j \in Nat : j + 1 <= MaxBurst => ROk(f[j + 1].agent, k)}
<1>2. MaxBurst \in Nat \ {0}
  BY TcpOutputAssumption
<1>3. 0 \in S
  BY <1>1, RRound
<1>4. ASSUME NEW j \in S
      PROVE  j + 1 \in S
  <2>. SUFFICES ASSUME j + 2 <= MaxBurst
                PROVE  ROk(f[j + 2].agent, k)
    BY <1>2
  <2>1. ROk(f[j + 1].agent, k)
    BY <1>2
  <2>2. f[j + 2] = IF f[j + 1].more THEN Round(f[j + 1].agent, FALSE, w) ELSE f[j + 1]
    <3>1. j + 2 \in 2 .. MaxBurst /\ (j + 2) - 1 = j + 1
      BY <1>2
    <3>. QED BY <1>1, <3>1
  <2>3. ROk(Round(f[j + 1].agent, FALSE, w).agent, k)
    BY <2>1, RRound
  <2>. QED BY <2>1, <2>2, <2>3
<1>6. S \in SUBSET Nat
  OBVIOUS
<1>. HIDE DEF S
<1>5. MaxBurst - 1 \in S
  BY <1>2, <1>3, <1>4, <1>6, SetInduction
<1>7. MaxBurst - 1 + 1 = MaxBurst
  BY <1>2
<1>8. ROk(f[MaxBurst].agent, k)
  BY <1>2, <1>5, <1>7 DEF S
<1>. QED BY <1>1, <1>8

\* A segment as Take finds it.
RSegment(p, k) ==
    /\ p.seqno \in Int /\ p.len \in Nat
    /\ p.len > 0 => p.seqno >= 1 /\ p.seqno + p.len <= k.E + 1
    /\ "FIN" \in p.flags => ~k.o /\ p.seqno + p.len > k.c
    /\ p.seqno .. p.seqno + p.len - 1 \subseteq k.G

\* What remains after more bytes.
Rest(left, bytes) ==
    LET n == IF left > 0 THEN left - bytes ELSE left IN IF n = 0 THEN -1 ELSE n

\* The countdown stays with rcv_nxt_.
LEMMA RestIsLeft ==
    ASSUME NEW E \in Nat, NEW n \in Int, n >= 1, NEW bytes \in Nat, bytes > 0, n + bytes <= E + 1
    PROVE  Rest(Left(E, n), bytes) = Left(E, n + bytes)
<1>1. Left(E, n) = E - n + 1 /\ E - n + 1 > 0
  BY DEF Left, Largest
<1>2. Left(E, n + bytes) = IF E - (n + bytes) + 1 > 0 THEN E - (n + bytes) + 1 ELSE -1
  BY DEF Left, Largest
<1>. QED BY <1>1, <1>2 DEF Rest

\* countdown takes the bytes off flow_remaining_, no more.
LEMMA RCountdown ==
    ASSUME NEW a, DOMAIN a = Fields, NEW bytes
    PROVE  LET b == countdown(a, bytes)
           IN /\ DOMAIN b = Fields /\ \A f \in RSaid \ {"flow_remaining_"} : b[f] = a[f]
              /\ b.flow_remaining_ = Rest(a.flow_remaining_, bytes)
              /\ b.flags_ \subseteq a.flags_ \cup {"ACKNOW"}
<1> DEFINE n == IF a.flow_remaining_ > 0 THEN a.flow_remaining_ - bytes ELSE a.flow_remaining_
           b == countdown(a, bytes)
<1>1. b = IF n = 0 THEN [raise(a, "ACKNOW") EXCEPT !.flow_remaining_ = -1]
          ELSE [a EXCEPT !.flow_remaining_ = n]
  BY DEF countdown
<1>2. Rest(a.flow_remaining_, bytes) = IF n = 0 THEN -1 ELSE n
  BY DEF Rest
<1>. HIDE DEF n
<1>3. CASE n = 0
  <2> DEFINE c == raise(a, "ACKNOW")
  <2>1. /\ DOMAIN c = Fields /\ c.flags_ = a.flags_ \cup {"ACKNOW"}
        /\ \A f \in Fields \ {"flags_"} : c[f] = a[f]
    BY FieldsAre DEF raise
  <2>2. b = [c EXCEPT !.flow_remaining_ = -1]
    BY <1>1, <1>3
  <2>. HIDE DEF b, c
  <2>3. /\ DOMAIN b = Fields /\ b.flow_remaining_ = -1 /\ b.flags_ = c.flags_
        /\ \A f \in Fields \ {"flow_remaining_"} : b[f] = c[f]
    BY <2>1, <2>2, FieldsAre
  <2>4. RSaid \subseteq Fields /\ "flags_" \notin RSaid
    BY FieldsAre DEF RSaid
  <2>. QED BY <1>2, <1>3, <2>1, <2>3, <2>4 DEF b
<1>4. CASE n # 0
  <2>1. b = [a EXCEPT !.flow_remaining_ = n]
    BY <1>1, <1>4
  <2>2. Rest(a.flow_remaining_, bytes) = n
    BY <1>2, <1>4
  <2>. QED BY <2>1, <2>2, FieldsAre DEF RSaid
<1>. QED BY <1>3, <1>4

\* More data is in order.
LEMMA RAdvance ==
    ASSUME NEW a, NEW k, ROk(a, k), RK(k), a.state_ \notin {"LISTEN", "CLOSED"},
           NEW b, DOMAIN b = Fields,
           b.state_ = a.state_, b.close_on_empty_ = a.close_on_empty_, b.out = a.out,
           b.flags_ \subseteq a.flags_ \cup {"ACKNOW", "DELACK"},
           b.rcv_nxt_ \in Int, b.rcv_nxt_ >= a.rcv_nxt_,
           \A y \in a.rcv_nxt_ .. b.rcv_nxt_ - 1 : y \in k.G,
           b.rq_ \subseteq k.G, b.rqfin = NoFin \/ (b.rqfin \in Int /\ b.rqfin > k.c /\ ~k.o),
           b.flow_remaining_ \in Int,
           ~FairCopy /\ b.rcv_nxt_ = a.rcv_nxt_ => b.flow_remaining_ = a.flow_remaining_,
           ~FairCopy /\ b.rcv_nxt_ # a.rcv_nxt_ =>
               b.flow_remaining_ = Rest(a.flow_remaining_, b.rcv_nxt_ - a.rcv_nxt_)
    PROVE  ROk(b, k)
<1>1. /\ a.rcv_nxt_ \in Int /\ a.rcv_nxt_ >= 1 /\ Known(a.rcv_nxt_, k.c, k.G)
      /\ k.c \in Nat /\ k.E \in Nat /\ k.c <= k.E /\ k.G \subseteq 1 .. k.E
  BY DEF ROk, RTyped, RData, RStates, RK
<1>2. b.rcv_nxt_ # a.rcv_nxt_ => b.rcv_nxt_ <= k.E + 1
  <2>. SUFFICES ASSUME b.rcv_nxt_ # a.rcv_nxt_
                PROVE  b.rcv_nxt_ <= k.E + 1
    OBVIOUS
  <2>1. b.rcv_nxt_ - 1 \in a.rcv_nxt_ .. b.rcv_nxt_ - 1
    BY <1>1
  <2>2. b.rcv_nxt_ - 1 \in 1 .. k.E
    BY <1>1, <2>1
  <2>. QED BY <1>1, <2>2
<1>3. Known(b.rcv_nxt_, k.c, k.G)
  BY <1>1 DEF Known
<1>4. RTyped(b, k)
  BY DEF ROk, RTyped
<1>5. RData(b, k)
  BY <1>1, <1>2, <1>3 DEF ROk, RData, RK
<1>6. (b.state_ \in Named /\ ~FairCopy) => b.flow_remaining_ = Left(k.E, b.rcv_nxt_)
  <2>. SUFFICES ASSUME b.state_ \in Named, ~FairCopy
                PROVE  b.flow_remaining_ = Left(k.E, b.rcv_nxt_)
    OBVIOUS
  <2>1. a.flow_remaining_ = Left(k.E, a.rcv_nxt_)
    BY DEF ROk, RStates
  <2>2. CASE b.rcv_nxt_ = a.rcv_nxt_
    BY <2>1, <2>2
  <2>3. CASE b.rcv_nxt_ # a.rcv_nxt_
    <3>1. PICK d \in Nat : d = b.rcv_nxt_ - a.rcv_nxt_ /\ d > 0
      BY <1>1, <2>3
    <3>2. a.rcv_nxt_ + d = b.rcv_nxt_
      BY <1>1, <3>1
    <3>3. Rest(Left(k.E, a.rcv_nxt_), d) = Left(k.E, a.rcv_nxt_ + d)
      BY <1>1, <1>2, <2>3, <3>1, <3>2, RestIsLeft
    <3>. QED BY <2>1, <2>3, <3>1, <3>2, <3>3
  <2>. QED BY <2>2, <2>3
<1>7. RStates(b, k)
  <2>1. b.rcv_nxt_ >= 1
    BY <1>1
  <2>2. k.q => b.state_ \in Named /\ "NEEDFIN" \notin b.flags_ /\ b.rcv_nxt_ >= k.m
    BY <1>1 DEF ROk, RStates, RK
  <2>3. b.state_ \in Named => b.rcv_nxt_ <= k.E + 1
    BY <1>2 DEF ROk, RStates
  <2>. QED BY <1>6, <2>1, <2>2, <2>3 DEF RStates
<1>8. ROut(b, k)
  <2>1. \A p : ToSender(p, k.c, k.G, k.q, k.o, a.rcv_nxt_) =>
               ToSender(p, k.c, k.G, k.q, k.o, b.rcv_nxt_)
    BY <1>1 DEF ToSender
  <2>. QED BY <2>1 DEF ROk, ROut, AllToSender
<1>. QED BY <1>4, <1>5, <1>7, <1>8 DEF ROk

\* Data in order: Take's first case.
LEMMA RTakeInOrder ==
    ASSUME NEW a, NEW k, ROk(a, k), RK(k), a.state_ \notin {"LISTEN", "CLOSED"},
           NEW p, RSegment(p, k), p.seqno = a.rcv_nxt_, a.rq_ = {}, a.rqfin = NoFin
    PROVE  LET t == Take(a, p)
           IN /\ ROk(t.agent, k) /\ t.agent.state_ = a.state_
              /\ t.fin => ~k.o /\ t.agent.rcv_nxt_ > k.c
<1> DEFINE b == [raise(a, "DELACK") EXCEPT !.rcv_nxt_ = @ + p.len]
           c == countdown(b, p.len)
           d == IF p.len > 0 THEN c ELSE b
           fin == "FIN" \in p.flags
<1>1. Take(a, p) = [fin |-> fin, agent |-> d]
  BY DEF Take
<1>2. DOMAIN a = Fields /\ a.rcv_nxt_ \in Int /\ p.len \in Nat /\ a.flow_remaining_ \in Int
  BY DEF ROk, RTyped, RSegment
<1>3. /\ DOMAIN b = Fields /\ b.rcv_nxt_ = a.rcv_nxt_ + p.len
      /\ \A f \in RSaid \ {"rcv_nxt_"} : b[f] = a[f]
      /\ b.flags_ = a.flags_ \cup {"DELACK"}
  BY <1>2, FieldsAre DEF raise, RSaid
<1>. HIDE DEF b
<1>4. /\ DOMAIN c = Fields /\ \A f \in RSaid \ {"flow_remaining_"} : c[f] = b[f]
      /\ c.flow_remaining_ = Rest(b.flow_remaining_, p.len)
      /\ c.flags_ \subseteq b.flags_ \cup {"ACKNOW"}
  BY <1>3, RCountdown
<1>. HIDE DEF c
<1>5. /\ DOMAIN d = Fields /\ d.rcv_nxt_ = a.rcv_nxt_ + p.len
      /\ d.state_ = a.state_ /\ d.close_on_empty_ = a.close_on_empty_ /\ d.out = a.out
      /\ d.rq_ = {} /\ d.rqfin = NoFin
      /\ d.flags_ \subseteq a.flags_ \cup {"ACKNOW", "DELACK"}
      /\ d.flow_remaining_ = IF p.len > 0 THEN Rest(a.flow_remaining_, p.len) ELSE a.flow_remaining_
  BY <1>3, <1>4 DEF RSaid
<1>. HIDE DEF d
<1>6. d.rcv_nxt_ \in Int /\ d.rcv_nxt_ >= a.rcv_nxt_ /\ d.rcv_nxt_ - a.rcv_nxt_ = p.len
  BY <1>2, <1>5
<1>7. \A y \in a.rcv_nxt_ .. d.rcv_nxt_ - 1 : y \in k.G
  BY <1>5 DEF RSegment
<1>8. d.flow_remaining_ \in Int
  BY <1>2, <1>5 DEF Rest
<1>9. /\ d.rcv_nxt_ = a.rcv_nxt_ => d.flow_remaining_ = a.flow_remaining_
      /\ d.rcv_nxt_ # a.rcv_nxt_ =>
            d.flow_remaining_ = Rest(a.flow_remaining_, d.rcv_nxt_ - a.rcv_nxt_)
  BY <1>2, <1>5, <1>6
<1>10. ROk(d, k)
  BY <1>5, <1>6, <1>7, <1>8, <1>9, RAdvance
<1>11. fin => ~k.o /\ d.rcv_nxt_ > k.c
  BY <1>5 DEF RSegment
<1>12. fin \in BOOLEAN
  OBVIOUS
<1>. HIDE DEF fin
<1>13. Take(a, p).agent = d /\ (Take(a, p).fin => fin)
  BY <1>1, <1>12
<1>. QED BY <1>5, <1>10, <1>11, <1>13

\* Data out of order: Take's second case.
LEMMA RTakeQueued ==
    ASSUME NEW a, NEW k, ROk(a, k), RK(k), a.state_ \notin {"LISTEN", "CLOSED"},
           NEW p, RSegment(p, k), ~(p.seqno = a.rcv_nxt_ /\ a.rq_ = {} /\ a.rqfin = NoFin)
    PROVE  LET t == Take(a, p)
           IN /\ ROk(t.agent, k) /\ t.agent.state_ = a.state_
              /\ t.fin => ~k.o /\ t.agent.rcv_nxt_ > k.c
<1> DEFINE queue == a.rq_ \cup (p.seqno .. p.seqno + p.len - 1)
           fin   == IF "FIN" \in p.flags THEN p.seqno + p.len ELSE a.rqfin
           next  == IF p.seqno = a.rcv_nxt_ THEN NextHole(queue, a.rcv_nxt_) ELSE a.rcv_nxt_
           r == reass(a, p)
           c == countdown(r.agent, Filled(a, r.agent.rcv_nxt_, p))
           d == IF r.agent.rcv_nxt_ > a.rcv_nxt_ THEN c ELSE r.agent
           e == raise(d, "ACKNOW")
           ends == p.seqno = a.rcv_nxt_ /\ fin # NoFin /\ fin = next
           inOrder == p.seqno = a.rcv_nxt_ /\ a.rq_ = {} /\ a.rqfin = NoFin
<1>1. Take(a, p) = IF inOrder
                   THEN [fin |-> "FIN" \in p.flags,
                         agent |-> LET b == [raise(a, "DELACK") EXCEPT !.rcv_nxt_ = @ + p.len]
                                   IN IF p.len > 0 THEN countdown(b, p.len) ELSE b]
                   ELSE [fin |-> r.fin, agent |-> e]
  BY DEF Take
<1>0. Take(a, p) = [fin |-> r.fin, agent |-> e]
  BY <1>1
<1>2. DOMAIN a = Fields /\ a.rcv_nxt_ \in Int /\ p.len \in Nat /\ a.flow_remaining_ \in Int
      /\ a.rq_ \subseteq k.G /\ k.G \subseteq 1 .. k.E /\ k.E \in Nat
  BY DEF ROk, RTyped, RData, RSegment, RK
<1>3. queue \subseteq k.G /\ queue \in SUBSET (1 .. k.E)
  BY <1>2 DEF RSegment
<1>4. /\ next \in Int /\ next >= a.rcv_nxt_
      /\ \A y \in a.rcv_nxt_ .. next - 1 : y \in queue
  <2>1. CASE p.seqno = a.rcv_nxt_
    <3>1. next = NextHole(queue, a.rcv_nxt_)
      BY <2>1
    <3>. HIDE DEF next, queue
    <3>. QED BY <1>2, <1>3, <3>1, NextHoleIs
  <2>2. CASE p.seqno # a.rcv_nxt_
    BY <1>2, <2>2
  <2>. QED BY <2>1, <2>2
<1>5. fin = NoFin \/ (fin \in Int /\ fin > k.c /\ ~k.o)
  BY DEF RSegment, ROk, RData
<1> DEFINE b == [a EXCEPT !.rq_ = {y \in queue : y >= next},
                          !.rqfin = IF fin = next THEN NoFin ELSE fin,
                          !.rcv_nxt_ = next]
<1>6. r = [fin |-> ends, agent |-> b]
  BY DEF reass
<1>7. /\ DOMAIN b = Fields /\ b.rq_ = {y \in queue : y >= next}
      /\ b.rqfin = (IF fin = next THEN NoFin ELSE fin) /\ b.rcv_nxt_ = next
      /\ \A f \in RSaid \ {"rq_", "rqfin", "rcv_nxt_"} : b[f] = a[f]
      /\ b.flags_ = a.flags_
  BY <1>2, FieldsAre DEF RSaid
<1>. HIDE DEF b, fin, next, queue
<1>8. ends \in BOOLEAN /\ (ends => fin # NoFin /\ fin = next)
  OBVIOUS
<1>. HIDE DEF ends
<1>9. r.agent = b /\ (r.fin => ends)
  BY <1>6, <1>8
<1>. HIDE DEF r
<1>10. /\ DOMAIN c = Fields /\ \A f \in RSaid \ {"flow_remaining_"} : c[f] = b[f]
       /\ c.flow_remaining_ = Rest(b.flow_remaining_, Filled(a, next, p))
       /\ c.flags_ \subseteq b.flags_ \cup {"ACKNOW"}
  BY <1>7, <1>9, RCountdown
<1>. HIDE DEF c
<1>11. d = IF next > a.rcv_nxt_ THEN c ELSE b
  BY <1>7, <1>9
<1>. HIDE DEF d
<1>12. /\ DOMAIN d = Fields /\ \A f \in RSaid \ {"flow_remaining_"} : d[f] = b[f]
       /\ d.flow_remaining_ = (IF next > a.rcv_nxt_ THEN Rest(b.flow_remaining_, Filled(a, next, p))
                               ELSE b.flow_remaining_)
       /\ d.flags_ \subseteq b.flags_ \cup {"ACKNOW"}
  BY <1>7, <1>10, <1>11
<1>13. /\ DOMAIN e = Fields /\ \A f \in RSaid : e[f] = d[f]
       /\ e.flags_ = d.flags_ \cup {"ACKNOW"}
  BY <1>12, FieldsAre DEF raise, RSaid
<1>. HIDE DEF e
<1>14. /\ e.rcv_nxt_ = next /\ e.state_ = a.state_ /\ e.close_on_empty_ = a.close_on_empty_
       /\ e.out = a.out
       /\ e.rq_ \subseteq k.G /\ e.rqfin = IF fin = next THEN NoFin ELSE fin
       /\ e.flags_ \subseteq a.flags_ \cup {"ACKNOW", "DELACK"}
       /\ e.flow_remaining_ = (IF next > a.rcv_nxt_ THEN Rest(a.flow_remaining_, Filled(a, next, p))
                               ELSE a.flow_remaining_)
  BY <1>3, <1>7, <1>12, <1>13 DEF RSaid
<1>15. /\ e.rcv_nxt_ \in Int /\ e.rcv_nxt_ >= a.rcv_nxt_
       /\ \A y \in a.rcv_nxt_ .. e.rcv_nxt_ - 1 : y \in k.G
  BY <1>3, <1>4, <1>14
<1>16. Filled(a, next, p) \in Int /\ (~FairCopy => Filled(a, next, p) = next - a.rcv_nxt_)
  BY <1>2, <1>4 DEF Filled
<1>17. e.flow_remaining_ \in Int
  BY <1>2, <1>14, <1>16 DEF Rest
<1>18. /\ ~FairCopy /\ e.rcv_nxt_ = a.rcv_nxt_ => e.flow_remaining_ = a.flow_remaining_
       /\ ~FairCopy /\ e.rcv_nxt_ # a.rcv_nxt_ =>
             e.flow_remaining_ = Rest(a.flow_remaining_, e.rcv_nxt_ - a.rcv_nxt_)
  <2>1. next > a.rcv_nxt_ <=> next # a.rcv_nxt_
    BY <1>2, <1>4
  <2>. QED BY <2>1, <1>14, <1>16
<1>19. e.rqfin = NoFin \/ (e.rqfin \in Int /\ e.rqfin > k.c /\ ~k.o)
  BY <1>5, <1>14
<1>20. ROk(e, k)
  BY <1>13, <1>14, <1>15, <1>17, <1>18, <1>19, RAdvance
<1>21. Take(a, p).agent = e /\ (Take(a, p).fin => r.fin)
  BY <1>0
<1>22. ends => ~k.o /\ e.rcv_nxt_ > k.c
  BY <1>5, <1>8, <1>14
<1>. QED BY <1>9, <1>14, <1>20, <1>21, <1>22

\* Take, in order or not, keeps the invariant.
LEMMA RTake ==
    ASSUME NEW a, NEW k, ROk(a, k), RK(k), a.state_ \notin {"LISTEN", "CLOSED"},
           NEW p, RSegment(p, k)
    PROVE  LET t == Take(a, p)
           IN /\ ROk(t.agent, k) /\ t.agent.state_ = a.state_
              /\ t.fin => ~k.o /\ t.agent.rcv_nxt_ > k.c
<1>1. CASE p.seqno = a.rcv_nxt_ /\ a.rq_ = {} /\ a.rqfin = NoFin
  BY <1>1, RTakeInOrder
<1>2. CASE ~(p.seqno = a.rcv_nxt_ /\ a.rq_ = {} /\ a.rqfin = NoFin)
  BY <1>2, RTakeQueued
<1>. QED BY <1>1, <1>2

\* The receiver leaves the states before the FIN.
LEMMA RNewstate ==
    ASSUME NEW a, NEW k, ROk(a, k), ~k.q, a.state_ \notin {"LISTEN", "CLOSED"},
           NEW b, DOMAIN b = Fields, \A f \in RSaid \ {"state_"} : b[f] = a[f],
           "NEEDCLOSE" \notin b.flags_, b.state_ \in {"CLOSED", "CLOSE_WAIT"} \cup Fin
    PROVE  ROk(b, k)
<1>1. /\ b.rcv_nxt_ = a.rcv_nxt_ /\ b.rq_ = a.rq_ /\ b.rqfin = a.rqfin
      /\ b.flow_remaining_ = a.flow_remaining_ /\ b.close_on_empty_ = a.close_on_empty_
      /\ b.out = a.out
  BY DEF RSaid
<1>2. b.state_ \notin Named /\ b.state_ # "LISTEN"
  BY DEF Named, Fin
<1>3. RTyped(b, k)
  BY <1>1 DEF ROk, RTyped
<1>4. RData(b, k) /\ ROut(b, k)
  BY <1>1 DEF ROk, RData, ROut
<1>5. RStates(b, k)
  BY <1>1, <1>2 DEF ROk, RStates
<1>. QED BY <1>3, <1>4, <1>5 DEF ROk

\* The FIN of the sender takes a number of its own.
LEMMA RTakeFin ==
    ASSUME NEW a, NEW k, ROk(a, k), RK(k), ~k.o, a.rcv_nxt_ > k.c,
           a.state_ \notin {"LISTEN", "CLOSE_WAIT", "CLOSING", "CLOSED"}
    PROVE  ROk(TakeFin(a), k) /\ TakeFin(a).state_ \notin {"LISTEN", "SYN_SENT"}
<1> DEFINE b == [raise(a, "ACKNOW") EXCEPT !.rcv_nxt_ = @ + 1]
           c == TakeFin(a)
<1>1. DOMAIN a = Fields /\ a.rcv_nxt_ \in Int /\ k.c \in Nat /\ ~k.q
  BY DEF ROk, RTyped, RK
<1>2. /\ DOMAIN b = Fields /\ b.rcv_nxt_ = a.rcv_nxt_ + 1
      /\ \A f \in RSaid \ {"rcv_nxt_"} : b[f] = a[f]
      /\ b.flags_ = a.flags_ \cup {"ACKNOW"}
  BY <1>1, FieldsAre DEF raise, RSaid
<1>3. PICK s \in {"CLOSE_WAIT", "CLOSING", "CLOSED", "FIN_WAIT_1", "FIN_WAIT_2", "LAST_ACK"} :
         c \in {b, newstate(b, s), newstate(cancel_timers(b), s)} /\ (c = b => s = a.state_)
  <2>1. a.state_ \in {"SYN_RECEIVED", "ESTABLISHED", "FIN_WAIT_1", "FIN_WAIT_2", "LAST_ACK"}
    BY DEF ROk, RTyped, Fin
  <2>2. a.state_ \in {"SYN_RECEIVED", "ESTABLISHED"} => c = newstate(b, "CLOSE_WAIT")
    BY DEF TakeFin
  <2>3. a.state_ = "FIN_WAIT_1" => c = newstate(b, "CLOSING")
    BY DEF TakeFin
  <2>4. a.state_ = "FIN_WAIT_2" => c = newstate(cancel_timers(b), "CLOSED")
    BY DEF TakeFin
  <2>5. a.state_ = "LAST_ACK" => c = b
    BY DEF TakeFin
  <2>6. newstate(b, "CLOSE_WAIT").state_ = "CLOSE_WAIT" /\ newstate(b, "CLOSING").state_ = "CLOSING"
        /\ newstate(cancel_timers(b), "CLOSED").state_ = "CLOSED"
    BY <1>2, FieldsAre DEF newstate, cancel_timers
  <2>7. b.state_ = a.state_
    BY <1>2 DEF RSaid
  <2>. HIDE DEF b, c
  <2>8. CASE a.state_ \in {"SYN_RECEIVED", "ESTABLISHED"}
    BY <2>2, <2>6, <2>7, <2>8
  <2>9. CASE a.state_ = "FIN_WAIT_1"
    BY <2>3, <2>6, <2>7, <2>9
  <2>10. CASE a.state_ = "FIN_WAIT_2"
    BY <2>4, <2>6, <2>7, <2>10
  <2>11. CASE a.state_ = "LAST_ACK"
    BY <2>5, <2>11
  <2>. QED BY <2>1, <2>8, <2>9, <2>10, <2>11
<1>4. b.state_ = a.state_
  BY <1>2 DEF RSaid
<1>. HIDE DEF b, c
<1>5. /\ DOMAIN c = Fields /\ c.state_ = s
      /\ \A f \in RSaid \ {"state_"} : c[f] = b[f]
      /\ c.flags_ = b.flags_
  <2>1. CASE c = b
    BY <1>2, <1>3, <1>4, <2>1
  <2>2. CASE c # b
    <3>1. c \in {[b EXCEPT !.state_ = s], [[b EXCEPT !.rtx_timer_ = FALSE] EXCEPT !.state_ = s]}
      BY <1>3, <2>2 DEF newstate, cancel_timers
    <3>2. DOMAIN b = Fields
      BY <1>2
    <3>3. /\ DOMAIN c = Fields /\ c.state_ = s
          /\ \A f \in Fields \ {"state_", "rtx_timer_"} : c[f] = b[f]
      BY <3>1, <3>2, FieldsAre
    <3>. QED BY <3>3, FieldsAre DEF RSaid
  <2>. QED BY <2>1, <2>2
<1>6. /\ c.rcv_nxt_ = a.rcv_nxt_ + 1 /\ c.rq_ = a.rq_ /\ c.rqfin = a.rqfin
      /\ c.flow_remaining_ = a.flow_remaining_ /\ c.close_on_empty_ = a.close_on_empty_
      /\ c.out = a.out /\ c.flags_ = a.flags_ \cup {"ACKNOW"}
  BY <1>2, <1>5 DEF RSaid
<1>7. RTyped(c, k)
  BY <1>1, <1>5, <1>6 DEF ROk, RTyped, Fin
<1>8. RData(c, k)
  BY <1>1, <1>6 DEF ROk, RData, Known
<1>9. s \notin Named
  BY DEF Named
<1>10. RStates(c, k)
  BY <1>1, <1>5, <1>6, <1>9 DEF ROk, RStates, Named
<1>11. ROut(c, k)
  <2>1. \A p : ToSender(p, k.c, k.G, k.q, k.o, a.rcv_nxt_) =>
               ToSender(p, k.c, k.G, k.q, k.o, a.rcv_nxt_ + 1)
    BY <1>1 DEF ToSender
  <2>. QED BY <1>6, <2>1 DEF ROk, ROut, AllToSender
<1>. QED BY <1>5, <1>7, <1>8, <1>10, <1>11 DEF ROk, c

\* usrclosed of the receiver keeps the invariant.
LEMMA RUsrclosed ==
    ASSUME NEW a, NEW k, ROk(a, k), RK(k), ~k.q, a.state_ \in {"ESTABLISHED", "CLOSE_WAIT"}, NEW w
    PROVE  ROk(usrclosed(a, w), k)
<1> DEFINE b == newstate(raise([a EXCEPT !.curseq_ = a.maxseq_ - 1], "NEEDFIN"),
                         AfterClose[a.state_])
<1>1. usrclosed(a, w) = send_much(b, TRUE, w)
  BY DEF usrclosed, AfterClose
<1>2. DOMAIN a = Fields /\ "NEEDCLOSE" \notin a.flags_
  BY DEF ROk, RTyped
<1>3. AfterClose[a.state_] \in {"FIN_WAIT_1", "LAST_ACK"}
  BY DEF AfterClose
<1>4. /\ DOMAIN b = Fields /\ b.state_ = AfterClose[a.state_]
      /\ \A f \in RSaid \ {"state_"} : b[f] = a[f]
      /\ b.flags_ = a.flags_ \cup {"NEEDFIN"}
  BY <1>2, FieldsAre DEF newstate, raise, RSaid
<1>. HIDE DEF b
<1>5. ROk(b, k)
  BY <1>2, <1>3, <1>4, RNewstate DEF Fin
<1>. QED BY <1>1, <1>5, RSendMuch

\* Answer of the receiver keeps the invariant.
LEMMA RAnswer ==
    ASSUME NEW a, NEW k, ROk(a, k), RK(k), NEW needoutput, NEW w
    PROVE  ROk(Answer(a, needoutput, w), k)
<1> DEFINE force == needoutput \/ "ACKNOW" \in a.flags_
           b == IF force \/ a.curseq_ >= a.highest_ack_ THEN send_much(a, force, w) ELSE a
<1>1. Answer(a, needoutput, w) = CloseWaiting(b, w)
  BY DEF Answer
<1>. HIDE DEF force
<1>2. ROk(b, k)
  BY RSendMuch
<1>. HIDE DEF b
<1>3. CASE b.state_ = "CLOSE_WAIT" /\ b.highest_ack_ = b.maxseq_
  <2>1. ~k.q
    BY <1>2, <1>3 DEF ROk, RStates, Named
  <2>2. ROk(usrclosed(b, w), k)
    BY <1>2, <1>3, <2>1, RUsrclosed
  <2>. QED BY <1>1, <1>3, <2>2 DEF CloseWaiting
<1>4. CASE ~(b.state_ = "CLOSE_WAIT" /\ b.highest_ack_ = b.maxseq_)
  BY <1>1, <1>2, <1>4 DEF CloseWaiting
<1>. QED BY <1>3, <1>4

\* step6 of the receiver keeps the invariant.
LEMMA RStep6 ==
    ASSUME NEW a, NEW k, ROk(a, k), RK(k), a.state_ # "LISTEN",
           NEW p, a.state_ # "CLOSED" => RSegment(p, k), NEW needoutput, NEW w
    PROVE  ROk(step6(a, p, needoutput, w), k)
<1>1. CASE (p.len > 0 \/ "FIN" \in p.flags) /\ a.state_ \notin HaveReceivedFin
  <2> DEFINE t == Take(a, p)
             b == t.agent
             need == needoutput \/ need_send(b)
             c == IF t.fin THEN TakeFin(b) ELSE b
  <2>1. step6(a, p, needoutput, w) = Answer(c, need, w)
    BY <1>1 DEF step6, Taken
  <2>2. ROk(b, k) /\ b.state_ = a.state_ /\ (t.fin => ~k.o /\ b.rcv_nxt_ > k.c)
    BY <1>1, RTake DEF HaveReceivedFin
  <2>. HIDE DEF need, b
  <2>3. t.fin => ROk(TakeFin(b), k)
    BY <1>1, <2>2, RTakeFin DEF HaveReceivedFin
  <2>4. ROk(c, k)
    BY <2>2, <2>3
  <2>. HIDE DEF c, t
  <2>. QED BY <2>1, <2>4, RAnswer
<1>2. CASE ~((p.len > 0 \/ "FIN" \in p.flags) /\ a.state_ \notin HaveReceivedFin)
  <2>1. step6(a, p, needoutput, w) = Answer(a, needoutput, w)
    BY <1>2 DEF step6
  <2>. QED BY <2>1, RAnswer
<1>. QED BY <1>1, <1>2

\* dropafterack of the receiver keeps the invariant.
LEMMA RDropafterack ==
    ASSUME NEW a, NEW k, ROk(a, k), RK(k), NEW w
    PROVE  ROk(dropafterack(a, w), k)
<1> DEFINE b == raise(a, "ACKNOW")
<1>1. RLike(a, b)
  BY FieldsAre DEF raise, RLike, RSaid, ROk, RTyped
<1>. HIDE DEF b
<1>2. ROk(b, k)
  BY <1>1, RAlike
<1>. QED BY <1>2, RSendMuch DEF dropafterack, b

\* process_ACK of the receiver, whose own data is none.
LEMMA RProcessACK ==
    ASSUME NEW a, NEW k, ROk(a, k), RK(k), a.state_ \notin {"LISTEN", "CLOSED"},
           NEW p, RSegment(p, k), NEW w
    PROVE  ROk(process_ACK(a, p, w), k)
<1> DEFINE partial == /\ a.fastrecov_ /\ p.ackno >= a.highest_ack_
                      /\ p.ackno < a.recover_
           c == AckAction(a, p, partial)
           all == p.ackno = a.maxseq_
           need == all /\ a.state_ # "FIN_WAIT_1"
           x == cancel_timers(c)
           d == IF all THEN AllAcked(c) ELSE c
           z == newstate(c, "CLOSED")
<1>1. process_ACK(a, p, w) =
         CASE p.ackno > a.maxseq_ -> dropafterack(a, w)
           [] all /\ a.state_ = "LAST_ACK" -> reset(z)
           [] OTHER -> step6(d, p, need, w)
  BY DEF process_ACK
<1>2. DOMAIN a = Fields
  BY DEF ROk, RTyped
<1>3. RLike(a, c)
  <2> DEFINE n == newack(a, p.ackno)
             m == ClearToAck(n)
  <2>1. RLike(a, n) /\ n.flags_ = a.flags_
    BY <1>2, FieldsAre DEF newack, RLike, RSaid
  <2>2. DOMAIN n = Fields
    BY <2>1 DEF RLike
  <2>. HIDE DEF n
  <2>3. RLike(n, m) /\ m.flags_ = n.flags_
    BY <2>2, FieldsAre DEF ClearToAck, RLike, RSaid
  <2>4. DOMAIN m = Fields
    BY <2>3 DEF RLike
  <2>5. /\ pack_action(n) = [m EXCEPT !.pipe_ = IF n.pipectrl_ THEN @ - MaxSeg ELSE @]
        /\ ack_action(n) = [m EXCEPT !.fastrecov_ = FALSE, !.pipectrl_ = FALSE,
                                     !.pipe_ = 0, !.dupacks_ = 0]
    BY DEF pack_action, ack_action
  <2>. HIDE DEF m
  <2>6. RLike(m, pack_action(n)) /\ RLike(m, ack_action(n))
    BY <2>4, <2>5, FieldsAre DEF RLike, RSaid
  <2>7. c \in {pack_action(n), ack_action(n)}
    BY DEF AckAction, n
  <2>. QED BY <2>1, <2>3, <2>6, <2>7 DEF RLike
<1>. HIDE DEF partial, need, c
<1>4. ROk(c, k) /\ c.state_ = a.state_ /\ DOMAIN c = Fields /\ "NEEDCLOSE" \notin c.flags_
  <2>1. ROk(c, k) /\ c.state_ = a.state_
    BY <1>3, RAlike
  <2>. QED BY <2>1 DEF ROk, RTyped
<1>5. ROk(dropafterack(a, w), k)
  BY RDropafterack
<1>6. a.state_ = "LAST_ACK" => ROk(reset(z), k)
  <2>. SUFFICES ASSUME a.state_ = "LAST_ACK"
                PROVE  ROk(reset(z), k)
    OBVIOUS
  <2>1. ~k.q
    BY DEF ROk, RStates, Named
  <2>2. /\ DOMAIN z = Fields /\ z.state_ = "CLOSED"
        /\ \A f \in RSaid \ {"state_"} : z[f] = c[f]
        /\ z.flags_ = c.flags_
    BY <1>4, FieldsAre DEF newstate, RSaid
  <2>. HIDE DEF z
  <2>3. /\ DOMAIN reset(z) = Fields /\ reset(z).rcv_nxt_ = -1 /\ reset(z).rq_ = {}
        /\ reset(z).rqfin = NoFin /\ reset(z).flow_remaining_ = -1
        /\ reset(z).close_on_empty_ = FALSE /\ reset(z).flags_ = {}
        /\ reset(z).state_ = z.state_ /\ reset(z).out = z.out
    BY <2>2 DEF reset, Fresh, Created, Fields
  <2> DEFINE y == reset(z)
  <2>4. y.state_ = "CLOSED" /\ y.out = c.out
    BY <2>2, <2>3 DEF RSaid
  <2>. HIDE DEF y
  <2>5. RTyped(y, k)
    BY <2>3, <2>4 DEF RTyped, y
  <2>6. RData(y, k)
    BY <2>3 DEF RData, Known, RK, y
  <2>7. RStates(y, k)
    BY <2>1, <2>4 DEF RStates, Named
  <2>8. ROut(y, k)
    <3>1. \A q : ToSender(q, k.c, k.G, k.q, k.o, c.rcv_nxt_) =>
                 ToSender(q, k.c, k.G, k.q, k.o, y.rcv_nxt_)
      BY <2>1 DEF ToSender
    <3>. QED BY <1>4, <2>4, <3>1 DEF ROk, ROut, AllToSender
  <2>. QED BY <2>5, <2>6, <2>7, <2>8 DEF ROk, y
<1>7. ROk(d, k) /\ d.state_ # "LISTEN"
  <2>1. CASE all /\ c.state_ \in {"FIN_WAIT_1", "CLOSING"}
    <3>1. PICK s \in {"FIN_WAIT_2", "CLOSED"} : d = newstate(x, s)
      BY <2>1 DEF AllAcked
    <3>2. d = [[c EXCEPT !.rtx_timer_ = FALSE] EXCEPT !.state_ = s]
      BY <3>1 DEF newstate, cancel_timers
    <3>3. ~k.q
      BY <1>4, <2>1 DEF ROk, RStates, Named
    <3>. HIDE DEF d
    <3>4. /\ DOMAIN d = Fields /\ d.state_ = s /\ d.flags_ = c.flags_
          /\ \A f \in RSaid \ {"state_"} : d[f] = c[f]
      BY <1>4, <3>2, FieldsAre DEF RSaid
    <3>5. d.state_ \in {"CLOSED", "CLOSE_WAIT"} \cup Fin /\ c.state_ \notin {"LISTEN", "CLOSED"}
      BY <1>4, <3>4 DEF Fin
    <3>6. ROk(d, k)
      BY <1>4, <3>3, <3>4, <3>5, RNewstate
    <3>. QED BY <3>4, <3>6
  <2>2. CASE ~(all /\ c.state_ \in {"FIN_WAIT_1", "CLOSING"})
    <3>1. d = c
      BY <2>2 DEF AllAcked
    <3>. QED BY <1>4, <3>1
  <2>. QED BY <2>1, <2>2
<1>. HIDE DEF d, all, z
<1>8. ROk(step6(d, p, need, w), k)
  BY <1>7, RStep6
<1>9. process_ACK(a, p, w) \in {dropafterack(a, w), reset(z), step6(d, p, need, w)}
          /\ (a.state_ # "LAST_ACK" =>
                 process_ACK(a, p, w) \in {dropafterack(a, w), step6(d, p, need, w)})
  BY <1>1
<1>. QED BY <1>5, <1>6, <1>8, <1>9

\* Fast retransmit of the receiver, which has no data.
LEMMA RDupack ==
    ASSUME NEW a, NEW k, ROk(a, k), RK(k), NEW w, NEW ecnCut
    PROVE  ROk(dupack_action(a, w, ecnCut), k)
<1> DEFINE b == [a EXCEPT !.fastrecov_ = TRUE, !.rtx_timer_ = FALSE,
                          !.recover_ = a.maxseq_, !.pipectrl_ = TRUE,
                          !.pipe_ = InFlight(a)]
           o == foutput(b, a.highest_ack_, w)
           c == [o.agent EXCEPT !.h_seqno_ = a.highest_ack_ + o.amt]
           d == [a EXCEPT !.fastrecov_ = TRUE,
                          !.pipe_ = IF a.pipectrl_ THEN InFlight(a) ELSE @]
<1>1. RLike(a, b) /\ RLike(a, d)
  BY FieldsAre DEF RLike, RSaid, ROk, RTyped
<1>2. dupack_action(a, w, ecnCut) =
         IF a.highest_ack_ > a.recover_ \/ ecnCut THEN send_much(c, FALSE, w) ELSE d
  BY DEF dupack_action, Resent
<1>. HIDE DEF b, d
<1>3. ROk(b, k) /\ ROk(d, k)
  BY <1>1, RAlike
<1>4. ROk(o.agent, k)
  BY <1>3, RFoutput
<1>. HIDE DEF o
<1>5. PICK e : e = o.agent
  OBVIOUS
<1>6. RLike(e, c)
  BY <1>4, <1>5, FieldsAre DEF RLike, RSaid, ROk, RTyped
<1>. HIDE DEF c
<1>7. ROk(send_much(c, FALSE, w), k)
  BY <1>4, <1>5, <1>6, RAlike, RSendMuch
<1>. QED BY <1>2, <1>3, <1>7

\* Every acknowledgement the receiver gets.
LEMMA RProcessAck ==
    ASSUME NEW a, NEW k, ROk(a, k), RK(k), a.state_ \notin {"LISTEN", "CLOSED"},
           NEW p, RSegment(p, k), NEW duplicate, NEW w, NEW ecnCut
    PROVE  ROk(ProcessAck(a, p, duplicate, w, ecnCut), k)
<1> DEFINE b == process_sack(a, p.sack)
           c == IF a.fastrecov_ /\ a.pipectrl_ /\ (p.len = 0 \/ p.ackno > a.highest_ack_)
                THEN [b EXCEPT !.pipe_ = @ - MaxSeg] ELSE b
           other == p.len > 0 \/ duplicate
           stale == ~c.rtx_timer_ \/ p.ackno < c.highest_ack_
           n == [c EXCEPT !.dupacks_ = Least(@ + 1, RexmtThresh + 1)]
           z == [c EXCEPT !.dupacks_ = 0]
           d == IF other THEN c ELSE IF stale THEN z ELSE n
<1>1. ProcessAck(a, p, duplicate, w, ecnCut) =
         IF p.ackno <= a.highest_ack_ THEN OldAck(c, p, duplicate, w, ecnCut)
         ELSE process_ACK(c, p, w)
  BY DEF ProcessAck
<1>2. OldAck(c, p, duplicate, w, ecnCut) \in
         {step6(d, p, FALSE, w), dupack_action(n, w, ecnCut), send_much(n, FALSE, w)}
  BY DEF OldAck
<1>3. RLike(a, b) /\ DOMAIN b = Fields
  BY FieldsAre DEF process_sack, RLike, RSaid, ROk, RTyped
<1>. HIDE DEF b
<1>4. RLike(b, c) /\ DOMAIN c = Fields
  BY <1>3, FieldsAre DEF RLike, RSaid
<1>. HIDE DEF c
<1>5. ROk(c, k) /\ c.state_ = a.state_
  BY <1>3, <1>4, RAlike
<1>6. RLike(c, n) /\ RLike(c, z)
  BY <1>4, FieldsAre DEF RLike, RSaid
<1>. HIDE DEF n, z
<1>7. ROk(n, k) /\ ROk(z, k) /\ n.state_ = a.state_ /\ z.state_ = a.state_
  BY <1>5, <1>6, RAlike
<1>8. ROk(d, k) /\ d.state_ = a.state_
  BY <1>5, <1>7
<1>. HIDE DEF d
<1>9. ROk(step6(d, p, FALSE, w), k)
  BY <1>8, RStep6
<1>10. ROk(dupack_action(n, w, ecnCut), k) /\ ROk(send_much(n, FALSE, w), k)
  BY <1>7, RDupack, RSendMuch
<1>11. ROk(process_ACK(c, p, w), k)
  BY <1>5, RProcessACK
<1>. QED BY <1>1, <1>2, <1>9, <1>10, <1>11

\* A packet that came for the receiver, and whose bytes have arrived with it.
RIn(p, k) ==
    /\ ToReceiver(p, k.c, k.E, k.o)
    /\ p.seqno .. p.seqno + p.len - 1 \subseteq k.G

\* Trim cuts off only bytes the receiver has.
LEMMA RTrim ==
    ASSUME NEW a, NEW k, ROk(a, k), RK(k), a.state_ \notin {"LISTEN", "CLOSED"},
           NEW p, RIn(p, k)
    PROVE  LET t == Trim(a, p)
           IN RLike(a, t.agent) /\ RSegment(t.packet, k) /\ "SYN" \notin t.packet.flags
<1> DEFINE syn   == "SYN" \in p.flags
           first == IF syn THEN p.seqno + 1 ELSE p.seqno
           over  == a.rcv_nxt_ - first
           dup   == over > p.len \/ (over = p.len /\ "FIN" \notin p.flags)
           cut   == IF dup THEN p.len ELSE over
           fl == p.flags \ (IF dup THEN {"SYN", "FIN"} ELSE {"SYN"})
           q == [p EXCEPT !.seqno = first + cut, !.len = @ - cut,
                          !.flags = @ \ (IF dup THEN {"SYN", "FIN"} ELSE {"SYN"})]
<1>1. /\ DOMAIN a = Fields /\ a.rcv_nxt_ \in Int /\ a.rcv_nxt_ >= 1
      /\ DOMAIN p = PacketFields /\ p.seqno \in Int /\ p.len \in Nat
      /\ p.len > 0 => p.seqno >= 1 /\ p.seqno + p.len <= k.E + 1
      /\ "FIN" \in p.flags => ~k.o /\ p.seqno + p.len > k.c
      /\ syn => p.seqno = 0 /\ p.len = 0 /\ "FIN" \notin p.flags
      /\ p.seqno .. p.seqno + p.len - 1 \subseteq k.G
  BY DEF ROk, RTyped, RStates, RIn, ToReceiver
<1>2. CASE a.rcv_nxt_ <= p.seqno \/ ~(syn \/ p.len > 0)
  <2>1. Trim(a, p).agent = a /\ Trim(a, p).packet = p
    BY <1>2 DEF Trim
  <2>2. ~syn
    BY <1>1, <1>2
  <2>3. RLike(a, a)
    BY <1>1 DEF RLike
  <2>4. RSegment(p, k)
    BY <1>1 DEF RSegment
  <2>. QED BY <2>1, <2>2, <2>3, <2>4
<1>3. CASE ~(a.rcv_nxt_ <= p.seqno \/ ~(syn \/ p.len > 0))
  <2>1. /\ Trim(a, p).packet = q
        /\ Trim(a, p).agent = IF dup THEN raise(a, "ACKNOW") ELSE a
    BY <1>3 DEF Trim
  <2>2. RLike(a, Trim(a, p).agent)
    <3>1. RLike(a, a) /\ RLike(a, raise(a, "ACKNOW"))
      BY <1>1, FieldsAre DEF RLike, RSaid, raise
    <3>. QED BY <2>1, <3>1
  <2>3. first \in Int /\ over \in Int /\ over >= 0 /\ first >= p.seqno
        /\ (p.len > 0 => first = p.seqno) /\ ("FIN" \in p.flags => first = p.seqno)
    BY <1>1, <1>3
  <2>. HIDE DEF first, over
  <2>4. /\ cut \in Nat /\ cut <= p.len
        /\ "FIN" \in fl => "FIN" \in p.flags
    BY <1>1, <2>3
  <2>. HIDE DEF cut, dup
  <2>5. q.seqno = first + cut /\ q.len = p.len - cut /\ q.flags = fl
    BY <1>1 DEF PacketFields
  <2>6. "SYN" \notin fl
    OBVIOUS
  <2>. HIDE DEF q, fl
  <2>7. q.seqno \in Int /\ q.len \in Nat /\ q.seqno + q.len = first + p.len /\ q.seqno >= first
        /\ (q.len > 0 => p.len > 0)
    BY <1>1, <2>3, <2>4, <2>5
  <2>8. \A y \in q.seqno .. q.seqno + q.len - 1 : y \in p.seqno .. p.seqno + p.len - 1
    BY <1>1, <2>3, <2>7
  <2>9. RSegment(q, k)
    <3>1. q.len > 0 => q.seqno >= 1 /\ q.seqno + q.len <= k.E + 1
      BY <1>1, <2>3, <2>7
    <3>2. "FIN" \in q.flags => ~k.o /\ q.seqno + q.len > k.c
      BY <1>1, <2>3, <2>4, <2>5, <2>7
    <3>3. q.seqno .. q.seqno + q.len - 1 \subseteq k.G
      BY <1>1, <2>8
    <3>. QED BY <2>7, <3>1, <3>2, <3>3 DEF RSegment
  <2>. QED BY <2>1, <2>2, <2>5, <2>6, <2>9
<1>. QED BY <1>2, <1>3

\* A connection opens.
LEMMA ROpened ==
    ASSUME NEW a, NEW k, ROk(a, k), a.state_ = "SYN_RECEIVED"
    PROVE  ROk(Opened(a), k) /\ Opened(a).state_ \notin {"LISTEN", "CLOSED"}
<1>1. DOMAIN a = Fields /\ "NEEDCLOSE" \notin a.flags_
  BY DEF ROk, RTyped
<1>2. CASE "NEEDFIN" \in a.flags_
  <2> DEFINE b == [newstate(a, "FIN_WAIT_1") EXCEPT !.flags_ = @ \ {"NEEDFIN"}]
  <2>1. Opened(a) = b
    BY <1>2 DEF Opened
  <2>2. /\ DOMAIN b = Fields /\ b.state_ = "FIN_WAIT_1" /\ b.flags_ = a.flags_ \ {"NEEDFIN"}
        /\ \A f \in RSaid \ {"state_"} : b[f] = a[f]
    BY <1>1, FieldsAre DEF newstate, RSaid
  <2>. HIDE DEF b
  <2>3. ~k.q
    BY <1>2 DEF ROk, RStates
  <2>4. ROk(b, k)
    BY <1>1, <2>2, <2>3, RNewstate DEF Fin
  <2>. QED BY <2>1, <2>2, <2>4
<1>3. CASE "NEEDFIN" \notin a.flags_
  <2> DEFINE b == newstate(a, "ESTABLISHED")
  <2>1. Opened(a) = b
    BY <1>3 DEF Opened
  <2>2. /\ DOMAIN b = Fields /\ b.state_ = "ESTABLISHED" /\ b.flags_ = a.flags_
        /\ \A f \in RSaid \ {"state_"} : b[f] = a[f]
    BY <1>1, FieldsAre DEF newstate, RSaid
  <2>. HIDE DEF b
  <2>3. /\ b.rcv_nxt_ = a.rcv_nxt_ /\ b.rq_ = a.rq_ /\ b.rqfin = a.rqfin
        /\ b.flow_remaining_ = a.flow_remaining_ /\ b.close_on_empty_ = a.close_on_empty_
        /\ b.out = a.out
    BY <2>2 DEF RSaid
  <2>4. RTyped(b, k)
    BY <2>2, <2>3 DEF ROk, RTyped
  <2>5. RData(b, k) /\ ROut(b, k)
    BY <2>3 DEF ROk, RData, ROut
  <2>6. RStates(b, k)
    BY <2>2, <2>3 DEF ROk, RStates, Named
  <2>. QED BY <2>1, <2>2, <2>4, <2>5, <2>6 DEF ROk
<1>. QED BY <1>2, <1>3

\* recv of the receiver in the states after LISTEN.
LEMMA RRecvOther ==
    ASSUME NEW a, NEW k, ROk(a, k), RK(k), a.state_ \notin {"LISTEN", "CLOSED"},
           NEW p, RIn(p, k), NEW w, NEW ecnCut
    PROVE  ROk(RecvOther(a, p, w, ecnCut), k)
<1> DEFINE t == Trim(a, p)
           b == t.agent
           q == t.packet
           c == IF b.state_ = "SYN_RECEIVED" THEN Opened(b) ELSE b
<1>1. RLike(a, b) /\ RSegment(q, k) /\ "SYN" \notin q.flags
  BY RTrim
<1>2. RecvOther(a, p, w, ecnCut) = RecvTrimmed(b, q, t.duplicate, w, ecnCut)
  BY DEF RecvOther
<1>. HIDE DEF t, b, q
<1>3. ROk(b, k) /\ b.state_ = a.state_
  BY <1>1, RAlike
<1>4. RecvTrimmed(b, q, t.duplicate, w, ecnCut) \in
        {b, ProcessAck(c, q, t.duplicate, w, ecnCut)}
      \/ ("ACK" \in q.flags /\ RecvTrimmed(b, q, t.duplicate, w, ecnCut) = dropwithreset(b, q))
  BY <1>1 DEF RecvTrimmed
<1>5. ROk(c, k) /\ c.state_ \notin {"LISTEN", "CLOSED"}
  BY <1>3, ROpened
<1>. HIDE DEF c
<1>6. ROk(ProcessAck(c, q, t.duplicate, w, ecnCut), k)
  BY <1>1, <1>5, RProcessAck
<1>7. "ACK" \in q.flags => ROk(dropwithreset(b, q), k)
  BY <1>3, RSendpacket DEF dropwithreset
<1>. QED BY <1>2, <1>3, <1>4, <1>6, <1>7

\* recv of the receiver in LISTEN.
LEMMA RRecvListen ==
    ASSUME NEW a, NEW k, ROk(a, k), RK(k), a.state_ = "LISTEN",
           NEW p, ToReceiver(p, k.c, k.E, k.o), NEW w
    PROVE  ROk(RecvListen(a, p, w), k)
<1> DEFINE b == [newstate(raise(a, "ACKNOW"), "SYN_RECEIVED") EXCEPT
                     !.t_seqno_ = ISS, !.rcv_nxt_ = p.seqno + p.len + 1]
           q == [p EXCEPT !.seqno = @ + 1]
<1>1. CASE "ACK" \in p.flags
  <2>1. RecvListen(a, p, w) = sendpacket(a, p.ackno, 0, {}, 0)
    BY <1>1 DEF RecvListen, dropwithreset
  <2>. QED BY <2>1, RSendpacket
<1>2. CASE "ACK" \notin p.flags /\ "SYN" \notin p.flags
  BY <1>2 DEF RecvListen
<1>3. CASE "ACK" \notin p.flags /\ "SYN" \in p.flags
  <2>1. RecvListen(a, p, w) = step6(b, q, FALSE, w)
    BY <1>3 DEF RecvListen
  <2>2. /\ DOMAIN p = PacketFields /\ p.seqno = 0 /\ p.len = 0 /\ "FIN" \notin p.flags
        /\ DOMAIN a = Fields /\ a.rcv_nxt_ \in Int /\ a.rcv_nxt_ <= 1
        /\ k.c \in Nat /\ k.E \in Nat
    BY <1>3 DEF ToReceiver, ROk, RTyped, RStates, RK
  <2>3. /\ DOMAIN b = Fields /\ b.state_ = "SYN_RECEIVED" /\ b.rcv_nxt_ = 1
        /\ b.flags_ = a.flags_ \cup {"ACKNOW"}
        /\ b.rq_ = a.rq_ /\ b.rqfin = a.rqfin
        /\ b.flow_remaining_ = a.flow_remaining_ /\ b.close_on_empty_ = a.close_on_empty_
        /\ b.out = a.out
    BY <2>2, FieldsAre DEF newstate, raise
  <2>4. q.seqno = 1 /\ q.len = 0 /\ q.flags = p.flags
    BY <2>2 DEF PacketFields
  <2>. HIDE DEF b, q
  <2>5. RTyped(b, k)
    BY <2>3 DEF ROk, RTyped
  <2>6. RData(b, k)
    BY <2>2, <2>3 DEF ROk, RData, Known
  <2>7. RStates(b, k)
    <3>1. Left(k.E, 1) = Left(k.E, a.rcv_nxt_)
      BY <2>2 DEF Left, Largest
    <3>2. k.q => 1 >= k.m
      BY <2>2 DEF ROk, RStates, RK
    <3>. QED BY <2>2, <2>3, <3>1, <3>2 DEF ROk, RStates, Named
  <2>8. ROut(b, k)
    <3>1. \A m : ToSender(m, k.c, k.G, k.q, k.o, a.rcv_nxt_) =>
                 ToSender(m, k.c, k.G, k.q, k.o, b.rcv_nxt_)
      BY <2>2, <2>3 DEF ToSender
    <3>. QED BY <2>3, <3>1 DEF ROk, ROut, AllToSender
  <2>9. ROk(b, k)
    BY <2>5, <2>6, <2>7, <2>8 DEF ROk
  <2>10. RSegment(q, k)
    BY <2>2, <2>4 DEF RSegment
  <2>11. ROk(step6(b, q, FALSE, w), k)
    BY <2>3, <2>9, <2>10, RStep6
  <2>. QED BY <2>1, <2>11
<1>. QED BY <1>1, <1>2, <1>3

\* recv of the receiver keeps the invariant, in every state.
LEMMA RRecv ==
    ASSUME NEW a0, NEW k, ROk(a0, k), RK(k),
           NEW p, ToReceiver(p, k.c, k.E, k.o),
           a0.state_ \notin {"LISTEN", "CLOSED"} => p.seqno .. p.seqno + p.len - 1 \subseteq k.G,
           NEW w, NEW ecnCut
    PROVE  ROk(recv(a0, p, w, ecnCut), k)
<1> DEFINE a == [a0 EXCEPT !.prob_mode_ = FALSE, !.prob_count_ = 0]
<1>1. RLike(a0, a) /\ DOMAIN a = Fields
  BY FieldsAre DEF RLike, RSaid, ROk, RTyped
<1>2. recv(a0, p, w, ecnCut) =
        CASE a.state_ = "CLOSED" -> IF "FIN" \in p.flags THEN dropafterack(a, w) ELSE a
         [] PredictedAck(a, p, w) -> send_much(newack(a, p.ackno), FALSE, w)
         [] PredictedData(a, p) -> AfterPredicted(Take(a, p).agent, w)
         [] a.state_ = "LISTEN" -> RecvListen(a, p, w)
         [] a.state_ = "SYN_SENT" -> RecvSynSent(a, p, w)
         [] a.state_ = "LAST_ACK" /\ "FIN" \in p.flags -> a
         [] OTHER -> RecvOther(a, p, w, ecnCut)
  BY DEF recv
<1>. HIDE DEF a
<1>3. ROk(a, k) /\ a.state_ = a0.state_
  BY <1>1, RAlike
<1>4. a.state_ \notin {"LISTEN", "CLOSED"} => RIn(p, k)
  BY <1>3 DEF RIn
<1>5. PredictedAck(a, p, w) \/ PredictedData(a, p) => a.state_ = "ESTABLISHED"
  BY DEF PredictedAck, PredictedData, predict_ok
<1>6. CASE a.state_ = "CLOSED"
  <2>1. ROk(dropafterack(a, w), k)
    BY <1>3, RDropafterack
  <2>. QED BY <1>2, <1>3, <1>5, <1>6, <2>1
<1>7. CASE PredictedAck(a, p, w)
  <2> DEFINE b == newack(a, p.ackno)
  <2>1. RLike(a, b)
    BY <1>1, FieldsAre DEF newack, RLike, RSaid
  <2>. HIDE DEF b
  <2>2. ROk(send_much(b, FALSE, w), k)
    BY <1>3, <2>1, RAlike, RSendMuch
  <2>3. ~PredictedData(a, p)
    BY <1>7 DEF PredictedAck, PredictedData
  <2>. QED BY <1>2, <1>5, <1>7, <2>2, <2>3 DEF b
<1>8. CASE PredictedData(a, p)
  <2> DEFINE b == Take(a, p).agent
  <2>1. RSegment(p, k)
    BY <1>4, <1>5, <1>8 DEF RIn, ToReceiver, RSegment
  <2>2. ROk(b, k)
    BY <1>3, <1>5, <1>8, <2>1, RTake
  <2>. HIDE DEF b
  <2>3. ROk(AfterPredicted(b, w), k)
    BY <2>2, RSendMuch DEF AfterPredicted
  <2>4. ~PredictedAck(a, p, w)
    BY <1>8 DEF PredictedAck, PredictedData
  <2>. QED BY <1>2, <1>5, <1>8, <2>3, <2>4 DEF b
<1>9. CASE a.state_ = "LISTEN"
  <2>1. ROk(RecvListen(a, p, w), k)
    BY <1>3, <1>9, RRecvListen
  <2>. QED BY <1>2, <1>5, <1>9, <2>1
<1>10. CASE /\ a.state_ \notin {"CLOSED", "LISTEN"}
            /\ ~PredictedAck(a, p, w) /\ ~PredictedData(a, p)
  <2>1. ROk(RecvOther(a, p, w, ecnCut), k)
    BY <1>3, <1>4, <1>10, RRecvOther
  <2>2. a.state_ # "SYN_SENT"
    BY <1>3 DEF ROk, RTyped, Fin
  <2>. QED BY <1>2, <1>3, <1>10, <2>1, <2>2
<1>. QED BY <1>6, <1>7, <1>8, <1>9, <1>10

\* The receiver's timer.
LEMMA RTimeout ==
    ASSUME NEW a, NEW k, ROk(a, k), RK(k), NEW w
    PROVE  ROk(timeout([a EXCEPT !.rtx_timer_ = FALSE], w), k)
<1> DEFINE c == [a EXCEPT !.rtx_timer_ = FALSE]
           b == timeout_action(c)
<1>1. RLike(a, c) /\ DOMAIN c = Fields
  BY FieldsAre DEF RLike, RSaid, ROk, RTyped
<1>. HIDE DEF c
<1>2. RLike(c, b)
  BY <1>1, FieldsAre DEF timeout_action, RLike, RSaid
<1>. HIDE DEF b
<1>3. ROk(send_much(b, TRUE, w), k)
  BY <1>1, <1>2, RAlike, RSendMuch
<1>. QED BY <1>3 DEF timeout, b, c

------------------------------------------------------------------------------
(* The messages *)

\* The last bytes of the first messages.
IsEnd(f, messages, m) ==
    f = [j \in 0 .. m |-> IF j = 0 THEN ISS ELSE f[j - 1] + messages[j].len]

\* Every prefix of the messages has its last bytes.
LEMMA EndExists ==
    ASSUME NEW messages, NEW m \in Nat
    PROVE  \E f : IsEnd(f, messages, m)
<1> DEFINE S == {j \in Nat : \E f : IsEnd(f, messages, j)}
<1>1. 0 \in S
  <2> DEFINE g == [n \in 0 .. 0 |-> ISS]
  <2>1. g = [n \in 0 .. 0 |-> IF n = 0 THEN ISS ELSE g[n - 1] + messages[n].len]
    OBVIOUS
  <2>2. IsEnd(g, messages, 0)
    BY <2>1 DEF IsEnd
  <2>. QED BY <2>2
<1>2. ASSUME NEW j \in S
      PROVE  j + 1 \in S
  <2>1. PICK f : IsEnd(f, messages, j)
    OBVIOUS
  <2> DEFINE step(g, n) == IF n = 0 THEN ISS ELSE g[n - 1] + messages[n].len
             h == [n \in 0 .. j + 1 |-> IF n <= j THEN f[n] ELSE step(f, n)]
  <2>2. f = [n \in 0 .. j |-> step(f, n)]
    BY <2>1 DEF IsEnd
  <2>. HIDE DEF step
  <2>3. \A n \in 0 .. j : h[n] = f[n]
    OBVIOUS
  <2>4. \A n \in 0 .. j + 1 : h[n] = step(f, n)
    BY <2>2
  <2>5. \A n \in 0 .. j + 1 : step(h, n) = step(f, n)
    <3>. SUFFICES ASSUME NEW n \in 0 .. j + 1
                  PROVE  step(h, n) = step(f, n)
      OBVIOUS
    <3>1. n # 0 => h[n - 1] = f[n - 1]
      BY <2>3
    <3>. HIDE DEF h
    <3>. QED BY <3>1 DEF step
  <2>6. h = [n \in 0 .. j + 1 |-> step(h, n)]
    <3>1. h = [n \in 0 .. j + 1 |-> step(f, n)]
      BY <2>4
    <3>. HIDE DEF h
    <3>. QED BY <3>1, <2>5
  <2>. HIDE DEF h
  <2>7. IsEnd(h, messages, j + 1)
    BY <2>6 DEF step, IsEnd
  <2>. QED BY <2>7
<1>. HIDE DEF S
<1>3. m \in S
  BY <1>1, <1>2, SetInduction DEF S
<1>. QED BY <1>3 DEF S

\* Each message ends after the one before.
LEMMA EndGrows ==
    ASSUME NEW messages \in Scripts, NEW f, IsEnd(f, messages, Len(messages))
    PROVE  /\ Len(messages) \in Nat
           /\ f \in [0 .. Len(messages) -> Nat] /\ f[0] = 0
           /\ \A i, j \in 0 .. Len(messages) : i < j => f[i] < f[j]
           /\ \A i \in 1 .. Len(messages) :
                 /\ f[i] = f[i - 1] + messages[i].len
                 /\ messages[i].len \in Nat /\ messages[i].len > 0
                 /\ messages[i].flag \in {"DAT_EOF", "MSG_EOF"}
<1> DEFINE m == Len(messages)
<1>1. /\ m \in Nat
      /\ \A i \in 1 .. m : /\ messages[i].len \in Nat /\ messages[i].len > 0
                           /\ messages[i].flag \in {"DAT_EOF", "MSG_EOF"}
  <2> DEFINE M == [len : Nat \ {0}, flag : {"DAT_EOF", "MSG_EOF"}]
  <2>1. messages \in Seq(M)
    BY FullTcpAssumption
  <2>2. \A x \in M : x.len \in Nat /\ x.len > 0 /\ x.flag \in {"DAT_EOF", "MSG_EOF"}
    OBVIOUS
  <2>. HIDE DEF M
  <2>3. \A i \in 1 .. m : messages[i] \in M
    BY <2>1
  <2>. QED BY <2>1, <2>2, <2>3
<1>2. /\ DOMAIN f = 0 .. m /\ f[0] = 0
      /\ \A i \in 1 .. m : f[i] = f[i - 1] + messages[i].len
  <2>1. \A i \in 0 .. m : f[i] = IF i = 0 THEN ISS ELSE f[i - 1] + messages[i].len
    BY DEF IsEnd
  <2>2. \A i \in 1 .. m : i \in 0 .. m /\ i # 0
    BY <1>1
  <2>3. 0 \in 0 .. m
    BY <1>1
  <2>. QED BY <2>1, <2>2, <2>3 DEF IsEnd, ISS
<1>. HIDE DEF m
<1> DEFINE S == {i \in Nat : i <= m => \A j \in 0 .. i : f[j] \in Nat /\ (j < i => f[j] < f[i])}
<1>3. 0 \in S
  BY <1>2
<1>4. ASSUME NEW i \in S
      PROVE  i + 1 \in S
  <2>. SUFFICES ASSUME i + 1 <= m
                PROVE  \A j \in 0 .. i + 1 : f[j] \in Nat /\ (j < i + 1 => f[j] < f[i + 1])
    OBVIOUS
  <2>1. i + 1 \in 1 .. m /\ i <= m /\ i \in Nat
    BY <1>1
  <2>2. \A j \in 0 .. i : f[j] \in Nat /\ (j < i => f[j] < f[i])
    BY <2>1
  <2>3. /\ f[i + 1] = f[i] + messages[i + 1].len
        /\ messages[i + 1].len \in Nat /\ messages[i + 1].len > 0
    BY <1>1, <1>2, <2>1
  <2>4. f[i] \in Nat
    BY <2>1, <2>2
  <2>5. f[i + 1] \in Nat /\ f[i] < f[i + 1]
    BY <2>3, <2>4
  <2>6. ASSUME NEW j \in 0 .. i + 1
        PROVE  f[j] \in Nat /\ (j < i + 1 => f[j] < f[i + 1])
    <3>1. CASE j = i + 1
      BY <3>1, <2>1, <2>5
    <3>2. CASE j = i
      BY <3>2, <2>4, <2>5
    <3>3. CASE j \in 0 .. i /\ j < i
      <4>1. f[j] \in Nat /\ f[j] < f[i]
        BY <3>3, <2>2
      <4>. QED BY <4>1, <2>4, <2>5
    <3>. QED BY <3>1, <3>2, <3>3, <2>1
  <2>. QED BY <2>6
<1>. HIDE DEF S
<1>5. \A i \in Nat : i \in S
  <2>1. S \in SUBSET Nat
    BY DEF S
  <2>. QED BY <1>3, <1>4, <2>1, SetInduction
<1>6. \A i \in 0 .. m : \A j \in 0 .. i : f[j] \in Nat /\ (j < i => f[j] < f[i])
  BY <1>5, <1>1 DEF S
<1>10. \A i \in 0 .. m : f[i] \in Nat
  <2>1. \A i \in 0 .. m : i \in 0 .. i
    BY <1>1
  <2>. QED BY <1>6, <2>1
<1>7. f = [i \in 0 .. m |-> f[i]]
  BY <1>2 DEF IsEnd, m
<1>8. f \in [0 .. m -> Nat]
  BY <1>10, <1>7
<1>9. \A i, j \in 0 .. m : i < j => f[i] < f[j]
  <2>. SUFFICES ASSUME NEW i \in 0 .. m, NEW j \in 0 .. m, i < j
                PROVE  f[i] < f[j]
    OBVIOUS
  <2>1. i \in 0 .. j
    BY <1>1
  <2>. QED BY <1>6, <2>1
<1>. QED BY <1>1, <1>2, <1>8, <1>9 DEF m

\* The last bytes of this connection's messages.
LEMMA EndIs ==
    script \in Scripts => IsEnd(End, script, Len(script))
<1>. SUFFICES ASSUME script \in Scripts
              PROVE  IsEnd(End, script, Len(script))
  OBVIOUS
<1>1. Len(script) \in Nat
  <2>1. script \in Seq([len : Nat \ {0}, flag : {"DAT_EOF", "MSG_EOF"}])
    BY FullTcpAssumption
  <2>. QED BY <2>1
<1>2. \E f : IsEnd(f, script, Len(script))
  BY <1>1, EndExists
<1>3. End = CHOOSE f : IsEnd(f, script, Len(script))
  BY DEF End, IsEnd
<1>. QED BY <1>2, <1>3

------------------------------------------------------------------------------
(* What one agent does leaves the other's invariant *)

\* More is known, l for k, and the sender a is as it was.
SLess(a, k, l) ==
    /\ l.s = k.s /\ l.e = k.e
    /\ k.G \subseteq l.G /\ l.G \subseteq 1 .. k.e[a.connection_]
    /\ (l.q => k.q) /\ (k.q /\ ~l.q => ~a.signal_on_empty_)
    /\ l.q => k.n <= l.n
    /\ l.m = a.connection_ /\ a.curseq_ <= l.x /\ (a.state_ \in Open => l.p)
    /\ Waits(a) => l.w

\* The sender's invariant outlives what the receiver does, and close.
LEMMA SWeaker ==
    ASSUME NEW a, NEW k, NEW l, KOk(k), KOk(l), SOk(a, k), SLess(a, k, l)
    PROVE  SOk(a, l)
<1>1. STyped(a, l)
  BY DEF SOk, SMid, SCore, STyped, SLess
<1>2. SAcked(a, l)
  BY DEF SOk, SMid, SCore, SAcked, SLess, Known
<1>3. IsOpen(a, l) => IsOpen(a, k)
  BY DEF SLess, IsOpen
<1>4. SStates(a, l)
  <2>1. a.highest_ack_ \in Int /\ k.n \in Int /\ l.n \in Int
    BY DEF SOk, SMid, SCore, STyped, KOk
  <2>. QED BY <1>3, <2>1 DEF SOk, SMid, SCore, SStates, SLess
<1>5. SOut(a, l)
  <2>1. a.curseq_ \in Int /\ k.e[a.connection_] \in Int /\ l.e = k.e
    BY DEF SOk, SMid, SCore, STyped, SLess, KOk
  <2>. QED BY <1>3, <2>1, StillToReceiver DEF SOk, SMid, SCore, SOut
<1>6. SPrio(a, l)
  <2>1. \A prio, twice, c : Near(prio, twice, c, k) => Near(prio, twice, c, l)
    BY NearMore DEF SLess
  <2>2. \A p : NearPacket(p, k) => NearPacket(p, l)
    BY <2>1 DEF NearPacket
  <2>3. SPrio(a, k) /\ l.e = k.e /\ (Waits(a) => l.w)
    BY DEF SOk, SMid, SCore, SLess
  <2>. QED BY <2>1, <2>2, <2>3 DEF SPrio
<1>. QED BY <1>1, <1>2, <1>4, <1>5, <1>6 DEF SOk, SMid, SCore

\* More is known, l for k, to an agent whose next byte is n.
RLess(n, k, l) ==
    /\ l.c <= k.c /\ l.E = k.E /\ k.G \subseteq l.G
    /\ (l.q => k.q) /\ (l.o => k.o) /\ (l.q => l.m <= n)

\* A packet for the sender stays what it was.
LEMMA StillToSender ==
    ASSUME NEW p, NEW n \in Int, NEW u \in Int, NEW k, NEW l, RK(k), RK(l), RLess(n, k, l),
           ToSender(p, k.c, k.G, k.q, k.o, n), l.q => n <= u
    PROVE  ToSender(p, l.c, l.G, l.q, l.o, u)
<1>1. p.ackno \in Int /\ Known(p.ackno, l.c, l.G) /\ p.sack \subseteq l.G
  BY DEF ToSender, RLess, Known, RK
<1>2. l.o => p.ackno <= l.c + 1
  BY DEF ToSender, RLess, RK
<1>3. l.q => (p.ackno <= 0 \/ p.ackno <= u) /\ "FIN" \notin p.flags
  BY DEF ToSender, RLess
<1>. QED BY <1>1, <1>2, <1>3 DEF ToSender

\* The receiver's invariant outlives what the sender does with one message.
LEMMA RWeaker ==
    ASSUME NEW a, NEW k, NEW l, RK(k), RK(l), ROk(a, k), RLess(a.rcv_nxt_, k, l)
    PROVE  ROk(a, l)
<1>1. RTyped(a, l) /\ a.rcv_nxt_ \in Int
  BY DEF ROk, RTyped
<1>2. RData(a, l)
  <2>1. Known(a.rcv_nxt_, l.c, l.G) /\ a.rq_ \subseteq l.G
    BY <1>1 DEF ROk, RData, RLess, Known, RK
  <2>2. a.rqfin = NoFin \/ (a.rqfin \in Int /\ a.rqfin > l.c)
    BY DEF ROk, RData, RLess, RK
  <2>3. l.o => a.rcv_nxt_ <= l.c + 1 /\ a.rqfin = NoFin
    BY <1>1 DEF ROk, RData, RLess, RK
  <2>. QED BY <2>1, <2>2, <2>3 DEF RData
<1>3. RStates(a, l)
  BY DEF ROk, RStates, RLess
<1>4. ROut(a, l)
  <2> DEFINE n == a.rcv_nxt_
  <2>1. n \in Int /\ n <= n /\ RLess(n, k, l)
    BY <1>1
  <2>. HIDE DEF n
  <2>2. \A p : ToSender(p, k.c, k.G, k.q, k.o, n) => ToSender(p, l.c, l.G, l.q, l.o, n)
    BY <2>1, StillToSender
  <2>. QED BY <2>2 DEF ROk, ROut, AllToSender, n
<1>. QED BY <1>1, <1>2, <1>3, <1>4 DEF ROk

\* The sender starts a message of nb bytes: what is known, l for k.
RMore(k, l, nb) ==
    /\ nb \in Nat /\ nb > 0 /\ l.E = k.E + nb /\ l.G = k.G
    /\ k.q

\* Before the next message starts, the receiver has everything.
RReady(a, k) == a.rcv_nxt_ = k.E + 1 \/ (a.rcv_nxt_ <= 1 /\ k.E = 0)

\* A packet for the sender stays what it was when a message starts.
LEMMA MoreToSender ==
    ASSUME NEW p, NEW n \in Int, NEW k, NEW l, NEW nb, RK(k), RK(l), RMore(k, l, nb),
           ToSender(p, k.c, k.G, k.q, k.o, n)
    PROVE  ToSender(p, l.c, l.G, l.q, l.o, n)
<1>1. p.ackno \in Int /\ p.ackno <= k.c + 1 /\ k.c = k.E /\ k.c \in Nat
  BY DEF ToSender, RMore, RK
<1>2. Known(p.ackno, l.c, l.G)
  BY <1>1 DEF ToSender, RMore, Known, RK
<1>3. l.o => p.ackno <= l.c + 1
  BY <1>1 DEF RMore, RK
<1>. QED BY <1>2, <1>3 DEF ToSender, RMore

\* A packet for the receiver stays what it was when a message starts.
LEMMA MoreToReceiver ==
    ASSUME NEW p, NEW k, NEW l, NEW nb, RK(k), RK(l), RMore(k, l, nb),
           ToReceiver(p, k.c, k.E, k.o)
    PROVE  ToReceiver(p, l.c, l.E, l.o)
<1>1. "FIN" \notin p.flags
  BY DEF ToReceiver, RMore, RK
<1>2. p.len > 0 => p.seqno >= 1 /\ p.seqno + p.len <= l.E + 1
  BY DEF ToReceiver, RMore, RK
<1>. QED BY <1>1, <1>2 DEF ToReceiver

\* The receiver's countdown starts with the message.
LEMMA RStart ==
    ASSUME NEW a, NEW k, NEW l, NEW nb, RK(k), RK(l), ROk(a, k), RMore(k, l, nb), RReady(a, k),
           l.q => l.m <= a.rcv_nxt_
    PROVE  ROk([a EXCEPT !.flow_remaining_ = nb], l)
<1> DEFINE b == [a EXCEPT !.flow_remaining_ = nb]
<1>1. /\ DOMAIN b = Fields /\ b.flow_remaining_ = nb
      /\ \A f \in Fields \ {"flow_remaining_"} : b[f] = a[f]
  BY FieldsAre DEF ROk, RTyped
<1>. HIDE DEF b
<1>2. /\ b.state_ = a.state_ /\ b.rcv_nxt_ = a.rcv_nxt_ /\ b.rq_ = a.rq_ /\ b.rqfin = a.rqfin
      /\ b.close_on_empty_ = a.close_on_empty_ /\ b.flags_ = a.flags_ /\ b.out = a.out
  BY <1>1, FieldsAre
<1>3. /\ a.rcv_nxt_ \in Int /\ k.o /\ k.c = k.E /\ k.E \in Nat /\ l.c \in Nat /\ l.E \in Nat
      /\ nb \in Nat /\ nb > 0 /\ l.E = k.E + nb
  BY DEF ROk, RTyped, RMore, RK
<1>4. RTyped(b, l)
  BY <1>1, <1>2, <1>3 DEF ROk, RTyped
<1>5. RData(b, l)
  <2>1. Known(a.rcv_nxt_, l.c, l.G) /\ a.rq_ \subseteq l.G
    BY <1>3 DEF ROk, RData, RMore, Known
  <2>2. a.rqfin = NoFin
    BY <1>3 DEF ROk, RData
  <2>3. l.o => a.rcv_nxt_ <= l.c + 1
    BY <1>3 DEF ROk, RData, RK
  <2>. QED BY <1>2, <2>1, <2>2, <2>3 DEF RData
<1>6. RStates(b, l)
  <2>1. Left(l.E, a.rcv_nxt_) = nb
    BY <1>3 DEF RReady, Left, Largest
  <2>2. a.rcv_nxt_ <= l.E + 1
    BY <1>3 DEF ROk, RData
  <2>3. a.state_ \in Named /\ "NEEDFIN" \notin a.flags_
    BY DEF ROk, RStates, RMore
  <2>. QED BY <1>1, <1>2, <2>1, <2>2, <2>3 DEF ROk, RStates, RMore
<1>7. ROut(b, l)
  BY <1>2, <1>3, MoreToSender DEF ROk, ROut, AllToSender
<1>. QED BY <1>4, <1>5, <1>6, <1>7 DEF ROk, b

------------------------------------------------------------------------------
(* The two agents and the network *)

\* What the sender knows of the connection: G has arrived, q: nobody has closed.
SView(s, r, messages, e, G, q) ==
    [s |-> messages, e |-> e, G |-> G, q |-> q, n |-> r.rcv_nxt_,
     m |-> s.connection_, x |-> s.curseq_, p |-> s.state_ \in Open, w |-> Waits(s)]

\* What the receiver knows of it.
RView(s, r, e, G, q) ==
    [c |-> s.curseq_, E |-> e[s.connection_], G |-> G, q |-> q \/ Waits(s),
     o |-> q \/ s.state_ \in Open, m |-> r.rcv_nxt_]

\* Every packet under way is one its agent can take.
NetOk(bag, k, n) ==
    \A m \in DOMAIN bag :
        \/ m[1] = "receiver" /\ ToReceiver(m[2], k.c, k.E, k.o)
        \/ m[1] = "sender" /\ ToSender(m[2], k.c, k.G, k.q, k.o, n)

\* The priority of every packet under way is what PrioNearRemaining says.
PrioNet(bag, k) ==
    Measured => \A m \in DOMAIN bag : m[1] = "receiver" => NearPacket(m[2], k)

\* The invariant of the connection, of the agents s and r and the packets in bag.
SysOk(s, r, bag, messages, e, G, q) ==
    /\ KOk(SView(s, r, messages, e, G, q))
    /\ SOk(s, SView(s, r, messages, e, G, q)) /\ s.out = <<>>
    /\ ROk(r, RView(s, r, e, G, q)) /\ r.out = <<>>
    /\ NetOk(bag, RView(s, r, e, G, q), r.rcv_nxt_)
    /\ PrioNet(bag, SView(s, r, messages, e, G, q))

\* The agent a once its packets are in the network.
Emptied(a) == [a EXCEPT !.out = <<>>]

\* What the receiver knows is consistent.
LEMMA RViewOk ==
    ASSUME NEW s, NEW k, KOk(k), SOk(s, k), NEW r, r.rcv_nxt_ \in Int
    PROVE  RK(RView(s, r, k.e, k.G, k.q))
<1>1. /\ s.curseq_ \in Nat /\ s.connection_ \in 0 .. Len(k.s)
      /\ k.e[s.connection_] \in Nat /\ s.curseq_ <= k.e[s.connection_]
  BY DEF SOk, SMid, SCore, STyped, KOk
<1>2. k.G \subseteq 1 .. k.e[s.connection_]
  BY DEF SOk, SMid, SCore, SAcked
<1>3. /\ k.q \/ s.state_ \in Open => s.curseq_ = k.e[s.connection_]
      /\ Waits(s) => s.state_ \in Open
  BY DEF SOk, SMid, SCore, SStates, IsOpen, Waits
<1>4. k.q \in BOOLEAN
  BY DEF KOk
<1>. QED BY <1>1, <1>2, <1>3, <1>4 DEF RK, RView

\* The two views fit together.
LEMMA Views ==
    ASSUME NEW s, NEW r, NEW bag, NEW messages, NEW e, NEW G, NEW q,
           SysOk(s, r, bag, messages, e, G, q)
    PROVE  RK(RView(s, r, e, G, q)) /\ r.rcv_nxt_ \in Int
<1> DEFINE k == SView(s, r, messages, e, G, q)
<1>1. KOk(k) /\ SOk(s, k) /\ r.rcv_nxt_ \in Int
  BY DEF SysOk, ROk, RTyped
<1>2. k.e = e /\ k.G = G /\ k.q = q
  BY DEF SView
<1>. HIDE DEF k
<1>3. RK(RView(s, r, k.e, k.G, k.q))
  BY <1>1, RViewOk
<1>. QED BY <1>1, <1>2, <1>3

\* An agent whose packets leave.
LEMMA SEmptied ==
    ASSUME NEW a, NEW k, SOk(a, k)
    PROVE  /\ SOk(Emptied(a), k) /\ Emptied(a).out = <<>>
           /\ \A f \in Fields \ {"out"} : Emptied(a)[f] = a[f]
<1> DEFINE b == Emptied(a)
<1>1. /\ DOMAIN b = Fields /\ b.out = <<>>
      /\ \A f \in Fields \ {"out"} : b[f] = a[f]
  BY FieldsAre DEF Emptied, SOk, SMid, SCore, STyped
<1>. HIDE DEF b
<1>2. /\ b.state_ = a.state_ /\ b.curseq_ = a.curseq_ /\ b.maxseq_ = a.maxseq_
      /\ b.highest_ack_ = a.highest_ack_ /\ b.t_seqno_ = a.t_seqno_ /\ b.h_seqno_ = a.h_seqno_
      /\ b.connection_ = a.connection_ /\ b.done = a.done
      /\ b.signal_on_empty_ = a.signal_on_empty_ /\ b.close_on_empty_ = a.close_on_empty_
      /\ b.sq_ = a.sq_ /\ b.flags_ = a.flags_ /\ b.rqfin = a.rqfin
      /\ b.seq_bound_ = a.seq_bound_ /\ b.last_prio_ = a.last_prio_ /\ b.twice = a.twice
  BY <1>1, FieldsAre
<1>3. STyped(b, k) /\ SAcked(b, k)
  BY <1>1, <1>2 DEF SOk, SMid, SCore, STyped, SAcked
<1>4. SStates(b, k)
  BY <1>2 DEF SOk, SMid, SCore, SStates, IsOpen
<1>5. SOut(b, k)
  BY <1>1 DEF SOut, AllToReceiver
<1>6. SPrio(b, k)
  <2>1. Waits(b) <=> Waits(a)
    BY <1>2 DEF Waits
  <2>2. DOMAIN b.out = {}
    BY <1>1
  <2>. QED BY <1>2, <2>1, <2>2 DEF SOk, SMid, SCore, SPrio
<1>. QED BY <1>1, <1>2, <1>3, <1>4, <1>5, <1>6 DEF SOk, SMid, SCore, b

\* The same of the receiver.
LEMMA REmptied ==
    ASSUME NEW a, NEW k, ROk(a, k)
    PROVE  /\ ROk(Emptied(a), k) /\ Emptied(a).out = <<>>
           /\ \A f \in Fields \ {"out"} : Emptied(a)[f] = a[f]
<1> DEFINE b == Emptied(a)
<1>1. /\ DOMAIN b = Fields /\ b.out = <<>>
      /\ \A f \in Fields \ {"out"} : b[f] = a[f]
  BY FieldsAre DEF Emptied, ROk, RTyped
<1>. HIDE DEF b
<1>2. /\ b.state_ = a.state_ /\ b.rcv_nxt_ = a.rcv_nxt_ /\ b.rq_ = a.rq_ /\ b.rqfin = a.rqfin
      /\ b.flow_remaining_ = a.flow_remaining_
      /\ b.close_on_empty_ = a.close_on_empty_ /\ b.flags_ = a.flags_
  BY <1>1, FieldsAre
<1>3. RTyped(b, k) /\ RData(b, k) /\ RStates(b, k)
  BY <1>1, <1>2 DEF ROk, RTyped, RData, RStates
<1>4. ROut(b, k)
  BY <1>1 DEF ROut, AllToSender
<1>. QED BY <1>1, <1>3, <1>4 DEF ROk, b

\* Packets join those under way.
LEMMA NetJoin ==
    ASSUME NEW bag, NEW k, NEW n, NetOk(bag, k, n), NEW x, NEW out,
           \/ x = "receiver" /\ AllToReceiver(out, k.c, k.E, k.o)
           \/ x = "sender" /\ AllToSender(out, n, k)
    PROVE  NetOk(bag (+) Sent(x, out), k, n)
<1> DEFINE new == Sent(x, out)
<1>1. DOMAIN (bag (+) new) = DOMAIN bag \cup DOMAIN new
  BY DEF (+)
<1>2. DOMAIN new = {<<x, out[i]>> : i \in DOMAIN out}
  BY DEF Sent
<1>. HIDE DEF new
<1>3. ASSUME NEW m \in DOMAIN new
      PROVE  \/ m[1] = "receiver" /\ ToReceiver(m[2], k.c, k.E, k.o)
             \/ m[1] = "sender" /\ ToSender(m[2], k.c, k.G, k.q, k.o, n)
  <2>1. PICK i \in DOMAIN out : m = <<x, out[i]>>
    BY <1>2
  <2>2. m[1] = x /\ m[2] = out[i]
    BY <2>1
  <2>. QED BY <2>2 DEF AllToReceiver, AllToSender
<1>4. NetOk(bag (+) new, k, n)
  BY <1>1, <1>3 DEF NetOk
<1>. QED BY <1>4 DEF new

\* Packets leave the network.
LEMMA NetLeave ==
    ASSUME NEW bag, NEW k, NEW n, NetOk(bag, k, n), NEW other
    PROVE  NetOk(bag (-) other, k, n)
<1>1. DOMAIN (bag (-) other) \subseteq DOMAIN bag
  BY DEF (-)
<1>. QED BY <1>1 DEF NetOk

\* The packets under way stay acceptable when more is known.
LEMMA NetWeaker ==
    ASSUME NEW bag, NEW k, NEW l, NEW n \in Int, NEW u \in Int, RK(k), RK(l), NetOk(bag, k, n),
           RLess(n, k, l), l.q => n <= u
    PROVE  NetOk(bag, l, u)
<1>1. \A p : ToSender(p, k.c, k.G, k.q, k.o, n) => ToSender(p, l.c, l.G, l.q, l.o, u)
  BY StillToSender
<1>2. \A p : ToReceiver(p, k.c, k.E, k.o) => ToReceiver(p, l.c, l.E, l.o)
  BY DEF ToReceiver, RLess, RK
<1>. QED BY <1>1, <1>2 DEF NetOk

\* Priorities stay near what remains: packets join, packets leave, more arrives.
LEMMA PrioJoin ==
    ASSUME NEW bag, NEW k, PrioNet(bag, k), NEW x, NEW out,
           x = "receiver" => (Measured => \A i \in DOMAIN out : NearPacket(out[i], k))
    PROVE  PrioNet(bag (+) Sent(x, out), k)
<1> DEFINE new == Sent(x, out)
<1>1. DOMAIN (bag (+) new) = DOMAIN bag \cup DOMAIN new
  BY DEF (+)
<1>2. DOMAIN new = {<<x, out[i]>> : i \in DOMAIN out}
  BY DEF Sent
<1>. HIDE DEF new
<1>3. ASSUME Measured, NEW m \in DOMAIN new, m[1] = "receiver"
      PROVE  NearPacket(m[2], k)
  <2>1. PICK i \in DOMAIN out : m = <<x, out[i]>>
    BY <1>2
  <2>2. m[1] = x /\ m[2] = out[i]
    BY <2>1
  <2>. QED BY <1>3, <2>2
<1>4. PrioNet(bag (+) new, k)
  BY <1>1, <1>3 DEF PrioNet
<1>. QED BY <1>4 DEF new

\* Packets leave the network.
LEMMA PrioLeave ==
    ASSUME NEW bag, NEW k, PrioNet(bag, k), NEW other
    PROVE  PrioNet(bag (-) other, k)
<1>1. DOMAIN (bag (-) other) \subseteq DOMAIN bag
  BY DEF (-)
<1>. QED BY <1>1 DEF PrioNet

\* More bytes have arrived.
LEMMA PrioWeaker ==
    ASSUME NEW bag, NEW k, NEW l, KOk(k), l.s = k.s, l.e = k.e, k.G \subseteq l.G,
           PrioNet(bag, k)
    PROVE  PrioNet(bag, l)
<1>1. \A prio, twice, c : Near(prio, twice, c, k) => Near(prio, twice, c, l)
  BY NearMore
<1>2. \A p : NearPacket(p, k) => NearPacket(p, l)
  BY <1>1 DEF NearPacket
<1>. QED BY <1>2 DEF PrioNet

\* The invariant after a step of the sender.
LEMMA SenderMoved ==
    ASSUME NEW s, NEW r, NEW bag, NEW messages, NEW e, NEW G, NEW q,
           SysOk(s, r, bag, messages, e, G, q),
           NEW a, SOk(a, SView(s, r, messages, e, G, q))
    PROVE  SysOk(Emptied(a), r, bag (+) Sent("receiver", a.out), messages, e, G, q)
<1> DEFINE b == Emptied(a)
           k == SView(s, r, messages, e, G, q)
           l == SView(b, r, messages, e, G, q)
           u == RView(s, r, e, G, q)
           v == RView(b, r, e, G, q)
<1>1. /\ KOk(k) /\ SOk(a, k) /\ ROk(r, u) /\ r.out = <<>> /\ NetOk(bag, u, r.rcv_nxt_)
      /\ PrioNet(bag, k)
  BY DEF SysOk
<1>2. RK(u) /\ r.rcv_nxt_ \in Int
  BY Views
<1>3. /\ k.s = messages /\ k.e = e /\ k.G = G /\ k.q = q /\ k.n = r.rcv_nxt_
      /\ k.m = s.connection_ /\ k.x = s.curseq_ /\ k.p = (s.state_ \in Open) /\ k.w = Waits(s)
      /\ l.s = messages /\ l.e = e /\ l.G = G /\ l.q = q /\ l.n = r.rcv_nxt_
      /\ l.m = b.connection_ /\ l.x = b.curseq_ /\ (b.state_ \in Open => l.p)
      /\ l.w = Waits(b)
  BY DEF SView
<1>4. /\ u.c = s.curseq_ /\ u.E = e[s.connection_] /\ u.G = G /\ u.q = (q \/ Waits(s))
      /\ u.o = (q \/ s.state_ \in Open)
      /\ v.c = b.curseq_ /\ v.E = e[b.connection_] /\ v.G = G /\ v.q = (q \/ Waits(b))
      /\ v.o = (q \/ b.state_ \in Open) /\ v.m = r.rcv_nxt_
  BY DEF RView
<1>5. v = RView(b, r, l.e, l.G, l.q)
  BY <1>3
<1>6. SOk(b, k) /\ b.out = <<>> /\ \A f \in Fields \ {"out"} : b[f] = a[f]
  BY <1>1, SEmptied
<1>. HIDE DEF b, k, l, u, v
<1>7. /\ b.curseq_ = a.curseq_ /\ b.connection_ = a.connection_ /\ b.state_ = a.state_
      /\ Waits(b) => Waits(s)
  <2>1. /\ b.curseq_ = a.curseq_ /\ b.connection_ = a.connection_ /\ b.state_ = a.state_
    BY <1>6, FieldsAre
  <2>2. Waits(b) => Waits(s)
    BY <1>3, <1>6 DEF SOk, SMid, SCore, SPrio
  <2>. QED BY <2>1, <2>2
<1>8. /\ a.curseq_ \in Nat /\ a.connection_ = s.connection_ /\ a.curseq_ <= s.curseq_
      /\ (a.state_ \in Open => s.state_ \in Open)
      /\ G \subseteq 1 .. e[a.connection_]
  BY <1>1, <1>3 DEF SOk, SMid, SCore, STyped, SAcked
<1>9. KOk(l)
  BY <1>1, <1>3, <1>7, <1>8 DEF KOk
<1>10. SOk(b, l)
  <2>1. k.n \in Int
    BY <1>1 DEF KOk
  <2>2. SLess(b, k, l)
    BY <2>1, <1>2, <1>3, <1>7, <1>8 DEF SLess
  <2>. QED BY <1>1, <1>6, <1>9, <2>2, SWeaker
<1>11. RK(v)
  BY <1>2, <1>5, <1>9, <1>10, RViewOk
<1>12. RLess(r.rcv_nxt_, u, v)
  <2>1. v.c <= u.c /\ v.E = u.E
    BY <1>4, <1>7, <1>8
  <2>2. (v.o => u.o) /\ (v.q => u.q)
    BY <1>4, <1>7, <1>8
  <2>. QED BY <2>1, <2>2, <1>2, <1>4 DEF RLess
<1>13. ROk(r, v)
  BY <1>1, <1>2, <1>11, <1>12, RWeaker
<1>14. NetOk(bag, v, r.rcv_nxt_)
  BY <1>1, <1>2, <1>11, <1>12, NetWeaker
<1>15. AllToReceiver(a.out, v.c, v.E, v.o)
  <2>1. SOut(a, k)
    BY <1>1 DEF SOk, SMid, SCore
  <2>2. v.c = a.curseq_ /\ v.E = k.e[a.connection_]
    BY <1>3, <1>4, <1>7
  <2>3. v.o <=> IsOpen(a, k)
    BY <1>3, <1>4, <1>7 DEF IsOpen
  <2>4. AllToReceiver(a.out, v.c, v.E, IsOpen(a, k))
    BY <2>1, <2>2 DEF SOut
  <2>. HIDE DEF v
  <2>. QED BY <2>3, <2>4 DEF AllToReceiver, ToReceiver
<1>16. NetOk(bag (+) Sent("receiver", a.out), v, r.rcv_nxt_)
  BY <1>14, <1>15, NetJoin
<1>17. PrioNet(bag (+) Sent("receiver", a.out), l)
  <2>1. Measured => \A i \in DOMAIN a.out : NearPacket(a.out[i], k)
    BY <1>1 DEF SOk, SMid, SCore, SPrio
  <2>2. PrioNet(bag (+) Sent("receiver", a.out), k)
    BY <1>1, <2>1, PrioJoin
  <2>3. l.s = k.s /\ l.e = k.e /\ k.G \subseteq l.G
    BY <1>3
  <2>. QED BY <1>1, <2>2, <2>3, PrioWeaker
<1>. QED BY <1>1, <1>6, <1>9, <1>10, <1>13, <1>16, <1>17 DEF SysOk, l, v, b

\* The invariant after a step of the receiver.
LEMMA ReceiverMoved ==
    ASSUME NEW s, NEW r, NEW bag, NEW messages, NEW e, NEW G, NEW q,
           SysOk(s, r, bag, messages, e, G, q),
           NEW a, ROk(a, RView(s, r, e, G, q))
    PROVE  SysOk(s, Emptied(a), bag (+) Sent("sender", a.out), messages, e, G, q)
<1> DEFINE b == Emptied(a)
           k == SView(s, r, messages, e, G, q)
           l == SView(s, b, messages, e, G, q)
           u == RView(s, r, e, G, q)
           v == RView(s, b, e, G, q)
<1>1. /\ KOk(k) /\ SOk(s, k) /\ s.out = <<>> /\ ROk(a, u) /\ NetOk(bag, u, r.rcv_nxt_)
      /\ PrioNet(bag, k)
  BY DEF SysOk
<1>2. RK(u) /\ r.rcv_nxt_ \in Int
  BY Views
<1>3. /\ k.s = messages /\ k.e = e /\ k.G = G /\ k.q = q /\ k.n = r.rcv_nxt_
      /\ k.m = s.connection_ /\ k.x = s.curseq_ /\ k.p = (s.state_ \in Open)
      /\ l.s = messages /\ l.e = e /\ l.G = G /\ l.q = q /\ l.n = b.rcv_nxt_
      /\ l.m = s.connection_ /\ l.x = s.curseq_ /\ (s.state_ \in Open => l.p)
      /\ (Waits(s) => l.w)
  BY DEF SView
<1>4. /\ u.c = s.curseq_ /\ u.E = e[s.connection_] /\ u.G = G /\ u.q = (q \/ Waits(s))
      /\ u.o = (q \/ s.state_ \in Open) /\ u.m = r.rcv_nxt_
      /\ v.c = s.curseq_ /\ v.E = e[s.connection_] /\ v.G = G /\ v.q = (q \/ Waits(s))
      /\ v.o = (q \/ s.state_ \in Open) /\ v.m = b.rcv_nxt_
  BY DEF RView
<1>5. v = RView(s, b, l.e, l.G, l.q)
  BY <1>3
<1>6. ROk(b, u) /\ b.out = <<>> /\ \A f \in Fields \ {"out"} : b[f] = a[f]
  BY <1>1, REmptied
<1>. HIDE DEF b, k, l, u, v
<1>7. b.rcv_nxt_ = a.rcv_nxt_
  BY <1>6, FieldsAre
<1>8. b.rcv_nxt_ \in Int /\ (u.q => b.rcv_nxt_ >= r.rcv_nxt_)
  BY <1>4, <1>6 DEF ROk, RTyped, RStates
<1>9. KOk(l)
  BY <1>1, <1>3, <1>8 DEF KOk
<1>10. SOk(s, l)
  <2>1. s.curseq_ \in Nat /\ G \subseteq 1 .. e[s.connection_]
    BY <1>1, <1>3 DEF SOk, SMid, SCore, STyped, SAcked
  <2>2. l.q => k.n <= l.n
    BY <1>3, <1>4, <1>8
  <2>3. /\ l.m = s.connection_ /\ s.curseq_ <= l.x /\ (s.state_ \in Open => l.p)
        /\ Waits(s) => l.w
    BY <2>1, <1>3
  <2>4. /\ l.s = k.s /\ l.e = k.e /\ l.q = k.q
        /\ k.G \subseteq l.G /\ l.G \subseteq 1 .. k.e[s.connection_]
    BY <2>1, <1>3
  <2>5. SLess(s, k, l)
    BY <2>2, <2>3, <2>4 DEF SLess
  <2>. QED BY <1>1, <1>9, <2>5, SWeaker
<1>11. RK(v)
  BY <1>5, <1>8, <1>9, <1>10, RViewOk
<1>12. /\ RLess(r.rcv_nxt_, u, [v EXCEPT !.m = r.rcv_nxt_])
       /\ RLess(b.rcv_nxt_, u, v)
  <2>1. u.c \in Nat
    BY <1>2 DEF RK
  <2>. QED BY <2>1, <1>2, <1>4, <1>8 DEF RLess
<1>13. ROk(b, v)
  BY <1>2, <1>6, <1>11, <1>12, RWeaker
<1>14. NetOk(bag, v, b.rcv_nxt_)
  <2>1. \A p : ToSender(p, u.c, u.G, u.q, u.o, r.rcv_nxt_) =>
               ToSender(p, v.c, v.G, v.q, v.o, b.rcv_nxt_)
    BY <1>2, <1>4, <1>8 DEF ToSender
  <2>2. \A p : ToReceiver(p, u.c, u.E, u.o) => ToReceiver(p, v.c, v.E, v.o)
    BY <1>4
  <2>. QED BY <1>1, <2>1, <2>2 DEF NetOk
<1>15. AllToSender(a.out, b.rcv_nxt_, v)
  BY <1>1, <1>4, <1>7 DEF ROk, ROut, AllToSender
<1>16. NetOk(bag (+) Sent("sender", a.out), v, b.rcv_nxt_)
  BY <1>14, <1>15, NetJoin
<1>17. PrioNet(bag (+) Sent("sender", a.out), l)
  <2>1. PrioNet(bag (+) Sent("sender", a.out), k)
    BY <1>1, PrioJoin
  <2>2. l.s = k.s /\ l.e = k.e /\ k.G \subseteq l.G
    BY <1>3
  <2>. QED BY <1>1, <2>1, <2>2, PrioWeaker
<1>. QED BY <1>1, <1>6, <1>9, <1>10, <1>13, <1>16, <1>17 DEF SysOk, l, v, b

\* Bytes that arrive join what is known to have arrived.
LEMMA BytesArrive ==
    ASSUME NEW s, NEW r, NEW bag, NEW messages, NEW e, NEW G, NEW q,
           SysOk(s, r, bag, messages, e, G, q),
           NEW H, G \subseteq H, H \subseteq 1 .. e[s.connection_]
    PROVE  SysOk(s, r, bag, messages, e, H, q)
<1> DEFINE k == SView(s, r, messages, e, G, q)
           l == SView(s, r, messages, e, H, q)
           u == RView(s, r, e, G, q)
           v == RView(s, r, e, H, q)
<1>1. /\ KOk(k) /\ SOk(s, k) /\ s.out = <<>> /\ ROk(r, u) /\ r.out = <<>>
      /\ NetOk(bag, u, r.rcv_nxt_) /\ PrioNet(bag, k)
  BY DEF SysOk
<1>2. RK(u) /\ r.rcv_nxt_ \in Int
  BY Views
<1>3. /\ k.s = messages /\ k.e = e /\ k.G = G /\ k.q = q /\ k.n = r.rcv_nxt_
      /\ k.m = s.connection_ /\ k.x = s.curseq_ /\ k.p = (s.state_ \in Open)
      /\ l.s = messages /\ l.e = e /\ l.G = H /\ l.q = q /\ l.n = r.rcv_nxt_
      /\ l.m = s.connection_ /\ l.x = s.curseq_ /\ (s.state_ \in Open => l.p)
      /\ (Waits(s) => l.w)
  BY DEF SView
<1>4. /\ u.c = s.curseq_ /\ u.E = e[s.connection_] /\ u.G = G /\ u.q = (q \/ Waits(s))
      /\ u.o = (q \/ s.state_ \in Open)
      /\ v.c = s.curseq_ /\ v.E = e[s.connection_] /\ v.G = H /\ v.q = (q \/ Waits(s))
      /\ v.o = (q \/ s.state_ \in Open) /\ v.m = r.rcv_nxt_
  BY DEF RView
<1>5. v = RView(s, r, l.e, l.G, l.q)
  BY <1>3
<1>. HIDE DEF k, l, u, v
<1>6. KOk(l)
  BY <1>1, <1>3 DEF KOk
<1>7. SOk(s, l)
  <2>1. s.curseq_ \in Nat
    BY <1>1, <1>3 DEF SOk, SMid, SCore, STyped
  <2>2. SLess(s, k, l)
    BY <2>1, <1>2, <1>3 DEF SLess
  <2>. QED BY <1>1, <1>6, <2>2, SWeaker
<1>8. RK(v)
  BY <1>2, <1>5, <1>6, <1>7, RViewOk
<1>9. RLess(r.rcv_nxt_, u, v)
  <2>1. u.c \in Nat
    BY <1>2 DEF RK
  <2>. QED BY <2>1, <1>2, <1>4 DEF RLess
<1>10. ROk(r, v) /\ NetOk(bag, v, r.rcv_nxt_)
  BY <1>1, <1>2, <1>8, <1>9, RWeaker, NetWeaker
<1>11. PrioNet(bag, l)
  BY <1>1, <1>3, PrioWeaker
<1>. QED BY <1>1, <1>6, <1>7, <1>10, <1>11 DEF SysOk, l, v

\* The application asks to close, nothing is outstanding.
LEMMA CloseAsked ==
    ASSUME NEW s, NEW r, NEW bag, NEW messages, NEW e, NEW G, NEW q,
           SysOk(s, r, bag, messages, e, G, q), ~s.signal_on_empty_, ~Waits(s)
    PROVE  SysOk(s, r, bag, messages, e, G, FALSE)
<1> DEFINE k == SView(s, r, messages, e, G, q)
           l == SView(s, r, messages, e, G, FALSE)
           u == RView(s, r, e, G, q)
           v == RView(s, r, e, G, FALSE)
<1>1. /\ KOk(k) /\ SOk(s, k) /\ s.out = <<>> /\ ROk(r, u) /\ r.out = <<>>
      /\ NetOk(bag, u, r.rcv_nxt_) /\ PrioNet(bag, k)
  BY DEF SysOk
<1>2. RK(u) /\ r.rcv_nxt_ \in Int
  BY Views
<1>3. /\ k.s = messages /\ k.e = e /\ k.G = G /\ k.q = q /\ k.n = r.rcv_nxt_
      /\ k.m = s.connection_ /\ k.x = s.curseq_ /\ k.p = (s.state_ \in Open)
      /\ l.s = messages /\ l.e = e /\ l.G = G /\ ~l.q /\ l.q = FALSE /\ l.n = r.rcv_nxt_
      /\ l.m = s.connection_ /\ l.x = s.curseq_ /\ (s.state_ \in Open => l.p)
  BY DEF SView
<1>4. /\ u.c = s.curseq_ /\ u.E = e[s.connection_] /\ u.G = G /\ u.q = (q \/ Waits(s))
      /\ u.o = (q \/ s.state_ \in Open)
      /\ v.c = s.curseq_ /\ v.E = e[s.connection_] /\ v.G = G /\ ~v.q
      /\ (v.o => u.o) /\ v.m = r.rcv_nxt_
  BY DEF RView
<1>5. v = RView(s, r, l.e, l.G, l.q)
  BY <1>3
<1>. HIDE DEF k, l, u, v
<1>6. KOk(l)
  BY <1>1, <1>3 DEF KOk
<1>7. SOk(s, l)
  <2>1. s.curseq_ \in Nat /\ G \subseteq 1 .. e[s.connection_]
    BY <1>1, <1>3 DEF SOk, SMid, SCore, STyped, SAcked
  <2>2. SLess(s, k, l)
    BY <2>1, <1>3 DEF SLess
  <2>. QED BY <1>1, <1>6, <2>2, SWeaker
<1>8. RK(v)
  BY <1>2, <1>5, <1>6, <1>7, RViewOk
<1>9. RLess(r.rcv_nxt_, u, v)
  <2>1. u.c \in Nat
    BY <1>2 DEF RK
  <2>. QED BY <2>1, <1>4 DEF RLess
<1>10. ROk(r, v) /\ NetOk(bag, v, r.rcv_nxt_)
  BY <1>1, <1>2, <1>4, <1>8, <1>9, RWeaker, NetWeaker
<1>11. PrioNet(bag, l)
  BY <1>1, <1>3, PrioWeaker
<1>. QED BY <1>1, <1>6, <1>7, <1>10, <1>11 DEF SysOk, l, v

\* When the next message may start, the receiver has all the bytes of those before.
LEMMA Ready ==
    ASSUME NEW s, NEW k, KOk(k), SOk(s, k), k.q, ~s.signal_on_empty_,
           s.state_ \in {"CLOSED", "ESTABLISHED"},
           NEW r, NEW u, ROk(r, u), RK(u), u.q, u.c = s.curseq_, u.E = k.e[s.connection_],
           r.rcv_nxt_ = k.n
    PROVE  RReady(r, u)
<1>1. r.rcv_nxt_ \in Int /\ u.E \in Nat /\ u.c = u.E /\ r.rcv_nxt_ <= u.c + 1
  BY DEF ROk, RTyped, RData, RK
<1>2. CASE s.state_ = "CLOSED"
  <2>1. s.connection_ = 0 /\ k.e[0] = 0
    BY <1>2 DEF SOk, SMid, SCore, SStates, KOk
  <2>. QED BY <1>1, <2>1 DEF RReady
<1>3. CASE s.state_ = "ESTABLISHED"
  <2>2. SStates(s, k) /\ s.state_ # "CLOSED"
    BY <1>3 DEF SOk, SMid, SCore
  <2>3. /\ s.highest_ack_ <= k.n
        /\ ~s.signal_on_empty_ => s.state_ = "CLOSED" \/ s.highest_ack_ = s.curseq_ + 1
    BY <2>2 DEF SStates
  <2>1. s.highest_ack_ = s.curseq_ + 1 /\ s.highest_ack_ <= k.n
    BY <2>2, <2>3
  <2>4. s.highest_ack_ = u.E + 1 /\ s.highest_ack_ <= r.rcv_nxt_
    BY <1>1, <2>1
  <2>5. u.E + 1 <= r.rcv_nxt_ /\ r.rcv_nxt_ <= u.E + 1
    BY <1>1, <2>4
  <2>6. r.rcv_nxt_ = u.E + 1
    BY <1>1, <2>5
  <2>. QED BY <2>6 DEF RReady
<1>. QED BY <1>2, <1>3

\* The invariant holds after the script has started a message of nb bytes.
StartedOk(s, r, bag, messages, e, G, nb, flag, w) ==
    LET a == sendmsg(s, nb, flag, w)
    IN SysOk(Emptied(a), [r EXCEPT !.flow_remaining_ = nb],
             bag (+) Sent("receiver", a.out), messages, e, G, flag = "DAT_EOF")

\* The script starts a message.
LEMMA Started ==
    ASSUME NEW s, NEW r, NEW bag, NEW messages, NEW e, NEW G,
           SysOk(s, r, bag, messages, e, G, TRUE),
           ~s.signal_on_empty_, s.state_ \in {"CLOSED", "ESTABLISHED"},
           s.connection_ + 1 <= Len(messages),
           NEW nb \in Nat, nb > 0, e[s.connection_ + 1] = e[s.connection_] + nb,
           NEW flag \in {"DAT_EOF", "MSG_EOF"}, flag = "MSG_EOF" => s.state_ = "ESTABLISHED",
           NEW w \in Nat
    PROVE  StartedOk(s, r, bag, messages, e, G, nb, flag, w)
<1> DEFINE i == s.connection_ + 1
           a == sendmsg(s, nb, flag, w)
           b == Emptied(a)
           c == [r EXCEPT !.flow_remaining_ = nb]
           q == flag = "DAT_EOF"
           k == SView(s, r, messages, e, G, TRUE)
           h == [s |-> messages, e |-> e, G |-> G, q |-> q, n |-> r.rcv_nxt_,
                 m |-> i, x |-> e[i], p |-> TRUE, w |-> TRUE]
           l == SView(b, c, messages, e, G, q)
           u == RView(s, r, e, G, TRUE)
           v == RView(b, c, e, G, q)
<1>1. /\ KOk(k) /\ SOk(s, k) /\ s.out = <<>> /\ ROk(r, u) /\ r.out = <<>>
      /\ NetOk(bag, u, r.rcv_nxt_) /\ PrioNet(bag, k)
  BY DEF SysOk
<1>2. RK(u) /\ r.rcv_nxt_ \in Int
  BY Views
<1>3. /\ k.s = messages /\ k.e = e /\ k.G = G /\ k.q = TRUE /\ k.q /\ k.n = r.rcv_nxt_
      /\ k.m = s.connection_
      /\ l.s = messages /\ l.e = e /\ l.G = G /\ l.q = q /\ l.n = c.rcv_nxt_
      /\ l.m = b.connection_ /\ l.x = b.curseq_ /\ (b.state_ \in Open => l.p)
      /\ (Waits(b) => l.w)
  BY DEF SView
<1>4. /\ h.s = messages /\ h.e = e /\ h.G = G /\ h.q = q /\ h.n = r.rcv_nxt_
      /\ h.m = i /\ h.x = e[i] /\ h.p = TRUE /\ h.w = TRUE
  OBVIOUS
<1>5. /\ u.c = s.curseq_ /\ u.E = e[s.connection_] /\ u.G = G /\ u.q /\ u.o
      /\ v.c = b.curseq_ /\ v.E = e[b.connection_] /\ v.G = G
      /\ v.m = c.rcv_nxt_ /\ (v.o => q \/ b.state_ \in Open)
  BY DEF RView
<1>6. v = RView(b, c, l.e, l.G, l.q)
  BY <1>3
<1>7. /\ DOMAIN c = Fields /\ c.rcv_nxt_ = r.rcv_nxt_ /\ c.out = r.out
  BY <1>1, FieldsAre DEF ROk, RTyped
<1>8. q \in BOOLEAN
  OBVIOUS
<1>9. /\ s.connection_ \in 0 .. Len(messages) /\ Len(messages) \in Nat
      /\ i \in 0 .. Len(messages) /\ e[i] \in Nat
  <2>1. /\ s.connection_ \in 0 .. Len(messages) /\ Len(messages) \in Nat
        /\ e \in [0 .. Len(messages) -> Nat]
    BY <1>1, <1>3 DEF SOk, SMid, SCore, STyped, KOk
  <2>2. i \in 0 .. Len(messages)
    BY <2>1
  <2>. QED BY <2>1, <2>2
<1>10. NextMessage(k, h, flag)
  BY <1>3, <1>4 DEF NextMessage
<1>. HIDE DEF k, h, l, u, v
<1>11. KOk(h)
  BY <1>1, <1>3, <1>4, <1>8, <1>9 DEF KOk
<1>12. SOk(a, h)
  <2>1. s.connection_ + 1 <= Len(k.s) /\ k.e[s.connection_ + 1] = k.e[s.connection_] + nb
    BY <1>3
  <2>. QED BY <1>1, <1>3, <1>10, <1>11, <2>1, SSendmsg
<1>. HIDE DEF a
<1>13. SOk(b, h) /\ b.out = <<>> /\ \A f \in Fields \ {"out"} : b[f] = a[f]
  BY <1>12, SEmptied
<1>. HIDE DEF b, c, q
<1>14. /\ b.curseq_ \in Nat /\ b.connection_ = i /\ G \subseteq 1 .. e[i]
       /\ a.curseq_ = b.curseq_ /\ a.connection_ = i /\ a.state_ = b.state_
  <2>1. a.curseq_ = b.curseq_ /\ a.connection_ = b.connection_ /\ a.state_ = b.state_
    BY <1>13, FieldsAre
  <2>2. b.curseq_ \in Nat /\ b.connection_ = i
    BY <1>4, <1>13 DEF SOk, SMid, SCore, STyped
  <2>3. G \subseteq 1 .. e[i]
    BY <1>4, <1>13, <2>2 DEF SOk, SMid, SCore, SAcked
  <2>. QED BY <2>1, <2>2, <2>3
<1>15. KOk(l)
  BY <1>3, <1>4, <1>7, <1>2, <1>11, <1>14 DEF KOk
<1>16. SOk(b, l)
  <2>1. SLess(b, h, l)
    BY <1>2, <1>3, <1>4, <1>7, <1>14 DEF SLess
  <2>. QED BY <1>11, <1>13, <1>15, <2>1, SWeaker
<1>17. RK(v)
  BY <1>2, <1>6, <1>7, <1>15, <1>16, RViewOk
<1>18. RMore(u, v, nb)
  BY <1>5, <1>14 DEF RMore
<1>19. RReady(r, u)
  BY <1>1, <1>2, <1>3, <1>5, Ready
<1>20. ROk(c, v)
  <2>1. v.q => v.m <= r.rcv_nxt_
    BY <1>2, <1>5, <1>7
  <2>. QED BY <1>1, <1>2, <1>17, <1>18, <1>19, <2>1, RStart DEF c
<1>21. NetOk(bag, v, c.rcv_nxt_)
  <2>1. \A p : ToSender(p, u.c, u.G, u.q, u.o, r.rcv_nxt_) =>
               ToSender(p, v.c, v.G, v.q, v.o, r.rcv_nxt_)
    BY <1>2, <1>17, <1>18, MoreToSender
  <2>2. \A p : ToReceiver(p, u.c, u.E, u.o) => ToReceiver(p, v.c, v.E, v.o)
    BY <1>2, <1>17, <1>18, MoreToReceiver
  <2>. QED BY <1>1, <1>7, <2>1, <2>2 DEF NetOk
<1>22. AllToReceiver(a.out, v.c, v.E, v.o)
  <2>1. AllToReceiver(a.out, v.c, v.E, IsOpen(a, h))
    BY <1>4, <1>5, <1>12, <1>14 DEF SOk, SMid, SCore, SOut
  <2>2. v.o => IsOpen(a, h)
    BY <1>4, <1>5, <1>14 DEF IsOpen
  <2>. QED BY <2>1, <2>2 DEF AllToReceiver, ToReceiver
<1>23. NetOk(bag (+) Sent("receiver", a.out), v, c.rcv_nxt_)
  BY <1>21, <1>22, NetJoin
<1>24. PrioNet(bag (+) Sent("receiver", a.out), l)
  <2>1. PrioNet(bag, h)
    BY <1>1, <1>3, <1>4, PrioWeaker
  <2>2. Measured => \A j \in DOMAIN a.out : NearPacket(a.out[j], h)
    BY <1>12 DEF SOk, SMid, SCore, SPrio
  <2>3. PrioNet(bag (+) Sent("receiver", a.out), h)
    BY <2>1, <2>2, PrioJoin
  <2>. QED BY <1>3, <1>4, <1>11, <2>3, PrioWeaker
<1>. QED BY <1>1, <1>7, <1>13, <1>15, <1>16, <1>20, <1>23, <1>24 DEF StartedOk, SysOk, l, v, a, b, c, q

------------------------------------------------------------------------------
(* The invariant of the specification *)

\* The invariant: the messages do not change, and the agents and the packets under way
\* agree on what has arrived.
FullInv ==
    /\ script \in Scripts
    /\ DOMAIN tcp = Agents
    /\ SysOk(tcp["sender"], tcp["receiver"], net, script, End, got, closing = {})

\* What the invariant says of messages and windows.
LEMMA ScriptFacts ==
    ASSUME script \in Scripts
    PROVE  /\ Len(script) \in Nat
           /\ End \in [0 .. Len(script) -> Nat] /\ End[0] = 0
           /\ \A i, j \in 0 .. Len(script) : i < j => End[i] < End[j]
           /\ \A i \in 1 .. Len(script) :
                 /\ End[i] = End[i - 1] + script[i].len
                 /\ script[i].len \in Nat /\ script[i].len > 0
                 /\ script[i].flag \in {"DAT_EOF", "MSG_EOF"}
<1>1. IsEnd(End, script, Len(script))
  BY EndIs
<1>2. \A messages \in Scripts : \A f :
         IsEnd(f, messages, Len(messages)) =>
           /\ Len(messages) \in Nat
           /\ f \in [0 .. Len(messages) -> Nat] /\ f[0] = 0
           /\ \A i, j \in 0 .. Len(messages) : i < j => f[i] < f[j]
           /\ \A i \in 1 .. Len(messages) :
                 /\ f[i] = f[i - 1] + messages[i].len
                 /\ messages[i].len \in Nat /\ messages[i].len > 0
                 /\ messages[i].flag \in {"DAT_EOF", "MSG_EOF"}
  BY EndGrows
<1>. QED BY <1>1, <1>2

\* The windows are numbers, and each agent has its peer.
LEMMA Peers ==
    /\ Windows \subseteq Nat
    /\ Other("sender") = "receiver" /\ Other("receiver") = "sender"
<1>1. Windows \subseteq Nat
  BY FullTcpAssumption, TcpOutputAssumption
<1>2. Other("sender") = "receiver" /\ Other("receiver") = "sender"
  BY DEF Other, Agents
<1>. QED BY <1>1, <1>2

\* The invariant after a step of the sender that leaves the receiver alone.
LEMMA AfterSender ==
    ASSUME script \in Scripts, DOMAIN tcp = Agents, UNCHANGED script, NEW a, NEW bag,
           Step("sender", a, bag),
           SysOk(Emptied(a), tcp["receiver"], bag (+) Sent("receiver", a.out),
                 script, End, got', closing' = {})
    PROVE  FullInv'
<1>1. /\ DOMAIN tcp' = Agents /\ tcp'["sender"] = Emptied(a)
      /\ tcp'["receiver"] = tcp["receiver"]
      /\ net' = bag (+) Sent("receiver", a.out)
  BY Peers DEF Step, Agents, Emptied
<1>2. End' = End
  BY DEF End
<1>. QED BY <1>1, <1>2 DEF FullInv

\* The invariant after a step of the receiver.
LEMMA AfterReceiver ==
    ASSUME script \in Scripts, DOMAIN tcp = Agents, UNCHANGED script, NEW a, NEW bag,
           Step("receiver", a, bag),
           SysOk(tcp["sender"], Emptied(a), bag (+) Sent("sender", a.out),
                 script, End, got', closing' = {})
    PROVE  FullInv'
<1>1. /\ DOMAIN tcp' = Agents /\ tcp'["receiver"] = Emptied(a)
      /\ tcp'["sender"] = tcp["sender"]
      /\ net' = bag (+) Sent("sender", a.out)
  BY Peers DEF Step, Agents, Emptied
<1>2. End' = End
  BY DEF End
<1>. QED BY <1>1, <1>2 DEF FullInv

\* The agents as they are created.
LEMMA InitOk ==
    Init => FullInv
<1>. SUFFICES ASSUME Init
              PROVE  FullInv
  OBVIOUS
<1> DEFINE s == tcp["sender"]
           r == tcp["receiver"]
           k == SView(s, r, script, End, {}, TRUE)
           u == RView(s, r, End, {}, TRUE)
<1>1. /\ DOMAIN tcp = Agents
      /\ s = newstate(reset(Created), "CLOSED") /\ r = newstate(reset(Created), "LISTEN")
      /\ script \in Scripts /\ net = EmptyBag /\ closing = {} /\ got = {}
  BY DEF Init, Agents
<1>2. /\ DOMAIN s = Fields /\ s.state_ = "CLOSED" /\ s.curseq_ = 0 /\ s.maxseq_ = -1
      /\ s.highest_ack_ = -1 /\ s.t_seqno_ = 0 /\ s.h_seqno_ = -1 /\ s.connection_ = 0
      /\ s.done = 0 /\ s.signal_on_empty_ = FALSE /\ s.close_on_empty_ = FALSE
      /\ s.sq_ = {} /\ s.flags_ = {} /\ s.out = <<>> /\ s.rqfin = NoFin /\ s.rcv_nxt_ = -1
  BY <1>1 DEF Created, Fresh, reset, newstate, Fields, ISS, NoFin
<1>3. /\ DOMAIN r = Fields /\ r.state_ = "LISTEN" /\ r.rcv_nxt_ = -1 /\ r.rq_ = {}
      /\ r.rqfin = NoFin /\ r.flow_remaining_ = -1 /\ r.close_on_empty_ = FALSE
      /\ r.flags_ = {} /\ r.out = <<>>
  BY <1>1 DEF Created, Fresh, reset, newstate, Fields, ISS, NoFin
<1>4. /\ k.s = script /\ k.e = End /\ k.G = {} /\ k.q = TRUE /\ k.q /\ k.n = -1
      /\ k.m = 0 /\ k.x = 0
  BY <1>2, <1>3 DEF SView
<1>5. u.c = 0 /\ u.E = End[0] /\ u.G = {} /\ u.q /\ u.o /\ u.m = -1
  BY <1>2, <1>3 DEF RView
<1>6. /\ Len(script) \in Nat /\ End \in [0 .. Len(script) -> Nat] /\ End[0] = 0
      /\ \A i, j \in 0 .. Len(script) : i < j => End[i] < End[j]
  BY <1>1, ScriptFacts
<1>. HIDE DEF s, r, k, u
<1>7. KOk(k)
  BY <1>4, <1>6 DEF KOk
<1>8. SOk(s, k)
  <2>1. "CLOSED" \notin Open
    BY DEF Open
  <2>2. 0 \in 0 .. Len(script) /\ 0 \in 0 .. 0
    BY <1>6
  <2>7. /\ s.connection_ \in 0 .. Len(k.s) /\ s.done \in 0 .. s.connection_
        /\ s.curseq_ <= k.e[s.connection_] /\ s.connection_ = k.m /\ s.curseq_ <= k.x
    BY <1>2, <1>4, <1>6, <2>2
  <2>8. s.signal_on_empty_ \in BOOLEAN /\ s.close_on_empty_ \in BOOLEAN
    BY <1>2
  <2>9. s.state_ \in {"CLOSED"} \cup Open \cup Fin /\ s.state_ \notin Open
    BY <1>2, <2>1
  <2>3. STyped(s, k)
    BY <1>2, <2>7, <2>8, <2>9 DEF STyped
  <2>4. SAcked(s, k)
    BY <1>2, <1>4, <1>6 DEF SAcked, Known
  <2>5. SStates(s, k)
    BY <1>2, <1>4, <1>6 DEF SStates
  <2>6. SOut(s, k)
    BY <1>2 DEF SOut, AllToReceiver
  <2>10. SPrio(s, k)
    BY <1>2, <2>1 DEF SPrio, Waits
  <2>. QED BY <1>2, <2>3, <2>4, <2>5, <2>6, <2>10 DEF SOk, SMid, SCore
<1>9. ROk(r, u)
  <2>1. RTyped(r, u)
    BY <1>3 DEF RTyped
  <2>2. RData(r, u)
    BY <1>3, <1>5 DEF RData, Known
  <2>3. RStates(r, u)
    BY <1>3, <1>5, <1>6 DEF RStates, Named, Left, Largest
  <2>4. ROut(r, u)
    BY <1>3 DEF ROut, AllToSender
  <2>. QED BY <2>1, <2>2, <2>3, <2>4 DEF ROk
<1>10. DOMAIN net = {}
  BY <1>1 DEF EmptyBag, SetToBag
<1>11. NetOk(net, u, r.rcv_nxt_) /\ PrioNet(net, k)
  BY <1>10 DEF NetOk, PrioNet
<1>12. (closing = {}) = TRUE /\ got = {}
  BY <1>1
<1>. QED BY <1>1, <1>2, <1>3, <1>7, <1>8, <1>9, <1>11, <1>12 DEF FullInv, SysOk, k, u, s, r

\* A message starts.
LEMMA StartOk ==
    ASSUME FullInv, NEW w \in Windows, Start(w)
    PROVE  FullInv'
<1> DEFINE s == tcp["sender"]
           r == tcp["receiver"]
           n == s.connection_ + 1
           nb == script[n].len
           flag == script[n].flag
           a == sendmsg(s, nb, flag, w)
           c == [r EXCEPT !.flow_remaining_ = nb]
<1>1. /\ script \in Scripts /\ DOMAIN tcp = Agents
      /\ SysOk(s, r, net, script, End, got, closing = {})
  BY DEF FullInv
<1>2. /\ closing = {} /\ n <= Len(script) /\ ~s.signal_on_empty_
      /\ s.state_ \in {"CLOSED", "ESTABLISHED"}
      /\ flag = "MSG_EOF" => s.state_ = "ESTABLISHED"
      /\ tcp' = [tcp EXCEPT !["sender"] = [a EXCEPT !.out = <<>>],
                            !["receiver"].flow_remaining_ = nb]
      /\ net' = net (+) Sent("receiver", a.out)
      /\ closing' = IF flag = "MSG_EOF" THEN {"sender"} ELSE {}
      /\ script' = script /\ got' = got
  BY DEF Start
<1>3. tcp'["sender"] = Emptied(a) /\ tcp'["receiver"] = c /\ DOMAIN tcp' = Agents
  BY <1>1, <1>2 DEF Agents, Emptied
<1>4. /\ Len(script) \in Nat
      /\ \A i \in 1 .. Len(script) :
            /\ End[i] = End[i - 1] + script[i].len
            /\ script[i].len \in Nat /\ script[i].len > 0
            /\ script[i].flag \in {"DAT_EOF", "MSG_EOF"}
  BY <1>1, ScriptFacts
<1>. HIDE DEF s, r
<1>5. s.connection_ \in Nat
  <2>1. STyped(s, SView(s, r, script, End, got, closing = {}))
    BY <1>1 DEF SysOk, SOk, SMid, SCore
  <2>2. s.connection_ \in 0 .. Len(script)
    BY <2>1 DEF STyped, SView
  <2>. QED BY <2>2, <1>4
<1>6. n \in 1 .. Len(script) /\ n - 1 = s.connection_
  BY <1>2, <1>4, <1>5
<1>7. /\ End[n] = End[s.connection_] + nb /\ nb \in Nat /\ nb > 0
      /\ flag \in {"DAT_EOF", "MSG_EOF"}
  BY <1>4, <1>6
<1>8. (closing = {}) = TRUE /\ (closing' = {}) = (flag = "DAT_EOF")
  BY <1>2, <1>7
<1>9. w \in Nat
  BY Peers
<1>10. SysOk(s, r, net, script, End, got, TRUE)
  BY <1>1, <1>8
<1>11. n = s.connection_ + 1
  OBVIOUS
<1>. HIDE DEF n, nb, flag
<1>12. SysOk(Emptied(a), c, net (+) Sent("receiver", a.out), script, End, got, flag = "DAT_EOF")
  <2>1. /\ ~s.signal_on_empty_ /\ s.state_ \in {"CLOSED", "ESTABLISHED"} /\ n <= Len(script)
        /\ flag = "MSG_EOF" => s.state_ = "ESTABLISHED"
    BY <1>2
  <2>2. s.connection_ + 1 <= Len(script) /\ End[s.connection_ + 1] = End[s.connection_] + nb
    BY <1>7, <1>11, <2>1
  <2>3. StartedOk(s, r, net, script, End, got, nb, flag, w)
    BY <1>7, <1>9, <1>10, <2>1, <2>2, Started
  <2>. QED BY <2>3 DEF StartedOk
<1>13. End' = End
  BY <1>2 DEF End
<1>. HIDE DEF a, c
<1>14. SysOk(tcp'["sender"], tcp'["receiver"], net', script', End', got', closing' = {})
  BY <1>2, <1>3, <1>8, <1>12, <1>13
<1>. QED BY <1>1, <1>2, <1>3, <1>14 DEF FullInv

\* An application closes.
LEMMA CloseOk ==
    ASSUME FullInv, NEW x \in Agents, NEW w \in Windows, Close(x, w)
    PROVE  FullInv'
<1>1. /\ script \in Scripts /\ DOMAIN tcp = Agents
      /\ SysOk(tcp["sender"], tcp["receiver"], net, script, End, got, closing = {})
  BY DEF FullInv
<1>2. /\ tcp[x].state_ = "ESTABLISHED" /\ ~tcp["sender"].signal_on_empty_
      /\ (closing' = {}) = FALSE
      /\ Step(x, usrclosed(tcp[x], w), net)
      /\ script' = script /\ got' = got
  BY DEF Close, Idle
<1>3. w \in Nat
  BY Peers
<1>4. PICK s, r, e, q : s = tcp["sender"] /\ r = tcp["receiver"] /\ e = End /\ q = (closing = {})
  OBVIOUS
<1>8. SysOk(s, r, net, script, e, got, q) /\ ~s.signal_on_empty_
  BY <1>1, <1>2, <1>4
<1>9. ~Waits(s)
  <2>1. s.highest_ack_ > s.curseq_
    BY <1>4 DEF Close, Idle
  <2>2. s.highest_ack_ \in Int /\ s.curseq_ \in Nat
    BY <1>8 DEF SysOk, SOk, SMid, SCore, STyped
  <2>. QED BY <2>1, <2>2 DEF Waits
<1>5. SysOk(s, r, net, script, e, got, FALSE)
  BY <1>8, <1>9, CloseAsked
<1>6. CASE x = "sender"
  <2> DEFINE k == SView(s, r, script, e, got, FALSE)
             a == usrclosed(s, w)
  <2>1. KOk(k) /\ SMid(s, k) /\ ~k.q
    BY <1>5 DEF SysOk, SOk, SView
  <2>2. SOk(a, k)
    BY <1>2, <1>3, <1>4, <1>6, <1>9, <2>1, SUsrclosed
  <2>. HIDE DEF a
  <2>3. SysOk(Emptied(a), r, net (+) Sent("receiver", a.out), script, e, got, FALSE)
    BY <1>5, <2>2, SenderMoved
  <2>4. Step("sender", a, net)
    BY <1>2, <1>4, <1>6 DEF a
  <2>. QED BY <1>1, <1>2, <1>4, <2>3, <2>4, AfterSender
<1>7. CASE x = "receiver"
  <2> DEFINE u == RView(s, r, e, got, FALSE)
             a == usrclosed(r, w)
  <2>1. RK(u) /\ ROk(r, u) /\ ~u.q
    BY <1>5, <1>9, Views DEF SysOk, RView
  <2>2. ROk(a, u)
    BY <1>2, <1>4, <1>7, <2>1, RUsrclosed
  <2>. HIDE DEF a
  <2>3. SysOk(s, Emptied(a), net (+) Sent("sender", a.out), script, e, got, FALSE)
    BY <1>5, <2>2, ReceiverMoved
  <2>4. Step("receiver", a, net)
    BY <1>2, <1>4, <1>7 DEF a
  <2>. QED BY <1>1, <1>2, <1>4, <2>3, <2>4, AfterReceiver
<1>. QED BY <1>6, <1>7 DEF Agents

\* A timer expires, also when packets are under way.
LEMMA TimeoutOk ==
    ASSUME FullInv, NEW x \in Agents, NEW w \in Windows, Timeout(x, w)
    PROVE  FullInv'
<1>1. /\ script \in Scripts /\ DOMAIN tcp = Agents
      /\ SysOk(tcp["sender"], tcp["receiver"], net, script, End, got, closing = {})
  BY DEF FullInv
<1>2. /\ Step(x, timeout([tcp[x] EXCEPT !.rtx_timer_ = FALSE], w), net)
      /\ script' = script /\ got' = got /\ closing' = closing
  BY DEF Timeout
<1>3. w \in Nat
  BY Peers
<1>4. PICK s, r, e, q : s = tcp["sender"] /\ r = tcp["receiver"] /\ e = End /\ q = (closing = {})
  OBVIOUS
<1>5. SysOk(s, r, net, script, e, got, q)
  BY <1>1, <1>4
<1>6. CASE x = "sender"
  <2> DEFINE k == SView(s, r, script, e, got, q)
             a == timeout([s EXCEPT !.rtx_timer_ = FALSE], w)
  <2>1. KOk(k) /\ SOk(s, k)
    BY <1>5 DEF SysOk
  <2>2. SOk(a, k)
    BY <1>3, <2>1, STimeout
  <2>. HIDE DEF a
  <2>3. SysOk(Emptied(a), r, net (+) Sent("receiver", a.out), script, e, got, q)
    BY <1>5, <2>2, SenderMoved
  <2>4. Step("sender", a, net)
    BY <1>2, <1>4, <1>6 DEF a
  <2>. QED BY <1>1, <1>2, <1>4, <2>3, <2>4, AfterSender
<1>7. CASE x = "receiver"
  <2> DEFINE u == RView(s, r, e, got, q)
             a == timeout([r EXCEPT !.rtx_timer_ = FALSE], w)
  <2>1. RK(u) /\ ROk(r, u)
    BY <1>5, Views DEF SysOk
  <2>2. ROk(a, u)
    BY <2>1, RTimeout
  <2>. HIDE DEF a
  <2>3. SysOk(s, Emptied(a), net (+) Sent("sender", a.out), script, e, got, q)
    BY <1>5, <2>2, ReceiverMoved
  <2>4. Step("receiver", a, net)
    BY <1>2, <1>4, <1>7 DEF a
  <2>. QED BY <1>1, <1>2, <1>4, <2>3, <2>4, AfterReceiver
<1>. QED BY <1>6, <1>7 DEF Agents

\* A packet on its way can be taken by its agent.
LEMMA Delivered ==
    ASSUME NEW s, NEW r, NEW bag, NEW messages, NEW e, NEW G, NEW q,
           SysOk(s, r, bag, messages, e, G, q), NEW x, NEW p, BagIn(<<x, p>>, bag)
    PROVE  /\ x = "sender" => Reply(p, s, SView(s, r, messages, e, G, q))
           /\ LET u == RView(s, r, e, G, q) IN x = "receiver" => ToReceiver(p, u.c, u.E, u.o)
           /\ SysOk(s, r, bag (-) SetToBag({<<x, p>>}), messages, e, G, q)
<1> DEFINE k == SView(s, r, messages, e, G, q)
           u == RView(s, r, e, G, q)
           other == SetToBag({<<x, p>>})
<1>1. NetOk(bag, u, r.rcv_nxt_) /\ PrioNet(bag, k)
  BY DEF SysOk
<1>2. /\ u.c = s.curseq_ /\ u.E = e[s.connection_] /\ u.G = G /\ u.q = (q \/ Waits(s))
      /\ u.o <=> (q \/ s.state_ \in Open)
      /\ k.G = G /\ k.q = q /\ k.n = r.rcv_nxt_
  BY DEF RView, SView
<1>3. <<x, p>> \in DOMAIN bag
  BY DEF BagIn, BagToSet
<1>. HIDE DEF u, k
<1>4. \/ x = "receiver" /\ ToReceiver(p, u.c, u.E, u.o)
      \/ x = "sender" /\ ToSender(p, u.c, u.G, u.q, u.o, r.rcv_nxt_)
  BY <1>1, <1>3 DEF NetOk
<1>5. x = "sender" => Reply(p, s, k)
  BY <1>2, <1>4 DEF Reply, ToSender, IsOpen, IsQuiet
<1>6. x = "receiver" => ToReceiver(p, u.c, u.E, u.o)
  BY <1>4
<1>7. NetOk(bag (-) other, u, r.rcv_nxt_) /\ PrioNet(bag (-) other, k)
  BY <1>1, NetLeave, PrioLeave
<1>. HIDE DEF other
<1>8. SysOk(s, r, bag (-) other, messages, e, G, q)
  BY <1>7 DEF SysOk, u, k
<1>. QED BY <1>5, <1>6, <1>8 DEF k, u, other

\* An agent takes any of the packets under way.
LEMMA ReceiveOk ==
    ASSUME FullInv, NEW x, NEW p, NEW w \in Windows, NEW ecnCut, Receive(x, p, w, ecnCut)
    PROVE  FullInv'
<1>1. /\ script \in Scripts /\ DOMAIN tcp = Agents
      /\ SysOk(tcp["sender"], tcp["receiver"], net, script, End, got, closing = {})
  BY DEF FullInv
<1> DEFINE bag == net (-) SetToBag({<<x, p>>})
<1>2. /\ BagIn(<<x, p>>, net)
      /\ Step(x, recv(tcp[x], p, w, ecnCut), bag)
      /\ got' = IF x = "receiver" /\ tcp[x].state_ \notin {"LISTEN", "CLOSED"}
                THEN got \cup (p.seqno .. p.seqno + p.len - 1) ELSE got
      /\ script' = script /\ closing' = closing
  BY DEF Receive
<1>3. w \in Nat
  BY Peers
<1>4. PICK s, r, e, q : s = tcp["sender"] /\ r = tcp["receiver"] /\ e = End /\ q = (closing = {})
  OBVIOUS
<1>5. SysOk(s, r, net, script, e, got, q)
  BY <1>1, <1>4
<1>6. SysOk(s, r, bag, script, e, got, q)
  BY <1>2, <1>5, Delivered
<1>7. x \in Agents
  <2>1. NetOk(net, RView(s, r, e, got, q), r.rcv_nxt_) /\ <<x, p>> \in DOMAIN net
    BY <1>2, <1>5 DEF SysOk, BagIn, BagToSet
  <2>. QED BY <2>1 DEF NetOk, Agents
<1>. HIDE DEF bag
<1>8. CASE x = "sender"
  <2> DEFINE k == SView(s, r, script, e, got, q)
             a == recv(s, p, w, ecnCut)
  <2>1. KOk(k) /\ SOk(s, k)
    BY <1>5 DEF SysOk
  <2>2. Reply(p, s, k)
    BY <1>2, <1>5, <1>8, Delivered
  <2>. HIDE DEF k
  <2>3. SOk(a, k)
    BY <1>3, <2>1, <2>2, SRecv
  <2>. HIDE DEF a
  <2>4. SysOk(Emptied(a), r, bag (+) Sent("receiver", a.out), script, e, got, q)
    BY <1>6, <2>3, SenderMoved DEF k
  <2>5. Step("sender", a, bag)
    BY <1>2, <1>4, <1>8 DEF a
  <2>6. got' = got
    BY <1>2, <1>8
  <2>. QED BY <1>1, <1>2, <1>4, <2>4, <2>5, <2>6, AfterSender
<1>9. CASE x = "receiver"
  <2> DEFINE E == e[s.connection_]
             y == RView(s, r, e, got, q)
  <2>1. ToReceiver(p, y.c, y.E, y.o) /\ y.E = E
    <3>1. y.E = E
      BY DEF RView
    <3>. QED BY <1>2, <1>5, <1>9, <3>1, Delivered
  <2>2. got \subseteq 1 .. E /\ E \in Int
    <3> DEFINE k == SView(s, r, script, e, got, q)
    <3>1. KOk(k) /\ SOk(s, k) /\ k.G = got /\ k.e = e
      BY <1>5 DEF SysOk, SView
    <3>. HIDE DEF k
    <3>. QED BY <3>1 DEF SOk, SMid, SCore, SAcked, STyped, KOk
  <2>. HIDE DEF E
  <2>3. p.seqno .. p.seqno + p.len - 1 \subseteq 1 .. E
    BY <2>1, <2>2 DEF ToReceiver
  <2>4. PICK H : H = got'
    OBVIOUS
  <2>5. /\ got \subseteq H /\ H \subseteq 1 .. E
        /\ r.state_ \notin {"LISTEN", "CLOSED"} => p.seqno .. p.seqno + p.len - 1 \subseteq H
    BY <1>2, <1>4, <1>9, <2>2, <2>3, <2>4
  <2>6. SysOk(s, r, bag, script, e, H, q)
    BY <1>6, <2>5, BytesArrive DEF E
  <2> DEFINE u == RView(s, r, e, H, q)
             a == recv(r, p, w, ecnCut)
  <2>7. RK(u) /\ ROk(r, u)
    BY <2>6, Views DEF SysOk
  <2>8. u.c = y.c /\ u.E = y.E /\ u.o = y.o /\ u.G = H
    BY DEF RView, E
  <2>. HIDE DEF u, y
  <2>9. ToReceiver(p, u.c, u.E, u.o)
    BY <2>1, <2>8 DEF ToReceiver
  <2>10. ROk(a, u)
    BY <2>5, <2>7, <2>8, <2>9, RRecv
  <2>. HIDE DEF a
  <2>11. SysOk(s, Emptied(a), bag (+) Sent("sender", a.out), script, e, H, q)
    BY <2>6, <2>10, ReceiverMoved DEF u
  <2>12. Step("receiver", a, bag)
    BY <1>2, <1>4, <1>9 DEF a
  <2>. QED BY <1>1, <1>2, <1>4, <2>4, <2>11, <2>12, AfterReceiver
<1>. QED BY <1>7, <1>8, <1>9 DEF Agents

\* A packet is lost.
LEMMA LoseOk ==
    ASSUME FullInv, NEW x, NEW p, Lose(x, p)
    PROVE  FullInv'
<1>1. /\ script \in Scripts /\ DOMAIN tcp = Agents
      /\ SysOk(tcp["sender"], tcp["receiver"], net, script, End, got, closing = {})
  BY DEF FullInv
<1>2. /\ BagIn(<<x, p>>, net) /\ net' = net (-) SetToBag({<<x, p>>})
      /\ script' = script /\ tcp' = tcp /\ closing' = closing /\ got' = got
  BY DEF Lose
<1>3. SysOk(tcp["sender"], tcp["receiver"], net (-) SetToBag({<<x, p>>}), script, End, got,
            closing = {})
  BY <1>1, <1>2, Delivered
<1>4. End' = End
  BY <1>2 DEF End
<1>. QED BY <1>1, <1>2, <1>3, <1>4 DEF FullInv

\* Every step keeps the invariant.
LEMMA NextOk ==
    FullInv /\ [Next]_vars => FullInv'
<1>. SUFFICES ASSUME FullInv, [Next]_vars
              PROVE  FullInv'
  OBVIOUS
<1>1. ASSUME NEW w \in Windows, Start(w)
      PROVE  FullInv'
  BY <1>1, StartOk
<1>2. ASSUME NEW x \in Agents, NEW w \in Windows, Close(x, w)
      PROVE  FullInv'
  BY <1>2, CloseOk
<1>3. ASSUME NEW m \in DOMAIN net, NEW w \in Windows, NEW ecnCut \in BOOLEAN,
             Receive(m[1], m[2], w, ecnCut)
      PROVE  FullInv'
  BY <1>3, ReceiveOk
<1>4. ASSUME NEW x \in Agents, NEW w \in Windows, Timeout(x, w)
      PROVE  FullInv'
  BY <1>4, TimeoutOk
<1>5. ASSUME NEW m \in DOMAIN net, Lose(m[1], m[2])
      PROVE  FullInv'
  BY <1>5, LoseOk
<1>6. CASE UNCHANGED vars
  <2>1. End' = End
    BY <1>6 DEF vars, End
  <2>. QED BY <1>6, <2>1 DEF vars, FullInv
<1>. QED BY <1>1, <1>2, <1>3, <1>4, <1>5, <1>6 DEF Next, ReceiveAny, TimeoutAny

\* The two agents and the packets under way always agree on what has arrived: the
\* invariant of the connection, for every script, window and fault (tcp-full.cc).
THEOREM FullInvHolds == Spec => []FullInv
<1>1. Init => FullInv
  BY InitOk
<1>2. FullInv /\ [Next]_vars => FullInv'
  BY NextOk
<1>. QED BY <1>1, <1>2, PTL DEF Spec

\* Every byte the sender takes for acknowledged, every byte on its scoreboard and every
\* byte of the messages it has called done_data for has arrived (newack, tcp-full.cc
\* 1558-1571; process_sack 3526-3557; foutput 1211-1223).
THEOREM DeliveredHolds == Spec => []AckedIsDelivered
<1>1. FullInv => AckedIsDelivered
  <2>. SUFFICES ASSUME FullInv
                PROVE  AckedIsDelivered
    OBVIOUS
  <2>1. PICK s, r, k : /\ s = tcp["sender"] /\ r = tcp["receiver"]
                       /\ k = SView(s, r, script, End, got, closing = {})
    OBVIOUS
  <2>2. SOk(s, k) /\ KOk(k) /\ k.e = End /\ k.G = got
    BY <2>1 DEF FullInv, SysOk, SView
  <2>3. /\ s.highest_ack_ \in Int /\ s.curseq_ \in Nat
        /\ s.connection_ \in 0 .. Len(k.s) /\ Len(k.s) \in Nat /\ s.done \in 0 .. s.connection_
        /\ k.e \in [0 .. Len(k.s) -> Nat]
    BY <2>2 DEF SOk, SMid, SCore, STyped, KOk
  <2>4. s.done \in 0 .. Len(k.s)
    BY <2>3
  <2>5. End[s.done] \in Nat
    BY <2>2, <2>3, <2>4
  <2>6. /\ Known(s.highest_ack_, s.curseq_, got) /\ s.sq_ \subseteq got
        /\ 1 .. End[s.done] \subseteq got
    BY <2>2 DEF SOk, SMid, SCore, SAcked
  <2> DEFINE d == End[s.done]
  <2>. HIDE DEF d
  <2>7. 1 .. Largest(Least(s.highest_ack_ - 1, s.curseq_), d) \subseteq got
    BY <2>3, <2>5, <2>6 DEF Known, Largest, Least, d
  <2>. QED BY <2>1, <2>6, <2>7 DEF AckedIsDelivered, ISS, d
<1>. QED BY <1>1, FullInvHolds, PTL

\* Until a FIN comes flow_remaining_ counts the bytes of the message that are missing in
\* order, whichever way they came; the copy for fair queuing counts otherwise (recv
\* 1976-1984, 2827-2866).
THEOREM FlowRemainingHolds == ~FairCopy => (Spec => []FlowRemaining)
<1>. SUFFICES ASSUME ~FairCopy
              PROVE  Spec => []FlowRemaining
  OBVIOUS
<1>1. FullInv => FlowRemaining
  <2>. SUFFICES ASSUME FullInv
                PROVE  FlowRemaining
    OBVIOUS
  <2>1. PICK s, r, u : /\ s = tcp["sender"] /\ r = tcp["receiver"]
                       /\ u = RView(s, r, End, got, closing = {})
    OBVIOUS
  <2>2. ROk(r, u) /\ u.E = End[s.connection_]
    BY <2>1 DEF FullInv, SysOk, RView
  <2>3. r.state_ \in Named => r.flow_remaining_ = Left(u.E, r.rcv_nxt_)
    BY <2>2 DEF ROk, RStates
  <2>. QED BY <2>1, <2>2, <2>3 DEF FlowRemaining, Named, Left, ISS
<1>. QED BY <1>1, FullInvHolds, PTL

\* Measured from the scoreboard (schemes 2 and 4, without the fair-queuing copy and known
\* sizes) the priority of every packet under way covers what its message still lacks at
\* the receiver but for the bytes subtracted twice, and is at most 9 more than the
\* message's length, also when it was computed for an earlier batch (set_prio 3306-3330,
\* reset by advance_bytes 359-419).
THEOREM PrioNearRemainingHolds == Measured => (Spec => []PrioNearRemaining)
<1>. SUFFICES ASSUME Measured
              PROVE  Spec => []PrioNearRemaining
  OBVIOUS
<1>1. FullInv => PrioNearRemaining
  <2>. SUFFICES ASSUME FullInv, NEW m \in DOMAIN net, m[1] = "receiver", m[2].len > 0
                PROVE  LET p == m[2]
                           bytes == Message(p.connection)
                       IN /\ p.prio >= Cardinality(bytes \ got) - p.twice
                          /\ p.prio <= Cardinality(bytes) + 9
    BY DEF PrioNearRemaining
  <2>1. PICK k : k = SView(tcp["sender"], tcp["receiver"], script, End, got, closing = {})
    OBVIOUS
  <2>2. KOk(k) /\ PrioNet(net, k) /\ k.e = End /\ k.G = got
    BY <2>1 DEF FullInv, SysOk, SView
  <2> DEFINE c == m[2].connection
  <2>3. Near(m[2].prio, m[2].twice, c, k)
    BY <2>2 DEF PrioNet, NearPacket
  <2>. HIDE DEF c
  <2>4. c \in 1 .. Len(k.s) /\ Len(k.s) \in Nat
    BY <2>2, <2>3 DEF Near, KOk
  <2>5. k.e[c - 1] \in Nat /\ k.e[c] \in Nat /\ k.e[c - 1] < k.e[c]
    BY <2>2, <2>4, MessageBefore
  <2>6. Message(c) = Bytes(c, k)
    BY <2>2 DEF Message, Bytes
  <2>7. Cardinality(Bytes(c, k)) = k.e[c] - k.e[c - 1]
    <3>1. k.e[c - 1] + 1 \in Int /\ k.e[c] \in Int /\ ~(k.e[c - 1] + 1 > k.e[c])
      BY <2>5
    <3>2. Cardinality(k.e[c - 1] + 1 .. k.e[c]) = k.e[c] - (k.e[c - 1] + 1) + 1
      BY <3>1, FS_Interval
    <3>. QED BY <2>5, <3>2 DEF Bytes
  <2>8. /\ m[2].prio >= Cardinality(Message(c) \ got) - m[2].twice
        /\ m[2].prio <= Cardinality(Message(c)) + 9
    <3>1. /\ m[2].prio >= Cardinality(Bytes(c, k) \ k.G) - m[2].twice
          /\ m[2].prio <= k.e[c] - k.e[c - 1] + 9
      BY <2>3 DEF Near
    <3>. QED BY <2>2, <2>6, <2>7, <3>1
  <2>. QED BY <2>8 DEF c
<1>. QED BY <1>1, FullInvHolds, PTL
==============================================================================
