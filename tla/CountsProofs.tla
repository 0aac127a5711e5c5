------------------------------ MODULE CountsProofs ------------------------------
(***************************************************************************)
(* The places that count what was sent are right for every value of their  *)
(* constants: the byte count of a flow, the sketch of the simulator, the   *)
(* sketch of the switch, the readings of its registers and the sum of the  *)
(* depths of its queues.  So are the rules that its control plane writes   *)
(* from those counts.  Each section starts with the invariant it needs.    *)
(***************************************************************************)
EXTENDS FlowBytes, CMSketch, P4Counters, P4Sketch, P4Depth, P4Rules, Arithmetic,
        FiniteSetTheorems, SequenceTheorems

(***************************************************************************)
(* The byte count of a flow is right for every sequence space, window and  *)
(* segment size, as long as less than SeqSpace - WrapGap bytes are in      *)
(* flight.  The invariant is inductive as it stands: last_seq determines   *)
(* which packets are counted, and the count follows from it.               *)
(***************************************************************************)

------------------------------------------------------------------------------
(* What pias_is_seq_larger guarantees for every width of the sequence space *)

\* u32 addition stays in range, and wraps at most once.
LEMMA SeqAddStep ==
    ASSUME NEW s \in U32, NEW n \in 0 .. SeqSpace - 1
    PROVE  /\ SeqAdd(s, n) = IF s + n < SeqSpace THEN s + n ELSE s + n - SeqSpace
           /\ SeqAdd(s, n) \in U32
<1>1. s % SeqSpace = s
  <2>1. 0 \in Int /\ s \in 0 .. SeqSpace - 1 /\ s = 0 * SeqSpace + s
    BY SeqAssumption DEF U32
  <2>. QED BY <2>1, ModUnique, SeqAssumption
<1>2. SeqAdd(s, n) = IF s + n < SeqSpace THEN s + n ELSE s + n - SeqSpace
  <2>1. s \in Int /\ n \in Nat /\ n < SeqSpace
    BY SeqAssumption DEF U32
  <2>2. (s + n) % SeqSpace = IF (s % SeqSpace) + n < SeqSpace
                             THEN (s % SeqSpace) + n
                             ELSE (s % SeqSpace) + n - SeqSpace
    BY <2>1, ModStep, SeqAssumption
  <2>. QED BY <1>1, <2>2 DEF SeqAdd
<1>. QED BY <1>2, SeqAssumption DEF U32

------------------------------------------------------------------------------

\* Of two different sequence numbers pias_is_seq_larger calls exactly one the
\* larger, and none larger than itself (main.c:99-107).
THEOREM SeqLargerIsTotal ==
    ASSUME NEW s \in U32, NEW t \in U32
    PROVE  /\ s # t => (SeqLarger(s, t) <=> ~SeqLarger(t, s))
           /\ ~SeqLarger(s, s)
BY SeqAssumption DEF SeqLarger, U32

\* A number fewer than SeqSpace - WrapGap ahead is recognised as larger, across
\* the wrap too (main.c:99-107): the in-flight window the code can follow.
THEOREM SeqAheadIsLarger ==
    ASSUME NEW s \in U32, NEW n \in Nat, n >= 1, n < SeqSpace - WrapGap
    PROVE  SeqLarger(SeqAdd(s, n), s)
<1>1. n \in 0 .. SeqSpace - 1
  BY SeqAssumption
<1>2. SeqAdd(s, n) = IF s + n < SeqSpace THEN s + n ELSE s + n - SeqSpace
  BY <1>1, SeqAddStep
<1>. QED BY <1>2, SeqAssumption DEF SeqLarger, U32

\* ... and the number behind it is not (main.c:99-107).
THEOREM SeqBehindIsNotLarger ==
    ASSUME NEW s \in U32, NEW n \in Nat, n < SeqSpace - WrapGap
    PROVE  ~SeqLarger(s, SeqAdd(s, n))
<1>1. n \in 0 .. SeqSpace - 1
  BY SeqAssumption
<1>2. SeqAdd(s, n) = IF s + n < SeqSpace THEN s + n ELSE s + n - SeqSpace
  BY <1>1, SeqAddStep
<1>. QED BY <1>2, SeqAssumption DEF SeqLarger, U32

------------------------------------------------------------------------------
(* The count of a flow                                                     *)

SmallWindow == Window < SeqSpace - WrapGap

FlowInv == BytesTypeOK /\ MessageBytes /\ LastSeqIsLargest

\* Sequence numbers of stream offsets: advancing the offset adds to the number.
LEMMA SeqOfOffset ==
    ASSUME SmallWindow, isn \in U32, NEW a \in Int, NEW n \in 0 .. Window
    PROVE  /\ SeqAt(a) \in U32
           /\ SeqAt(a + n) = SeqAdd(SeqAt(a), n)
<1>1. SeqSpace \in Nat /\ SeqSpace > 0 /\ n < SeqSpace /\ n \in Nat
  BY SeqAssumption, FlowAssumption DEF SmallWindow
<1>2. isn \in Int
  BY SeqAssumption DEF U32
<1>3. SeqAt(a) \in 0 .. SeqSpace - 1
  BY <1>1, <1>2, ModRange DEF SeqAt
<1>4. SeqAt(a + n) = ((isn + 1 + a) + n) % SeqSpace
  BY <1>1, <1>2 DEF SeqAt
<1>5. ((isn + 1 + a) + n) % SeqSpace = IF SeqAt(a) + n < SeqSpace THEN SeqAt(a) + n ELSE SeqAt(a) + n - SeqSpace
  <2>1. isn + 1 + a \in Int
    BY <1>2
  <2>. QED BY <2>1, <1>1, ModStep DEF SeqAt
<1>6. SeqAdd(SeqAt(a), n) = IF SeqAt(a) + n < SeqSpace THEN SeqAt(a) + n ELSE SeqAt(a) + n - SeqSpace
  <2>1. SeqAt(a) \in U32 /\ n \in 0 .. SeqSpace - 1
    BY <1>1, <1>3 DEF U32
  <2>. QED BY <2>1, SeqAddStep
<1>. QED BY <1>3, <1>4, <1>5, <1>6 DEF U32

\* A packet of n bytes at offset a is remembered by its last byte.
LEMMA LastByteOfPacket ==
    ASSUME SmallWindow, isn \in U32, NEW a \in Int, NEW n \in 1 .. MaxSegment
    PROVE  LastByteSeq(SeqAt(a), n) = SeqAt(a + n - 1)
<1>1. n - 1 \in 0 .. Window /\ n >= 1
  BY FlowAssumption
<1>2. a + (n - 1) = a + n - 1
  OBVIOUS
<1>. QED BY <1>1, <1>2, SeqOfOffset DEF LastByteSeq

\* The entry of a connection below the gap records every new packet, except one
\* byte after a bare acknowledgement, and then last_seq is that byte already.
LEMMA TransmitCounts ==
    ASSUME SmallWindow, FlowInv, IsnBelowGap, info # NoInfo,
           NEW n \in 1 .. MaxSegment
    PROVE  LET s == LastByteSeq(SeqAt(nxt), n)
           IN  /\ s = SeqAt(nxt + n - 1) /\ s \in U32
               /\ SeqLarger(s, info.last_seq) \/ info.last_seq = s
<1> DEFINE s == LastByteSeq(SeqAt(nxt), n)
<1>1. /\ isn \in U32 /\ nxt \in Nat /\ n \in Nat /\ n >= 1 /\ n <= Window
      /\ Window \in Nat /\ MaxSegment \in Nat /\ nxt \in Int /\ nxt - 1 \in Int
  BY FlowAssumption DEF FlowInv, BytesTypeOK
<1>2. s = SeqAt(nxt + n - 1)
  BY <1>1, LastByteOfPacket
<1>3. n - 1 \in 0 .. Window /\ n \in 0 .. Window
  BY <1>1
<1>4. s = SeqAdd(SeqAt(nxt), n - 1) /\ SeqAt(nxt) \in U32
  <2>1. nxt + (n - 1) = nxt + n - 1
    BY <1>1
  <2>. QED BY <2>1, <1>1, <1>2, <1>3, SeqOfOffset
<1>5. s = SeqAdd(SeqAt(nxt - 1), n) /\ SeqAt(nxt - 1) \in U32
  <2>1. (nxt - 1) + n = nxt + n - 1
    BY <1>1
  <2>. QED BY <2>1, <1>1, <1>2, <1>3, SeqOfOffset
<1>6. s \in U32
  <2>1. (nxt + n - 1) \in Int /\ 0 \in 0 .. Window
    BY <1>1
  <2>. QED BY <2>1, <1>1, <1>2, SeqOfOffset
<1>7. CASE info.last_seq = SeqAt(nxt - 1)
  <2>1. n < SeqSpace - WrapGap
    BY <1>1, SeqAssumption DEF SmallWindow
  <2>2. SeqLarger(s, SeqAt(nxt - 1))
    BY <2>1, <1>1, <1>5, SeqAheadIsLarger
  <2>. QED BY <2>2, <1>2, <1>6, <1>7
<1>8. CASE info.last_seq = SeqAt(nxt) /\ n > 1
  <2>1. n - 1 \in Nat /\ n - 1 >= 1 /\ n - 1 < SeqSpace - WrapGap
    BY <1>1, <1>8, SeqAssumption DEF SmallWindow
  <2>2. SeqLarger(s, SeqAt(nxt))
    BY <2>1, <1>4, SeqAheadIsLarger
  <2>. QED BY <2>2, <1>2, <1>6, <1>8
<1>9. CASE info.last_seq = SeqAt(nxt) /\ n = 1
  <2>1. nxt + n - 1 = nxt
    BY <1>1, <1>9
  <2>. QED BY <2>1, <1>2, <1>6, <1>9
<1>10. CASE info.last_seq = 0 /\ nxt = 0
  <2>1. s = (isn + n) % SeqSpace
    <3>1. isn + 1 + (nxt + n - 1) = isn + n
      BY <1>1, <1>10, SeqAssumption DEF U32
    <3>. QED BY <3>1, <1>2 DEF SeqAt
  <2>2. isn + n \in 1 .. WrapGap /\ isn + n \in 0 .. SeqSpace - 1
    BY <1>1, SeqAssumption DEF IsnBelowGap, U32
  <2>3. (isn + n) % SeqSpace = isn + n
    <3>1. 0 \in Int /\ SeqSpace \in Nat /\ isn + n = 0 * SeqSpace + (isn + n)
      BY <2>2, SeqAssumption
    <3>. QED BY <3>1, <2>2, ModUnique
  <2>. QED BY <2>1, <2>2, <2>3, <1>2, <1>6, <1>10, SeqAssumption DEF SeqLarger
<1>. QED
  <2>1. info.last_seq \in {SeqAt(nxt - 1), SeqAt(nxt)} \/ (info.last_seq = 0 /\ nxt = 0)
    BY DEF FlowInv, LastSeqIsLargest
  <2>2. n > 1 \/ n = 1
    BY <1>1
  <2>. QED BY <2>1, <2>2, <1>7, <1>8, <1>9, <1>10

\* A packet that ends at or before nxt - 1 is recognised as a retransmission.
LEMMA RetransmitIsIgnored ==
    ASSUME SmallWindow, FlowInv, IsnBelowGap, info # NoInfo,
           NEW a \in una .. nxt, NEW n \in 1 .. MaxSegment, a + n <= nxt
    PROVE  ~SeqLarger(LastByteSeq(SeqAt(a), n), info.last_seq)
<1> DEFINE s == LastByteSeq(SeqAt(a), n)
<1>1. /\ isn \in U32 /\ una \in Nat /\ nxt \in Nat /\ nxt - una <= Window
      /\ Window \in Nat /\ MaxSegment \in Nat
  BY FlowAssumption DEF FlowInv, BytesTypeOK
<1>2. a \in Int /\ n \in Nat /\ n >= 1 /\ a >= una /\ a + n - 1 \in Int
  BY <1>1
<1>3. s = SeqAt(a + n - 1)
  BY <1>1, <1>2, LastByteOfPacket
<1>4. s \in U32
  <2>1. 0 \in 0 .. Window
    BY <1>1
  <2>. QED BY <2>1, <1>1, <1>2, <1>3, SeqOfOffset
<1>5. CASE info.last_seq = SeqAt(nxt - 1)
  <2>1. /\ nxt - (a + n) \in 0 .. Window /\ nxt - (a + n) < SeqSpace - WrapGap
        /\ nxt - (a + n) \in Nat
    BY <1>1, <1>2, SeqAssumption DEF SmallWindow
  <2>2. (a + n - 1) + (nxt - (a + n)) = nxt - 1
    BY <1>1, <1>2
  <2>3. SeqAt(nxt - 1) = SeqAdd(s, nxt - (a + n))
    BY <2>1, <2>2, <1>1, <1>2, <1>3, SeqOfOffset
  <2>. QED BY <2>1, <2>3, <1>4, <1>5, SeqBehindIsNotLarger
<1>6. CASE info.last_seq = SeqAt(nxt)
  <2>1. /\ nxt - (a + n) + 1 \in 0 .. Window /\ nxt - (a + n) + 1 < SeqSpace - WrapGap
        /\ nxt - (a + n) + 1 \in Nat
    BY <1>1, <1>2, SeqAssumption DEF SmallWindow
  <2>2. (a + n - 1) + (nxt - (a + n) + 1) = nxt
    BY <1>1, <1>2
  <2>3. SeqAt(nxt) = SeqAdd(s, nxt - (a + n) + 1)
    BY <2>1, <2>2, <1>1, <1>2, <1>3, SeqOfOffset
  <2>. QED BY <2>1, <2>3, <1>4, <1>6, SeqBehindIsNotLarger
<1>7. nxt # 0
  BY <1>1, <1>2
<1>. QED BY <1>5, <1>6, <1>7 DEF FlowInv, LastSeqIsLargest
------------------------------------------------------------------------------

\* What a packet does to an entry keeps the entry's shape.
LEMMA AccountShape ==
    ASSUME NEW i \in FlowInfo, NEW seq, NEW n \in Nat, LastByteSeq(seq, n) \in U32
    PROVE  Account(i, seq, n) \in FlowInfo
<1>1. ASSUME NEW s \in U32, NEW b \in Nat
      PROVE  [i EXCEPT !.last_seq = s, !.bytes_sent = b] \in FlowInfo
  BY <1>1 DEF FlowInfo
<1>2. i.bytes_sent + n \in Nat
  BY DEF FlowInfo
<1>. QED BY <1>1, <1>2 DEF Account

\* The hook keeps the entry's shape.
LEMMA HookShape ==
    ASSUME info \in FlowInfo \cup {NoInfo}, NEW seq, NEW n \in Nat,
           LastByteSeq(seq, n) \in U32, HookData(seq, n)
    PROVE  info' \in FlowInfo \cup {NoInfo}
BY AccountShape DEF HookData

\* The initial state has no entry.
LEMMA InitFlowInv == BytesInit => FlowInv
BY FlowAssumption, SeqAssumption
   DEF BytesInit, FlowInv, BytesTypeOK, MessageBytes, LastSeqIsLargest

\* Every step of the sender keeps the invariant.
LEMMA NextFlowInv ==
    ASSUME SmallWindow, FlowInv, [BytesNext]_bytesVars
    PROVE  FlowInv'
<1>. USE FlowAssumption, SeqAssumption
<1>1. ASSUME NEW i \in InitialSeqs, SendSyn(i)
      PROVE  FlowInv'
  <2>1. i \in U32 /\ 0 \in U32
    BY DEF U32
  <2>2. BytesTypeOK'
    <3>1. InitInfo \in FlowInfo
      BY <2>1 DEF InitInfo, FlowInfo
    <3>2. info' \in FlowInfo \cup {NoInfo}
      BY <1>1, <3>1 DEF SendSyn
    <3>. QED BY <1>1, <2>1, <3>2 DEF FlowInv, BytesTypeOK, SendSyn
  <2>3. MessageBytes' /\ LastSeqIsLargest'
    BY <1>1 DEF SendSyn, InitInfo, MessageBytes, LastSeqIsLargest
  <2>. QED BY <2>2, <2>3 DEF FlowInv
<1>2. ASSUME NEW n \in 1 .. MaxStream, NEW idle \in BOOLEAN, SendMsg(n, idle)
      PROVE  FlowInv'
  <2>1. BytesTypeOK'
    <3>1. ASSUME info # NoInfo, NEW b \in Nat
          PROVE  [info EXCEPT !.copied = TRUE, !.bytes_sent = b] \in FlowInfo
      BY <3>1 DEF FlowInv, BytesTypeOK, FlowInfo
    <3>2. info # NoInfo => info.bytes_sent \in Nat
      BY DEF FlowInv, BytesTypeOK, FlowInfo
    <3>3. info' \in FlowInfo \cup {NoInfo}
      BY <1>2, <3>1, <3>2 DEF SendMsg
    <3>. QED BY <1>2, <3>3 DEF FlowInv, BytesTypeOK, SendMsg
  <2>2. MessageBytes'
    BY <1>2 DEF FlowInv, BytesTypeOK, FlowInfo, MessageBytes, SendMsg, IsnBelowGap
  <2>3. LastSeqIsLargest'
    BY <1>2 DEF FlowInv, BytesTypeOK, FlowInfo, LastSeqIsLargest, SendMsg, IsnBelowGap, SeqAt
  <2>. QED BY <2>1, <2>2, <2>3 DEF FlowInv
<1>3. ASSUME NEW n \in 1 .. MaxSegment, Transmit(n)
      PROVE  FlowInv'
  <2> DEFINE s == LastByteSeq(SeqAt(nxt), n)
  <2>1. LastByteSeq(SeqAt(nxt), n) \in U32
    <3>1. isn \in U32 /\ nxt \in Int /\ nxt + n - 1 \in Int /\ 0 \in 0 .. Window
      BY DEF FlowInv, BytesTypeOK
    <3>. QED BY <3>1, LastByteOfPacket, SeqOfOffset
  <2>2. BytesTypeOK'
    <3>1. info' \in FlowInfo \cup {NoInfo}
      BY <1>3, <2>1, HookShape DEF FlowInv, BytesTypeOK, Transmit
    <3>. QED BY <1>3, <3>1 DEF FlowInv, BytesTypeOK, Transmit
  <2>3. ASSUME info' # NoInfo, IsnBelowGap'
        PROVE  /\ info'.bytes_sent <= nxt' - msgStart'
               /\ info'.last_seq = SeqAt(nxt - 1)'
    <3>1. info # NoInfo /\ IsnBelowGap
      BY <1>3, <2>3 DEF Transmit, HookData, IsnBelowGap
    <3>2. s = SeqAt(nxt + n - 1) /\ (SeqLarger(s, info.last_seq) \/ info.last_seq = s)
      BY <3>1, TransmitCounts
    <3>3. info.bytes_sent <= nxt - msgStart
      BY <3>1 DEF FlowInv, MessageBytes
    <3>4. info.bytes_sent \in Nat /\ info.last_seq \in U32 /\ nxt \in Nat /\ msgStart \in Nat
      BY <3>1 DEF FlowInv, BytesTypeOK, FlowInfo
    <3>5. info' = Account(info, SeqAt(nxt), n) /\ nxt' = nxt + n /\ msgStart' = msgStart
      BY <1>3, <3>1 DEF Transmit, HookData
    <3>6. SeqAt(nxt - 1)' = s
      <4>1. nxt' - 1 = nxt + n - 1 /\ isn' = isn
        BY <1>3, <3>4 DEF Transmit
      <4>. QED BY <4>1, <3>2 DEF SeqAt
    <3>. QED
      <4>1. CASE SeqLarger(s, info.last_seq)
        BY <4>1, <3>1, <3>3, <3>4, <3>5, <3>6 DEF Account, FlowInv, BytesTypeOK, FlowInfo
      <4>2. CASE ~SeqLarger(s, info.last_seq)
        BY <4>2, <3>2, <3>3, <3>4, <3>5, <3>6 DEF Account
      <4>. QED BY <4>1, <4>2
  <2>. QED BY <2>2, <2>3 DEF FlowInv, MessageBytes, LastSeqIsLargest
<1>4. ASSUME NEW a \in una .. nxt, NEW n \in 1 .. MaxSegment, Retransmit(a, n)
      PROVE  FlowInv'
  <2>1. LastByteSeq(SeqAt(a), n) \in U32
    <3>1. isn \in U32 /\ a \in Int /\ a + n - 1 \in Int /\ 0 \in 0 .. Window
      BY DEF FlowInv, BytesTypeOK
    <3>. QED BY <3>1, LastByteOfPacket, SeqOfOffset
  <2>2. BytesTypeOK'
    <3>1. info' \in FlowInfo \cup {NoInfo}
      BY <1>4, <2>1, HookShape DEF FlowInv, BytesTypeOK, Retransmit
    <3>. QED BY <1>4, <3>1 DEF FlowInv, BytesTypeOK, Retransmit, tcp
  <2>3. ASSUME info' # NoInfo, IsnBelowGap'
        PROVE  info # NoInfo /\ IsnBelowGap /\ info' = info
    <3>1. info # NoInfo /\ IsnBelowGap
      BY <1>4, <2>3 DEF Retransmit, HookData, IsnBelowGap, tcp
    <3>2. ~SeqLarger(LastByteSeq(SeqAt(a), n), info.last_seq)
      BY <1>4, <3>1, RetransmitIsIgnored DEF Retransmit
    <3>. QED BY <1>4, <3>1, <3>2 DEF Retransmit, HookData, Account
  <2>. QED BY <1>4, <2>2, <2>3
           DEF FlowInv, MessageBytes, LastSeqIsLargest, Retransmit, tcp, SeqAt
<1>5. ASSUME SendAck
      PROVE  FlowInv'
  <2>1. SeqAt(nxt) \in U32 /\ LastByteSeq(SeqAt(nxt), 0) = SeqAt(nxt)
    <3>1. isn \in U32 /\ nxt \in Int /\ 0 \in 0 .. Window
      BY DEF FlowInv, BytesTypeOK
    <3>. QED BY <3>1, SeqOfOffset DEF LastByteSeq
  <2>2. BytesTypeOK'
    <3>1. info' \in FlowInfo \cup {NoInfo}
      BY <1>5, <2>1, HookShape DEF FlowInv, BytesTypeOK, SendAck
    <3>. QED BY <1>5, <3>1 DEF FlowInv, BytesTypeOK, SendAck, tcp
  <2>3. ASSUME info' # NoInfo, IsnBelowGap'
        PROVE  /\ info # NoInfo /\ IsnBelowGap
               /\ info'.bytes_sent = info.bytes_sent
               /\ info'.last_seq \in {info.last_seq, SeqAt(nxt)}
    BY <1>5, <2>1, <2>3 DEF FlowInv, BytesTypeOK, FlowInfo, SendAck, HookData, Account, IsnBelowGap, tcp
  <2>. QED BY <1>5, <2>2, <2>3
           DEF FlowInv, MessageBytes, LastSeqIsLargest, SendAck, tcp, SeqAt
<1>6. ASSUME NEW a \in una .. nxt, RecvAck(a)
      PROVE  FlowInv'
  <2>1. BytesTypeOK'
    BY <1>6 DEF FlowInv, BytesTypeOK, RecvAck
  <2>. QED BY <1>6, <2>1
           DEF FlowInv, MessageBytes, LastSeqIsLargest, RecvAck, SeqAt, IsnBelowGap
<1>7. ASSUME SendFin \/ SendRst
      PROVE  FlowInv'
  BY <1>7 DEF FlowInv, BytesTypeOK, MessageBytes, LastSeqIsLargest, SendFin, SendRst
<1>8. ASSUME UNCHANGED bytesVars
      PROVE  FlowInv'
  BY <1>8 DEF bytesVars, FlowInv, BytesTypeOK, MessageBytes, LastSeqIsLargest, IsnBelowGap, SeqAt
<1>. QED BY <1>1, <1>2, <1>3, <1>4, <1>5, <1>6, <1>7, <1>8 DEF BytesNext

\* The byte count is right (main.c:159-182, jprobe.c:35-59): with fewer than
\* SeqSpace - WrapGap bytes in flight no retransmission, wrap-around or message
\* boundary makes a flow heavier than what its current message has sent.
THEOREM CountIsRight ==
    ASSUME SmallWindow
    PROVE  BytesSpec => []MessageBytes
<1>1. FlowInv /\ [BytesNext]_bytesVars => FlowInv'
  BY NextFlowInv
<1>2. FlowInv => MessageBytes
  BY DEF FlowInv
<1>. QED BY InitFlowInv, <1>1, <1>2, PTL DEF BytesSpec

\* flow.h:16 holds: last_seq is the largest sequence number sent, under the same
\* bound on the window.
THEOREM LastSeqIsRight ==
    ASSUME SmallWindow
    PROVE  BytesSpec => [](BytesTypeOK /\ LastSeqIsLargest)
<1>1. FlowInv /\ [BytesNext]_bytesVars => FlowInv'
  BY NextFlowInv
<1>2. FlowInv => BytesTypeOK /\ LastSeqIsLargest
  BY DEF FlowInv
<1>. QED BY InitFlowInv, <1>1, <1>2, PTL DEF BytesSpec

------------------------------------------------------------------------------
(***************************************************************************)
(* The count-min guarantee of cm_sketch.h for any number of flows,         *)
(* positions and hash functions and any interval: a flow in progress is    *)
(* never underestimated, and a flow with a position of its own is known    *)
(* exactly.                                                                *)
(*                                                                         *)
(* Neither is inductive by itself, since Query_count speaks of the least   *)
(* of several positions.  The invariant speaks of each position: it was    *)
(* hit no earlier than any flow that hashes to it last sent, so that it is *)
(* not cleared while one of them is in progress, and it holds at least     *)
(* what each of them has sent.  Counted bounds every counter by the        *)
(* packets counted, which keeps it from overflowing.                       *)
(*                                                                         *)
(* For the switch: for any hash functions, interval and width of the time  *)
(* stamp, the weight a packet gets is what its stream has sent since it    *)
(* was idle.  A cell knows when it was hit only up to the wrap; the        *)
(* invariant BurstInv names the time it stands for, one not before any of  *)
(* its streams sent last, so that it is not stale while one is busy.       *)
(***************************************************************************)

\* A flow hits a position as often as it has hash functions that send it there.
LEMMA HitsRange ==
    ASSUME NEW f \in Flow, NEW p \in Position
    PROVE  Hits(f, p) \in 0 .. HashNum
<1>1. IsFiniteSet(HashIndex) /\ Cardinality(HashIndex) = HashNum
  BY FS_Interval, SketchAssumption DEF HashIndex
<1>2. {i \in HashIndex : Hash[f][i] = p} \in SUBSET HashIndex
  OBVIOUS
<1>3. /\ IsFiniteSet({i \in HashIndex : Hash[f][i] = p})
      /\ Cardinality({i \in HashIndex : Hash[f][i] = p}) <= HashNum
  BY <1>1, <1>2, FS_Subset
<1>4. Cardinality({i \in HashIndex : Hash[f][i] = p}) \in Nat
  BY <1>3, FS_CardinalityType
<1>. QED BY <1>3, <1>4, SketchAssumption DEF Hits

\* Every position a flow hashes to is hit by it.
LEMMA HashHits ==
    ASSUME NEW f \in Flow, NEW i \in HashIndex
    PROVE  Hash[f][i] \in Position /\ Hits(f, Hash[f][i]) > 0
<1> DEFINE S == {j \in HashIndex : Hash[f][j] = Hash[f][i]}
<1>1. Hash[f][i] \in Position
  BY SketchAssumption
<1>2. IsFiniteSet(HashIndex)
  BY FS_Interval, SketchAssumption DEF HashIndex
<1>3. IsFiniteSet(S)
  BY <1>2, FS_Subset
<1>4. S # {}
  OBVIOUS
<1>5. Cardinality(S) # 0
  BY <1>3, <1>4, FS_EmptySet
<1>. QED BY <1>1, <1>5, HitsRange DEF Hits

\* A position that is hit is hit by one of the hash functions.
LEMMA HitByHash ==
    ASSUME NEW f \in Flow, NEW p \in Position, Hits(f, p) > 0
    PROVE  \E i \in HashIndex : Hash[f][i] = p
<1>1. SUFFICES ASSUME {i \in HashIndex : Hash[f][i] = p} = {} PROVE FALSE
  OBVIOUS
<1>. QED BY <1>1, FS_EmptySet DEF Hits

\* A set of natural numbers that is not empty has a least element: Min is
\* in the set and below all of it.
LEMMA MinNat ==
    ASSUME NEW S \in SUBSET Nat, S # {}
    PROVE  Min(S) \in S /\ \A y \in S : Min(S) <= y
<1>1. \E x \in S : \A y \in S : x <= y
  BY LeastNat
<1>. QED BY <1>1 DEF Min

\* Query_count is the least of its counters, or QueryMax.
LEMMA QueryIsLeast ==
    ASSUME NEW f \in Flow, TypeOK
    PROVE  /\ Query_count(f) \in Nat
           /\ \A i \in HashIndex : Query_count(f) <= counter[Hash[f][i]]
           /\ \/ Query_count(f) = QueryMax
              \/ \E i \in HashIndex : Query_count(f) = counter[Hash[f][i]]
<1> DEFINE S == {QueryMax} \cup {counter[Hash[f][i]] : i \in HashIndex}
<1>1. \A i \in HashIndex : counter[Hash[f][i]] \in Nat
  <2>. SUFFICES ASSUME NEW i \in HashIndex PROVE counter[Hash[f][i]] \in Nat
    OBVIOUS
  <2>1. Hash[f][i] \in Position
    BY HashHits
  <2>2. counter[Hash[f][i]] \in 0 .. CounterSpace - 1
    BY <2>1 DEF TypeOK
  <2>. QED BY <2>2
<1>2. S \in SUBSET Nat /\ S # {}
  BY <1>1, SketchAssumption
<1>3. Min(S) \in S /\ \A y \in S : Min(S) <= y
  BY <1>2, MinNat
<1>4. Query_count(f) = Min(S)
  BY DEF Query_count
<1>. QED BY <1>2, <1>3, <1>4

------------------------------------------------------------------------------
(* The inductive invariant                                                 *)

Counted == \A p \in Position : counter[p] <= packets * (HashNum * Mss)

Covers(f, p) ==
    /\ last[f] <= arrive[p]
    /\ ~Idle(last[f]) => sent[f] <= counter[p]

Own(f, p) ==
    /\ arrive[p] = last[f]
    /\ ~Idle(last[f]) => counter[p] = sent[f]

SketchInv ==
    /\ TypeOK
    /\ Counted
    /\ \A f \in Flow, p \in Position : Hits(f, p) > 0 => Covers(f, p)
    /\ \A f \in Flow, p \in Position : Exclusive(f, p) => Own(f, p)

\* The constructor of the sketch (cm_sketch.h:8-15) establishes the invariant.
LEMMA InitSketch == Init => SketchInv
<1>. SUFFICES ASSUME Init PROVE SketchInv
  OBVIOUS
<1>. USE SketchAssumption DEF Init, TableInit
<1>1. TypeOK
  BY DEF TypeOK
<1>2. Counted
  BY DEF Counted
<1>3. \A f \in Flow, p \in Position : Covers(f, p) /\ Own(f, p)
  BY DEF Covers, Own
<1>. QED BY <1>1, <1>2, <1>3 DEF SketchInv

\* Time passing only makes flows idle.
LEMMA TickStep == SketchInv /\ Tick => SketchInv'
<1>. SUFFICES ASSUME SketchInv, Tick PROVE SketchInv'
  OBVIOUS
<1>1. /\ now \in Int /\ now' = now + 1 /\ now' \in 0 .. MaxTime
      /\ \A f \in Flow : last[f] \in Int
      /\ \A p \in Position : arrive[p] \in Int
      /\ UNCHANGED <<counter, arrive, packets, sent, last>>
  BY SketchAssumption DEF SketchInv, TypeOK, Tick
<1>2. TypeOK'
  BY <1>1 DEF SketchInv, TypeOK
<1>3. Counted'
  BY <1>1 DEF SketchInv, Counted
<1>4. \A f \in Flow : Idle(last[f]) => Idle(last[f])'
  BY <1>1, SketchAssumption DEF Idle
<1>5. \A f \in Flow, p \in Position : Hits(f, p) > 0 => Covers(f, p)'
  BY <1>1, <1>4 DEF SketchInv, Covers
<1>6. \A f \in Flow, p \in Position : Exclusive(f, p) => Own(f, p)'
  BY <1>1, <1>4 DEF SketchInv, Own
<1>. QED BY <1>2, <1>3, <1>5, <1>6 DEF SketchInv, Exclusive, Hits

\* What counting a packet of flow f does to position p: nothing, or it adds
\* Mss for every hit, to 0 if the position was idle, and does not overflow.
LEMMA CountFlowStep ==
    ASSUME SketchInv, NEW f \in Flow, Arrive(f), NEW p \in Position
    PROVE  /\ Hits(f, p) = 0 => counter'[p] = counter[p] /\ arrive'[p] = arrive[p]
           /\ Hits(f, p) > 0 =>
                 /\ counter'[p] = (IF Idle(arrive[p]) THEN 0 ELSE counter[p])
                                  + Hits(f, p) * Mss
                 /\ arrive'[p] = now
           /\ counter'[p] \in Nat
           /\ counter'[p] <= packets' * (HashNum * Mss)
<1> DEFINE h == Hits(f, p)
           K == HashNum * Mss
           base == IF Idle(arrive[p]) THEN 0 ELSE counter[p]
           sum == base + h * Mss
<1>1. h \in 0 .. HashNum
  BY HitsRange
<1>2. /\ counter[p] \in Nat /\ counter[p] <= packets * K
      /\ packets \in Nat /\ packets < MaxPackets /\ packets' = packets + 1
  BY DEF SketchInv, TypeOK, Counted, Arrive
<1>3. h * Mss \in Nat /\ K \in Nat /\ h * Mss <= K
  BY <1>1, SketchAssumption
<1>4. packets * K \in Nat /\ packets' * K = packets * K + K
  BY <1>2, <1>3
<1>5. packets' * K <= MaxPackets * K
  BY <1>2, <1>3, SketchAssumption
<1>6. MaxPackets * K < CounterSpace
  BY <1>3, SketchAssumption
<1>7. base \in Nat /\ base <= packets * K
  BY <1>2, <1>4
<1>8. sum \in Nat /\ sum <= packets' * K
  BY <1>3, <1>4, <1>7
<1>9. MaxPackets * K \in Nat
  BY <1>3, SketchAssumption
<1>10. sum \in 0 .. CounterSpace - 1
  BY <1>2, <1>4, <1>5, <1>6, <1>8, <1>9, SketchAssumption
<1>11. sum % CounterSpace = sum
  <2>1. (0 * CounterSpace + sum) % CounterSpace = sum
    <3>1. CounterSpace \in Nat /\ CounterSpace > 0 /\ 0 \in Int
      BY SketchAssumption
    <3>. HIDE DEF sum
    <3>. QED BY ONLY <1>10, <3>1, ModUnique
  <2>2. 0 * CounterSpace + sum = sum
    BY <1>8, SketchAssumption
  <2>. QED BY <2>1, <2>2
<1>12. h = 0 => counter'[p] = counter[p] /\ arrive'[p] = arrive[p]
  BY <1>1 DEF Arrive, CountFlow
<1>13. h > 0 => counter'[p] = sum /\ arrive'[p] = now
  <2>. SUFFICES ASSUME h > 0 PROVE counter'[p] = sum /\ arrive'[p] = now
    OBVIOUS
  <2>1. counter'[p] = sum % CounterSpace /\ arrive'[p] = now
    BY <1>1 DEF Arrive, CountFlow
  <2>. QED BY <2>1, <1>11
<1>14. counter'[p] \in Nat /\ counter'[p] <= packets' * K
  <2>1. CASE h = 0
    BY <2>1, <1>2, <1>3, <1>4, <1>12
  <2>2. CASE h > 0
    BY <2>2, <1>8, <1>13
  <2>. QED BY <1>1, <2>1, <2>2
<1>. QED BY <1>12, <1>13, <1>14

\* A packet counted by cm_sketch.h:21-34 keeps the invariant.
LEMMA ArriveStep ==
    ASSUME SketchInv, NEW f \in Flow, Arrive(f)
    PROVE  SketchInv'
<1>1. /\ now \in 0 .. MaxTime /\ now' = now
      /\ last' = [last EXCEPT ![f] = now]
      /\ sent' = [sent EXCEPT ![f] = IF Idle(last[f]) THEN Mss ELSE @ + Mss]
      /\ packets' \in 0 .. MaxPackets /\ packets' = packets + 1
      /\ packets' * (HashNum * Mss) < CounterSpace
  <2>1. /\ packets \in 0 .. MaxPackets /\ packets < MaxPackets /\ packets' = packets + 1
        /\ HashNum * Mss \in Nat
    BY SketchAssumption DEF SketchInv, TypeOK, Arrive
  <2>2. packets' * (HashNum * Mss) <= MaxPackets * (HashNum * Mss)
    BY <2>1, SketchAssumption
  <2>3. packets' * (HashNum * Mss) \in Nat /\ MaxPackets * (HashNum * Mss) \in Nat
    BY <2>1, SketchAssumption
  <2>4. packets' * (HashNum * Mss) < CounterSpace
    BY <2>2, <2>3, SketchAssumption
  <2>. QED BY <2>1, <2>4, SketchAssumption DEF SketchInv, TypeOK, Arrive
<1>2. \A p \in Position : arrive'[p] \in {arrive[p], now}
  BY CountFlowStep, HitsRange
<1>3. TypeOK'
  <2>1. \A p \in Position : counter'[p] \in 0 .. CounterSpace - 1
    <3>. SUFFICES ASSUME NEW p \in Position PROVE counter'[p] \in 0 .. CounterSpace - 1
      OBVIOUS
    <3>1. counter'[p] \in Nat /\ counter'[p] <= packets' * (HashNum * Mss)
      BY CountFlowStep
    <3>2. packets' * (HashNum * Mss) \in Nat
      BY <1>1, SketchAssumption
    <3>. QED BY <3>1, <3>2, <1>1, SketchAssumption
  <2>2. counter' \in [Position -> 0 .. CounterSpace - 1]
    BY <2>1 DEF Arrive, CountFlow
  <2>3. arrive' \in [Position -> -1 .. MaxTime] /\ \A p \in Position : arrive'[p] <= now'
    <3>1. \A p \in Position : arrive'[p] \in -1 .. MaxTime /\ arrive'[p] <= now
      BY <1>1, <1>2 DEF SketchInv, TypeOK
    <3>. QED BY <3>1, <1>1 DEF Arrive, CountFlow
  <2>4. sent' \in [Flow -> Nat] /\ last' \in [Flow -> -1 .. MaxTime]
    BY <1>1, SketchAssumption DEF SketchInv, TypeOK
  <2>. QED BY <2>2, <2>3, <2>4, <1>1 DEF TypeOK
<1>4. Counted'
  BY CountFlowStep DEF Counted
<1>5. ASSUME NEW g \in Flow, NEW p \in Position
      PROVE  /\ Hits(f, p) \in 0 .. HashNum
             /\ counter[p] \in Nat /\ arrive[p] \in -1 .. MaxTime /\ arrive[p] <= now
             /\ sent[g] \in Nat /\ last[g] \in -1 .. MaxTime
  BY HitsRange DEF SketchInv, TypeOK
<1>6. \A p \in Position : Hits(f, p) > 0 => Hits(f, p) * Mss >= Mss
  BY HitsRange, SketchAssumption
<1>7. ASSUME NEW g \in Flow, NEW p \in Position, Hits(g, p) > 0
      PROVE  Covers(g, p)'
  <2>1. Covers(g, p)
    BY <1>7 DEF SketchInv
  <2>2. CASE g # f /\ Hits(f, p) = 0
    <3>1. /\ counter'[p] = counter[p] /\ arrive'[p] = arrive[p]
          /\ sent'[g] = sent[g] /\ last'[g] = last[g]
      BY <2>2, <1>1, CountFlowStep DEF SketchInv, TypeOK
    <3>. QED BY <2>1, <3>1, <1>1 DEF Covers, Idle
  <2>3. CASE g # f /\ Hits(f, p) > 0
    <3>1. /\ counter'[p] = (IF Idle(arrive[p]) THEN 0 ELSE counter[p]) + Hits(f, p) * Mss
          /\ arrive'[p] = now
          /\ sent'[g] = sent[g] /\ last'[g] = last[g]
      BY <2>3, <1>1, CountFlowStep DEF SketchInv, TypeOK
    <3>2. last'[g] <= arrive'[p]
      BY <3>1, <2>1, <1>1, <1>5 DEF Covers
    <3>3. Idle(arrive[p]) => Idle(last[g])
      BY <2>1, <1>1, <1>5, SketchAssumption DEF Covers, Idle
    <3>4. Hits(f, p) * Mss \in Nat
      BY <1>5, SketchAssumption
    <3>5. ~Idle(last[g]) => sent'[g] <= counter'[p]
      BY <3>1, <3>3, <3>4, <2>1, <1>5 DEF Covers
    <3>. QED BY <3>1, <3>2, <3>5, <1>1 DEF Covers, Idle
  <2>4. CASE g = f
    <3>1. /\ counter'[p] = (IF Idle(arrive[p]) THEN 0 ELSE counter[p]) + Hits(f, p) * Mss
          /\ arrive'[p] = now
          /\ sent'[f] = (IF Idle(last[f]) THEN Mss ELSE sent[f] + Mss)
          /\ last'[f] = now
      BY <2>4, <1>1, <1>7, CountFlowStep DEF SketchInv, TypeOK
    <3>2. Idle(arrive[p]) => Idle(last[f])
      BY <2>1, <2>4, <1>1, <1>5, SketchAssumption DEF Covers, Idle
    <3>3. ~Idle(last[f]) => sent[f] <= counter[p]
      BY <2>1, <2>4 DEF Covers
    <3>4. Hits(f, p) * Mss \in Nat /\ Hits(f, p) * Mss >= Mss
      BY <2>4, <1>5, <1>6, <1>7, SketchAssumption
    <3>5. sent'[f] <= counter'[p]
      BY <3>1, <3>2, <3>3, <3>4, <1>5, SketchAssumption
    <3>. QED BY <2>4, <3>1, <3>5, <1>1 DEF Covers
  <2>. QED BY <2>2, <2>3, <2>4, <1>5
<1>8. ASSUME NEW g \in Flow, NEW p \in Position, Exclusive(g, p)
      PROVE  Own(g, p)'
  <2>1. Own(g, p)
    BY <1>8 DEF SketchInv
  <2>2. CASE g # f
    <3>1. Hits(f, p) = 0
      BY <2>2, <1>8 DEF Exclusive
    <3>2. /\ counter'[p] = counter[p] /\ arrive'[p] = arrive[p]
          /\ sent'[g] = sent[g] /\ last'[g] = last[g]
      BY <2>2, <3>1, <1>1, CountFlowStep DEF SketchInv, TypeOK
    <3>. QED BY <2>1, <3>2, <1>1 DEF Own, Idle
  <2>3. CASE g = f
    <3>1. Hits(f, p) = 1
      BY <2>3, <1>8 DEF Exclusive
    <3>2. /\ counter'[p] = (IF Idle(arrive[p]) THEN 0 ELSE counter[p]) + Mss
          /\ arrive'[p] = now
          /\ sent'[f] = (IF Idle(last[f]) THEN Mss ELSE sent[f] + Mss)
          /\ last'[f] = now
      BY <2>3, <3>1, <1>1, CountFlowStep, SketchAssumption DEF SketchInv, TypeOK
    <3>3. counter'[p] = sent'[f]
      BY <2>1, <2>3, <3>2, <1>5, SketchAssumption DEF Own
    <3>. QED BY <2>3, <3>2, <3>3 DEF Own
  <2>. QED BY <2>2, <2>3
<1>. QED BY <1>3, <1>4, <1>7, <1>8 DEF SketchInv, Exclusive, Hits

------------------------------------------------------------------------------

\* The invariant holds throughout.
THEOREM SketchIsSound == Spec => []SketchInv
<1>1. SketchInv /\ [Next]_vars => SketchInv'
  <2>. SUFFICES ASSUME SketchInv, [Next]_vars PROVE SketchInv'
    OBVIOUS
  <2>1. CASE Tick
    BY <2>1, TickStep
  <2>2. ASSUME NEW f \in Flow, Arrive(f) PROVE SketchInv'
    BY <2>2, ArriveStep
  <2>3. CASE UNCHANGED vars
    BY <2>3 DEF vars, SketchInv, TypeOK, Counted, Covers, Own, Idle, Exclusive, Hits
  <2>. QED BY <2>1, <2>2, <2>3 DEF Next
<1>. QED BY InitSketch, <1>1, PTL DEF Spec

\* SketchInv bounds the estimate from below.
LEMMA QueryCovers ==
    ASSUME SketchInv, NEW f \in Flow, ~Idle(last[f])
    PROVE  sent[f] <= Query_count(f)
<1>1. ASSUME NEW i \in HashIndex
      PROVE  sent[f] <= counter[Hash[f][i]]
  BY HashHits DEF SketchInv, Covers
<1>2. sent[f] <= QueryMax
  <2>1. 0 \in HashIndex
    BY SketchAssumption DEF HashIndex
  <2>2. /\ sent[f] <= counter[Hash[f][0]] /\ Hash[f][0] \in Position
        /\ sent[f] \in Nat
    BY <2>1, <1>1, HashHits DEF SketchInv, TypeOK
  <2>3. /\ counter[Hash[f][0]] \in Nat /\ packets \in 0 .. MaxPackets
        /\ counter[Hash[f][0]] <= packets * (HashNum * Mss)
    BY <2>2 DEF SketchInv, TypeOK, Counted
  <2>4. HashNum * Mss \in Nat
    BY SketchAssumption
  <2>5. packets * (HashNum * Mss) <= MaxPackets * (HashNum * Mss)
    BY <2>3, <2>4, SketchAssumption
  <2>6. packets * (HashNum * Mss) \in Nat /\ MaxPackets * (HashNum * Mss) \in Nat
    BY <2>3, <2>4, SketchAssumption
  <2>. QED BY <2>2, <2>3, <2>5, <2>6, SketchAssumption
<1>. QED BY <1>1, <1>2, QueryIsLeast DEF SketchInv

\* Approximation is on one side only: the estimate that enque ranks a flow by
\* (appro_unknown.cc:52-55) is never below what the flow has sent since it was
\* last idle.
THEOREM NeverUnder == Spec => []NeverUnderestimates
<1>1. SketchInv => NeverUnderestimates
  BY QueryCovers DEF NeverUnderestimates
<1>. QED BY SketchIsSound, <1>1, PTL

\* A flow in progress with a position of its own is known exactly.
THEOREM OwnIsExact == Spec => []ExactWhenAlone
<1>1. SketchInv => ExactWhenAlone
  <2>. SUFFICES ASSUME SketchInv, NEW f \in Flow, ~Idle(last[f]),
                       NEW p \in Position, Exclusive(f, p)
                PROVE  Query_count(f) = sent[f]
    BY DEF ExactWhenAlone
  <2>1. counter[p] = sent[f]
    BY DEF SketchInv, Own
  <2>2. PICK i \in HashIndex : Hash[f][i] = p
    BY HitByHash DEF Exclusive
  <2>3. Query_count(f) <= sent[f] /\ Query_count(f) \in Nat
    BY <2>1, <2>2, QueryIsLeast DEF SketchInv
  <2>4. sent[f] <= Query_count(f) /\ sent[f] \in Nat
    BY QueryCovers DEF SketchInv, TypeOK
  <2>. QED BY <2>3, <2>4
<1>. QED BY SketchIsSound, <1>1, PTL

------------------------------------------------------------------------------
(* The sketch of the switch                                                *)

cell(f, r) == tstamp_counter[r][cm_hash[r][f]]

SketchTypeOK ==
    /\ clock \in Nat
    /\ tstamp_counter \in [Row -> [Cell -> [hi : 0 .. TstampSpace - 1, lo : Nat]]]
    /\ burst \in [Stream -> Nat]
    /\ latest \in [Stream -> Nat] /\ \A f \in Stream : latest[f] <= clock
    /\ noticed \in [Stream -> BOOLEAN]

\* The cell was hit at t, when f had sent its last packet, and counts at least
\* what f sent.
Hit(f, r) ==
    /\ \E t \in Nat : latest[f] <= t /\ t <= clock /\ cell(f, r).hi = t % TstampSpace
    /\ ~Quiet(f) => burst[f] <= cell(f, r).lo

\* A cell f has for itself.
OwnHit(f, r) ==
    /\ cell(f, r).hi = latest[f] % TstampSpace
    /\ noticed[f] => cell(f, r).lo = burst[f]

BurstInv ==
    /\ SketchTypeOK
    /\ \A f \in Stream, r \in Row : Hit(f, r)
    /\ \A f \in Stream, r \in Row : Alone(f, r) => OwnHit(f, r)

------------------------------------------------------------------------------
(* Time                                                                    *)

\* A number below the modulus is its own remainder.
LEMMA SmallMod ==
    ASSUME NEW m \in Nat, NEW x \in Nat, x < m
    PROVE  x % m = x
<1>1. x \in 0 .. m - 1 /\ x = 0 * m + x
  OBVIOUS
<1>. QED BY <1>1, ModUnique

\* What ModDifference says, a name by which it is applied.
SameDifference(m, a, b) ==
    \A x, y \in Int : x = a % m /\ y = b % m => (x - y) % m = (a - b) % m

\* A difference of remainders is the difference, up to the modulus.
LEMMA ModDifference ==
    ASSUME NEW m \in Nat, m > 0, NEW a \in Nat, NEW b \in Nat
    PROVE  SameDifference(m, a, b)
<1>. SUFFICES ASSUME NEW x \in Int, NEW y \in Int, x = a % m, y = b % m
              PROVE  (x - y) % m = (a - b) % m
  BY DEF SameDifference
<1> DEFINE qa == a \div m
           qb == b \div m
           c == x - y
           q == c \div m
           r == c % m
<1>1. qa \in Int /\ a = qa * m + x /\ qb \in Int /\ b = qb * m + y
  OBVIOUS
<1>. HIDE DEF qa, qb
<1>2. c \in Int
  OBVIOUS
<1>. HIDE DEF c
<1>3. q \in Int /\ r \in 0 .. m - 1 /\ c = q * m + r
  BY <1>2
<1>. HIDE DEF q, r
<1> DEFINE k == qa - qb + q
<1>4. k \in Int /\ a - b = k * m + r
  <2>1. a - b = (qa * m - qb * m) + (q * m + r)
    BY <1>1, <1>3 DEF c
  <2>2. k * m = (qa * m - qb * m) + q * m
    BY <1>1, <1>3
  <2>3. qa * m \in Int /\ qb * m \in Int /\ q * m \in Int
    BY <1>1, <1>3
  <2>. QED BY <2>1, <2>2, <2>3, <1>1, <1>3
<1>. HIDE DEF k
<1>5. (k * m + r) % m = r
  BY <1>3, <1>4, ModUnique
<1>6. (x - y) % m = r
  BY DEF r, c
<1>. QED BY <1>4, <1>5, <1>6

\* A cell that stands for time t is stale by the difference to the clock, and within
\* the interval it is not.
LEMMA StaleAge ==
    ASSUME clock \in Nat, NEW t \in Nat, t <= clock
    PROVE  /\ Stale(t % TstampSpace) <=> (clock - t) % TstampSpace > INTERVAL
           /\ clock - t <= INTERVAL => ~Stale(t % TstampSpace)
<1>1. INTERVAL \in Nat /\ TstampSpace \in Nat /\ INTERVAL < TstampSpace
  BY P4SketchAssumption
<1> DEFINE x == tstamp
           y == t % TstampSpace
           age == (clock - t) % TstampSpace
<1>2. x \in Int /\ x = clock % TstampSpace /\ y \in Int /\ age \in Int
  BY <1>1 DEF tstamp
<1>3. Stale(y) <=> (x - y) % TstampSpace > INTERVAL
  BY DEF Stale
<1>4. y = t % TstampSpace
  OBVIOUS
<1>. HIDE DEF x, y
<1>5. (x - y) % TstampSpace = age
  <2>1. TstampSpace > 0
    BY <1>1
  <2>2. SameDifference(TstampSpace, clock, t)
    BY <1>1, <2>1, ModDifference
  <2>. QED BY <1>2, <1>4, <2>2 DEF SameDifference
<1>6. ASSUME clock - t <= INTERVAL PROVE age = clock - t
  <2>1. clock - t \in Nat /\ clock - t < TstampSpace
    BY <1>1, <1>6
  <2>. QED BY <2>1, <1>1, SmallMod
<1>. HIDE DEF age
<1>7. /\ Stale(y) <=> age > INTERVAL
      /\ clock - t <= INTERVAL => ~Stale(y)
  BY <1>1, <1>2, <1>3, <1>5, <1>6
<1>. QED BY <1>7 DEF y, age

------------------------------------------------------------------------------
(* The steps                                                               *)

\* The registers are zero when the switch starts, and so is the clock.
LEMMA InitBurst == SketchInit => BurstInv
<1>. SUFFICES ASSUME SketchInit PROVE BurstInv
  OBVIOUS
<1>1. 0 % TstampSpace = 0 /\ 0 \in 0 .. TstampSpace - 1
  BY P4SketchAssumption, SmallMod
<1>2. \A f \in Stream, r \in Row : cell(f, r).hi = 0 /\ cell(f, r).lo = 0
  BY P4SketchAssumption DEF SketchInit, cell
<1>3. SketchTypeOK
  BY <1>1 DEF SketchInit, SketchTypeOK
<1>4. \A f \in Stream, r \in Row : Hit(f, r) /\ OwnHit(f, r)
  BY <1>1, <1>2 DEF SketchInit, Hit, OwnHit
<1>. QED BY <1>3, <1>4 DEF BurstInv

\* Time passing only makes streams quiet.
LEMMA ClockStep == BurstInv /\ ClockTick => BurstInv'
<1>. SUFFICES ASSUME BurstInv, ClockTick PROVE BurstInv'
  OBVIOUS
<1>1. /\ clock \in Nat /\ clock' = clock + 1
      /\ UNCHANGED <<tstamp_counter, burst, latest, noticed>>
      /\ \A f \in Stream : latest[f] \in Nat
  BY DEF BurstInv, SketchTypeOK, ClockTick
<1>2. SketchTypeOK'
  BY <1>1 DEF BurstInv, SketchTypeOK
<1>3. ASSUME NEW f \in Stream, NEW r \in Row PROVE Hit(f, r)'
  <2>1. cell(f, r)' = cell(f, r)
    BY <1>1 DEF cell
  <2>2. Hit(f, r)
    BY DEF BurstInv
  <2>3. Quiet(f) => Quiet(f)'
    BY <1>1, P4SketchAssumption DEF Quiet
  <2>4. PICK t \in Nat : latest[f] <= t /\ t <= clock /\ cell(f, r).hi = t % TstampSpace
    BY <2>2 DEF Hit
  <2>5. latest'[f] <= t /\ t <= clock' /\ cell(f, r)'.hi = t % TstampSpace
    BY <1>1, <2>1, <2>4
  <2>6. ~Quiet(f)' => burst'[f] <= cell(f, r)'.lo
    BY <1>1, <2>1, <2>2, <2>3 DEF Hit
  <2>. QED BY <2>5, <2>6 DEF Hit
<1>4. \A f \in Stream, r \in Row : OwnHit(f, r) => OwnHit(f, r)'
  BY <1>1 DEF OwnHit, cell
<1>. QED BY <1>2, <1>3, <1>4 DEF BurstInv, Alone

\* A packet of g adds to the cells it hits, and begins those that are stale anew
\* (qcluster.p4:107-121).
LEMMA IngressStep ==
    ASSUME BurstInv, NEW g \in Stream, NEW len \in totalLen, Ingress(g, len)
    PROVE  BurstInv'
<1>1. /\ SketchTypeOK /\ clock \in Nat /\ clock' = clock /\ len \in Nat /\ len >= 1
      /\ INTERVAL \in Nat /\ TstampSpace \in Nat /\ TstampSpace > 0
      /\ cm_hash \in [Row -> [Stream -> Cell]]
  BY P4SketchAssumption DEF BurstInv, SketchTypeOK, Ingress
<1>2. tstamp \in 0 .. TstampSpace - 1
  BY <1>1, ModRange DEF tstamp
<1>3. ASSUME NEW f \in Stream, NEW r \in Row
      PROVE  /\ cell(f, r) \in [hi : 0 .. TstampSpace - 1, lo : Nat]
             /\ cell(f, r)' = IF cm_hash[r][f] = cm_hash[r][g] THEN CmAlu(cell(f, r), len)
                              ELSE cell(f, r)
  <2>1. tstamp_counter'[r] = [tstamp_counter[r] EXCEPT ![cm_hash[r][g]] = CmAlu(@, len)]
    BY DEF Ingress
  <2>2. tstamp_counter[r] \in [Cell -> [hi : 0 .. TstampSpace - 1, lo : Nat]]
    BY <1>1 DEF SketchTypeOK
  <2>3. cm_hash[r][f] \in Cell /\ cm_hash[r][g] \in Cell
    BY <1>1
  <2>. QED BY <2>1, <2>2, <2>3 DEF cell
<1>4. \A c \in [hi : 0 .. TstampSpace - 1, lo : Nat] :
        /\ CmAlu(c, len) \in [hi : 0 .. TstampSpace - 1, lo : Nat]
        /\ CmAlu(c, len).hi = tstamp
        /\ CmAlu(c, len).lo = IF Stale(c.hi) THEN 1 ELSE c.lo + len
  BY <1>1, <1>2 DEF CmAlu
<1>5. /\ burst \in [Stream -> Nat] /\ latest \in [Stream -> Nat] /\ noticed \in [Stream -> BOOLEAN]
      /\ \A f \in Stream : latest[f] <= clock
  BY <1>1 DEF SketchTypeOK
<1>6. /\ burst' = [burst EXCEPT ![g] = IF Quiet(g) THEN 1 ELSE @ + len]
      /\ latest' = [latest EXCEPT ![g] = clock]
      /\ noticed' = [noticed EXCEPT ![g] =
             IF Quiet(g) THEN (clock - latest[g]) % TstampSpace > INTERVAL ELSE @]
  BY DEF Ingress
<1>7. SketchTypeOK'
  <2>1. tstamp_counter' \in [Row -> [Cell -> [hi : 0 .. TstampSpace - 1, lo : Nat]]]
    <3>1. tstamp_counter' = [r \in Row |->
             [tstamp_counter[r] EXCEPT ![cm_hash[r][g]] = CmAlu(@, len)]]
      BY DEF Ingress
    <3>2. ASSUME NEW r \in Row
          PROVE  [tstamp_counter[r] EXCEPT ![cm_hash[r][g]] = CmAlu(@, len)]
                    \in [Cell -> [hi : 0 .. TstampSpace - 1, lo : Nat]]
      <4>1. tstamp_counter[r] \in [Cell -> [hi : 0 .. TstampSpace - 1, lo : Nat]]
        BY <1>1 DEF SketchTypeOK
      <4>2. cm_hash[r][g] \in Cell
        BY <1>1
      <4>. QED BY <4>1, <4>2, <1>4
    <3>. QED BY <3>1, <3>2
  <2>2. burst' \in [Stream -> Nat]
    BY <1>1, <1>5, <1>6
  <2>3. latest' \in [Stream -> Nat] /\ \A f \in Stream : latest'[f] <= clock'
    BY <1>1, <1>5, <1>6
  <2>4. noticed' \in [Stream -> BOOLEAN]
    <3> DEFINE age == (clock - latest[g]) % TstampSpace
    <3>1. (age > INTERVAL) \in BOOLEAN
      OBVIOUS
    <3>. HIDE DEF age
    <3>2. noticed' = [noticed EXCEPT ![g] = IF Quiet(g) THEN age > INTERVAL ELSE @]
      BY <1>6 DEF age
    <3>. QED BY <3>1, <3>2, <1>5
  <2>. QED BY <1>1, <2>1, <2>2, <2>3, <2>4 DEF SketchTypeOK
<1>8. ASSUME NEW f \in Stream, NEW r \in Row PROVE Hit(f, r)'
  <2>1. PICK t \in Nat : latest[f] <= t /\ t <= clock /\ cell(f, r).hi = t % TstampSpace
    BY DEF BurstInv, Hit
  <2>2. ~Quiet(f) => burst[f] <= cell(f, r).lo
    BY DEF BurstInv, Hit
  <2>3. ~Quiet(f) => ~Stale(cell(f, r).hi)
    <3>1. ASSUME ~Quiet(f) PROVE clock - t <= INTERVAL
      BY <3>1, <1>1, <1>5, <2>1 DEF Quiet
    <3>. QED BY <3>1, <1>1, <2>1, StaleAge
  <2>4. cell(f, r).lo \in Nat /\ burst[f] \in Nat
    BY <1>3, <1>5
  <2>5. CASE cm_hash[r][f] # cm_hash[r][g]
    <3>1. f # g /\ cell(f, r)' = cell(f, r)
      BY <2>5, <1>3
    <3>2. latest'[f] = latest[f] /\ burst'[f] = burst[f] /\ (Quiet(f)' <=> Quiet(f))
      BY <3>1, <1>1, <1>5, <1>6 DEF Quiet
    <3>3. latest'[f] <= t /\ t <= clock' /\ cell(f, r)'.hi = t % TstampSpace
      BY <1>1, <2>1, <3>1, <3>2
    <3>4. ~Quiet(f)' => burst'[f] <= cell(f, r)'.lo
      BY <2>2, <3>1, <3>2
    <3>. QED BY <3>3, <3>4 DEF Hit
  <2>6. CASE cm_hash[r][f] = cm_hash[r][g]
    <3>1. /\ cell(f, r)'.hi = clock % TstampSpace
          /\ cell(f, r)'.lo = IF Stale(cell(f, r).hi) THEN 1 ELSE cell(f, r).lo + len
      BY <2>6, <1>3, <1>4 DEF tstamp
    <3>2. latest'[f] <= clock /\ clock <= clock' /\ cell(f, r)'.hi = clock % TstampSpace
      BY <1>1, <1>5, <1>6, <3>1
    <3>3. ~Quiet(f)' => burst'[f] <= cell(f, r)'.lo
      <4>1. CASE f = g /\ Quiet(g)
        BY <4>1, <1>1, <1>5, <1>6, <2>4, <3>1
      <4>2. CASE f = g /\ ~Quiet(g)
        BY <4>2, <1>1, <1>5, <1>6, <2>2, <2>3, <2>4, <3>1
      <4>3. CASE f # g
        <5>1. latest'[f] = latest[f] /\ burst'[f] = burst[f] /\ (Quiet(f)' <=> Quiet(f))
          BY <4>3, <1>1, <1>5, <1>6 DEF Quiet
        <5>. QED BY <5>1, <1>1, <2>2, <2>3, <2>4, <3>1
      <4>. QED BY <4>1, <4>2, <4>3
    <3>. QED BY <3>2, <3>3, <1>1 DEF Hit
  <2>. QED BY <2>5, <2>6
<1>9. ASSUME NEW f \in Stream, NEW r \in Row, Alone(f, r) PROVE OwnHit(f, r)'
  <2>1. cell(f, r).hi = latest[f] % TstampSpace /\ (noticed[f] => cell(f, r).lo = burst[f])
    BY <1>9 DEF BurstInv, OwnHit
  <2>2. CASE f # g
    <3>1. cm_hash[r][f] # cm_hash[r][g]
      BY <2>2, <1>9 DEF Alone
    <3>2. cell(f, r)' = cell(f, r)
      BY <3>1, <1>3
    <3>3. latest'[f] = latest[f] /\ burst'[f] = burst[f] /\ noticed'[f] = noticed[f]
      BY <2>2, <1>5, <1>6
    <3>. QED BY <2>1, <3>2, <3>3 DEF OwnHit
  <2>3. CASE f = g
    <3>1. /\ cell(f, r)'.hi = clock % TstampSpace
          /\ cell(f, r)'.lo = IF Stale(cell(f, r).hi) THEN 1 ELSE cell(f, r).lo + len
      BY <2>3, <1>3, <1>4 DEF tstamp
    <3>2. latest[f] \in Nat /\ latest[f] <= clock
      BY <1>5
    <3>3. /\ Stale(cell(f, r).hi) <=> (clock - latest[f]) % TstampSpace > INTERVAL
          /\ clock - latest[f] <= INTERVAL => ~Stale(cell(f, r).hi)
      BY <1>1, <2>1, <3>2, StaleAge
    <3>4. latest'[f] = clock
      BY <2>3, <1>5, <1>6
    <3>5. CASE Quiet(f)
      <4>1. burst'[f] = 1 /\ (noticed'[f] <=> Stale(cell(f, r).hi))
        BY <2>3, <3>3, <3>5, <1>5, <1>6
      <4>. QED BY <4>1, <3>1, <3>4 DEF OwnHit
    <3>6. CASE ~Quiet(f)
      <4>1. burst'[f] = burst[f] + len /\ noticed'[f] = noticed[f]
        BY <2>3, <3>6, <1>5, <1>6
      <4>2. ~Stale(cell(f, r).hi)
        BY <3>2, <3>3, <3>6, <1>1 DEF Quiet
      <4>. QED BY <4>1, <4>2, <2>1, <3>1, <3>4 DEF OwnHit
    <3>. QED BY <3>5, <3>6
  <2>. QED BY <2>2, <2>3
<1>. QED BY <1>7, <1>8, <1>9 DEF BurstInv, Alone

\* The least of three counters that fit the weight is theirs.
LEMMA InvSuffices == BurstInv => WeightIsBurst
<1>. SUFFICES ASSUME BurstInv, NEW f \in Stream, ~Quiet(f),
                     \A r \in Row : count(f, r) < WeightSpace
              PROVE  /\ burst[f] <= minCount(f)
                     /\ noticed[f] /\ (\E r \in Row : Alone(f, r)) => minCount(f) = burst[f]
  BY DEF WeightIsBurst
<1>1. \A r \in Row : count(f, r) \in Nat /\ burst[f] <= count(f, r)
  <2>. SUFFICES ASSUME NEW r \in Row PROVE count(f, r) \in Nat /\ burst[f] <= count(f, r)
    OBVIOUS
  <2>1. cm_hash[r][f] \in Cell
    BY P4SketchAssumption
  <2>2. count(f, r) \in Nat
    BY <2>1 DEF BurstInv, SketchTypeOK, count
  <2>3. Hit(f, r)
    BY DEF BurstInv
  <2>. QED BY <2>2, <2>3 DEF Hit, count, cell
<1>2. 1 \in Row /\ 2 \in Row /\ 3 \in Row
  BY DEF Row
<1> DEFINE a == count(f, 1)
           b == count(f, 2)
           c == count(f, 3)
<1>3. /\ a \in Nat /\ b \in Nat /\ c \in Nat /\ burst[f] \in Nat
      /\ a < WeightSpace /\ b < WeightSpace /\ c < WeightSpace
      /\ burst[f] <= a /\ burst[f] <= b /\ burst[f] <= c
  BY <1>1, <1>2 DEF BurstInv, SketchTypeOK
<1>4. minCount(f) = Lesser(Lesser(a, b) % WeightSpace, c) % WeightSpace
  BY DEF minCount
<1>5. noticed[f] => \A r \in Row : Alone(f, r) => count(f, r) = burst[f]
  BY DEF BurstInv, OwnHit, count, cell
<1>6. (\E r \in Row : Alone(f, r)) => Alone(f, 1) \/ Alone(f, 2) \/ Alone(f, 3)
  BY DEF Row
<1>7. noticed[f] /\ (\E r \in Row : Alone(f, r)) => a = burst[f] \/ b = burst[f] \/ c = burst[f]
  BY <1>2, <1>5, <1>6
<1>. HIDE DEF a, b, c
<1>8. Lesser(a, b) % WeightSpace = Lesser(a, b)
  <2>1. Lesser(a, b) \in Nat /\ Lesser(a, b) < WeightSpace
    BY <1>3 DEF Lesser
  <2>. QED BY <2>1, SmallMod, P4SketchAssumption
<1>9. minCount(f) = Lesser(Lesser(a, b), c)
  <2>1. Lesser(Lesser(a, b), c) \in Nat /\ Lesser(Lesser(a, b), c) < WeightSpace
    BY <1>3 DEF Lesser
  <2>. QED BY <2>1, <1>4, <1>8, SmallMod, P4SketchAssumption
<1>. QED BY <1>3, <1>7, <1>9 DEF Lesser

\* Whatever streams collide and however often the time stamp wraps, the weight of a
\* packet is what its stream has sent since it was idle, and no less
\* (qcluster.p4:93-208).
THEOREM WeightIsRight == SketchSpec => []WeightIsBurst
<1>1. BurstInv /\ [SketchNext]_sketchVars => BurstInv'
  <2>. SUFFICES ASSUME BurstInv, [SketchNext]_sketchVars PROVE BurstInv'
    OBVIOUS
  <2>1. CASE UNCHANGED sketchVars
    BY <2>1 DEF sketchVars, BurstInv, SketchTypeOK, Hit, OwnHit, cell, Quiet, Alone
  <2>. QED BY <2>1, ClockStep, IngressStep DEF SketchNext
<1>. QED BY InitBurst, <1>1, InvSuffices, PTL DEF SketchSpec

------------------------------------------------------------------------------
(***************************************************************************)
(* What the control plane of the switch learns from its registers, for     *)
(* every width and every weight: exactly the packets, nearly the weight,   *)
(* and averages that stay near the weights.                                *)
(*                                                                         *)
(* The checked properties speak of the moment of the accounting; the       *)
(* invariant says at every step how far each register is ahead of the last *)
(* reading of it (PktInv, WeightInv), and how much of the weight read so   *)
(* far belongs to packets that were not read yet (LagInv).                 *)
(***************************************************************************)

\* signed readings of the packet register that are n packets apart
Apart(new, old, n) == new = old + n \/ new = old + n - PktSpace

PktInv ==
    IF pc \in {"age", "packets"}
    THEN Apart(Signed(pkt), pkt_rec, unread)
    ELSE Apart(pkt_tmp, pkt_rec, seen) /\ Apart(Signed(pkt), pkt_tmp, unread)

WeightRegister == register_hi * Half + register_lo

\* a weight w passed between two readings of the weight register that are in
\* the given number of carries
Near(new, old, w, carries) ==
    new - old \in 0 .. w /\ w <= new - old + MaxWeight * carries

WeightInv ==
    IF pc # "account"
    THEN Near(WeightRegister, weight_rec, unreadW, register_hi - (weight_rec \div Half))
    ELSE /\ Near(weight_tmp, weight_rec, seenW,
                 (weight_tmp \div Half) - (weight_rec \div Half))
         /\ Near(WeightRegister, weight_tmp, unreadW, register_hi - (weight_tmp \div Half))

LagInv ==
    CASE pc \in {"age", "packets"} ->
            /\ lag <= unread
            /\ unreadW <= MaxWeight * (unread - lag)
      [] pc = "weights" ->
            /\ lag <= seen
            /\ unreadW <= MaxWeight * (seen - lag + unread)
      [] pc = "account" ->
            /\ lag <= seen /\ ahead <= unread
            /\ seenW <= MaxWeight * (seen - lag + ahead)
            /\ unreadW <= MaxWeight * (unread - ahead)

CountersInv == CountersTypeOK /\ PktInv /\ WeightInv /\ LagInv /\ AverageBounded

\* The correction by Half at a time finds the distance of two readings that are
\* fewer than Half packets apart (qcluster.py:198-204).
LEMMA DifferenceIsDistance ==
    ASSUME NEW new \in Int, NEW old \in Int, NEW n \in 0 .. Half - 1,
           Apart(new, old, n)
    PROVE  Difference(new, old) = n
<1>1. CASE new = old + n
  BY <1>1, CounterAssumption DEF Difference
<1>2. CASE new = old + n - PktSpace
  <2>1. new - old = (-2) * Half + n /\ new - old < 0
    BY <1>2, CounterAssumption DEF PktSpace
  <2>2. ((-2) * Half + n) % Half = n
    BY CounterAssumption, ModUnique
  <2>. QED BY <2>1, <2>2 DEF Difference
<1>. QED BY <1>1, <1>2 DEF Apart

\* The invariant holds when the registers have been cleared (qcluster.py:130-136).
LEMMA InitCounters == CountersInit => CountersInv
<1>. SUFFICES ASSUME CountersInit PROVE CountersInv
  OBVIOUS
<1>1. CountersTypeOK
  BY CounterAssumption DEF CountersInit, CountersTypeOK, PktSpace
<1>2. PktInv
  BY CounterAssumption DEF CountersInit, PktInv, Apart, Signed
<1>3. 0 \div Half = 0
  <2>1. (0 * Half + 0) \div Half = 0
    BY CounterAssumption, DivUnique
  <2>. QED BY <2>1, CounterAssumption
<1>4. WeightInv
  BY <1>3, CounterAssumption DEF CountersInit, WeightInv, Near, WeightRegister
<1>5. LagInv
  BY CounterAssumption DEF CountersInit, LagInv
<1>6. AverageBounded
  BY CounterAssumption DEF CountersInit, AverageBounded
<1>. QED BY <1>1, <1>2, <1>4, <1>5, <1>6 DEF CountersInv

\* One more packet moves the packet register one further, across its wrap too.
LEMMA PktAdvances ==
    ASSUME CountersTypeOK, pkt' = (pkt + 1) % PktSpace
    PROVE  /\ pkt' \in 0 .. PktSpace - 1
           /\ \/ Signed(pkt') = Signed(pkt) + 1
              \/ Signed(pkt') = Signed(pkt) + 1 - PktSpace
           /\ Signed(pkt) \in -Half .. Half - 1 /\ Signed(pkt') \in -Half .. Half - 1
<1>1. PktSpace \in Nat /\ PktSpace > 1 /\ pkt \in 0 .. PktSpace - 1
  BY CounterAssumption DEF CountersTypeOK, PktSpace
<1>2. pkt' = IF pkt + 1 < PktSpace THEN pkt + 1 ELSE 0
  <2>1. CASE pkt + 1 < PktSpace
    <3>1. (0 * PktSpace + (pkt + 1)) % PktSpace = pkt + 1
      BY <1>1, <2>1, ModUnique
    <3>2. 0 * PktSpace + (pkt + 1) = pkt + 1
      BY <1>1
    <3>. QED BY <2>1, <3>1, <3>2
  <2>2. CASE ~(pkt + 1 < PktSpace)
    <3>1. (1 * PktSpace + 0) % PktSpace = 0
      BY <1>1, ModUnique
    <3>2. 1 * PktSpace + 0 = pkt + 1
      BY <1>1, <2>2
    <3>. QED BY <2>2, <3>1, <3>2
  <2>. QED BY <2>1, <2>2
<1>. QED BY <1>2, CounterAssumption DEF CountersTypeOK, PktSpace, Signed

\* The weight register after a packet of weight m (qcluster.p4:257-265).
LEMMA WeightAdvances ==
    ASSUME CountersTypeOK, NEW m \in Weights, WeightAlu(m),
           register_lo + m > Half - 1 => register_hi < MaxHi
    PROVE  /\ register_hi' \in 0 .. MaxHi /\ register_lo' \in 0 .. Half - 1
           /\ register_hi' - register_hi \in 0 .. 1
           /\ WeightRegister' - WeightRegister \in 0 .. m
           /\ m <= WeightRegister' - WeightRegister
                   + MaxWeight * (register_hi' - register_hi)
<1>1. /\ m \in 0 .. MaxWeight /\ MaxWeight \in Nat /\ MaxWeight < Half
      /\ Half \in Nat /\ MaxHi \in Nat
      /\ register_hi \in 0 .. MaxHi /\ register_lo \in 0 .. Half - 1
  BY CounterAssumption DEF CountersTypeOK
<1>2. CASE register_lo + m > Half - 1
  <2>1. register_lo' = 0 /\ register_hi' = register_hi + 1
    BY <1>2 DEF WeightAlu
  <2>2. WeightRegister' = register_hi * Half + Half
    BY <2>1, <1>1 DEF WeightRegister
  <2>3. register_hi * Half \in Nat
    BY <1>1
  <2>4. WeightRegister' - WeightRegister = Half - register_lo
    BY <2>2, <2>3, <1>1 DEF WeightRegister
  <2>5. MaxWeight * (register_hi' - register_hi) = MaxWeight
    BY <2>1, <1>1
  <2>. QED BY <2>1, <2>4, <2>5, <1>1, <1>2
<1>3. CASE ~(register_lo + m > Half - 1)
  <2>1. register_lo' = register_lo + m /\ register_hi' = register_hi
    BY <1>3 DEF WeightAlu
  <2>2. register_hi * Half \in Nat
    BY <1>1
  <2>3. WeightRegister' - WeightRegister = m
    BY <2>1, <2>2, <1>1 DEF WeightRegister
  <2>4. MaxWeight * (register_hi' - register_hi) = 0
    BY <2>1, <1>1
  <2>. QED BY <2>1, <2>3, <2>4, <1>1, <1>3
<1>. QED BY <1>2, <1>3

\* Closeness of the weight register to a reading survives a packet.
LEMMA NearAdvances ==
    ASSUME NEW old \in Int, NEW w \in Nat, NEW m \in Nat, NEW h \in Int,
           NEW v \in Int, NEW v2 \in Int, NEW d \in 0 .. 1,
           Near(v, old, w, h), v2 - v \in 0 .. m, m <= v2 - v + MaxWeight * d
    PROVE  Near(v2, old, w + m, h + d)
<1>1. MaxWeight * (h + d) = MaxWeight * h + MaxWeight * d
  BY CounterAssumption
<1>2. MaxWeight * h \in Int /\ MaxWeight * d \in Int
  BY CounterAssumption
<1>. QED BY <1>1, <1>2 DEF Near

\* A packet of the data plane keeps the invariant.
LEMMA CounterPacketStep ==
    ASSUME CountersInv, NEW m \in Weights, Packet(m)
    PROVE  CountersInv'
<1>1. /\ MaxWeight \in Nat /\ Half \in Nat /\ m \in 0 .. MaxWeight
      /\ pkt_rec \in Int /\ pkt_tmp \in Int /\ weight_rec \in Nat /\ weight_tmp \in Nat
      /\ unread \in 0 .. Half - 1 /\ seen \in 0 .. Half - 1
      /\ unreadW \in Nat /\ seenW \in Nat /\ ahead \in Nat /\ lag \in Nat
      /\ unread < Half - 1
      /\ unread' = unread + 1 /\ unreadW' = unreadW + m
      /\ UNCHANGED <<pc, reading, record, counters, seen, seenW, ahead, lag>>
  BY CounterAssumption DEF CountersInv, CountersTypeOK, Packet
<1>2. /\ pkt' \in 0 .. PktSpace - 1
      /\ \/ Signed(pkt') = Signed(pkt) + 1
         \/ Signed(pkt') = Signed(pkt) + 1 - PktSpace
      /\ Signed(pkt) \in -Half .. Half - 1 /\ Signed(pkt') \in -Half .. Half - 1
  BY PktAdvances DEF CountersInv, Packet
<1>3. /\ register_hi' \in 0 .. MaxHi /\ register_lo' \in 0 .. Half - 1
      /\ register_hi' - register_hi \in 0 .. 1
      /\ WeightRegister' - WeightRegister \in 0 .. m
      /\ m <= WeightRegister' - WeightRegister + MaxWeight * (register_hi' - register_hi)
  BY WeightAdvances DEF CountersInv, Packet
<1>4. CountersTypeOK'
  BY <1>1, <1>2, <1>3, CounterAssumption DEF CountersInv, CountersTypeOK, reading, record, counters
<1>5. PktInv'
  <2>1. ASSUME NEW old \in -Half .. Half - 1, Apart(Signed(pkt), old, unread)
        PROVE  Apart(Signed(pkt'), old, unread')
    BY <2>1, <1>1, <1>2, CounterAssumption DEF Apart, PktSpace
  <2>2. pkt_rec \in -Half .. Half - 1 /\ pkt_tmp \in -Half .. Half - 1
    BY DEF CountersInv, CountersTypeOK
  <2>. QED BY <2>1, <2>2, <1>1 DEF CountersInv, PktInv, reading, record, Signed, Apart
<1>6. WeightInv'
  <2>1. WeightRegister \in Int /\ WeightRegister' \in Int /\ register_hi \in Int /\ register_hi' \in Int
    BY <1>1, <1>3, CounterAssumption DEF CountersInv, CountersTypeOK, WeightRegister
  <2>2. ASSUME NEW old \in Nat,
               Near(WeightRegister, old, unreadW, register_hi - (old \div Half))
        PROVE  Near(WeightRegister', old, unreadW', register_hi' - (old \div Half))
    <3>1. old \div Half \in Int
      BY DivNat, CounterAssumption
    <3> DEFINE h == register_hi - (old \div Half)
               d == register_hi' - register_hi
               v == WeightRegister
               u == WeightRegister'
    <3>2. /\ h \in Int /\ d \in 0 .. 1 /\ v \in Int /\ u \in Int /\ m \in Nat
          /\ Near(v, old, unreadW, h) /\ u - v \in 0 .. m /\ m <= u - v + MaxWeight * d
      <4>1. h \in Int
        BY <2>1, <3>1
      <4>2. m \in Nat
        BY <1>1
      <4>3. Near(v, old, unreadW, h)
        BY <2>2
      <4>. QED BY <2>1, <1>3, <4>1, <4>2, <4>3
    <3>. HIDE DEF h, d, v, u
    <3>4. Near(u, old, unreadW + m, h + d)
      BY <3>2, <1>1, NearAdvances
    <3>. USE DEF h, d, v, u
    <3>3. (register_hi - (old \div Half)) + (register_hi' - register_hi)
            = register_hi' - (old \div Half)
      BY <2>1, <3>1
    <3>. QED BY <3>4, <3>3, <1>1
  <2>. QED BY <2>2, <1>1 DEF CountersInv, WeightInv, reading, record
<1>7. LagInv'
  <2>1. ASSUME NEW n \in Int, unreadW <= MaxWeight * n
        PROVE  unreadW' <= MaxWeight * (n + 1)
    <3>1. MaxWeight * (n + 1) = MaxWeight * n + MaxWeight /\ MaxWeight * n \in Int
      BY <1>1
    <3>. QED BY <3>1, <2>1, <1>1
  <2>2. CASE pc \in {"age", "packets"}
    <3>1. lag <= unread /\ unreadW <= MaxWeight * (unread - lag)
      BY <2>2 DEF CountersInv, LagInv
    <3>2. unreadW' <= MaxWeight * ((unread - lag) + 1)
      BY <2>1, <3>1, <1>1
    <3>3. (unread - lag) + 1 = unread' - lag'
      BY <1>1
    <3>4. lag' <= unread' /\ unreadW' <= MaxWeight * (unread' - lag')
      BY <1>1, <3>1, <3>2, <3>3
    <3>5. pc' \in {"age", "packets"}
      BY <2>2, <1>1
    <3>. QED BY <3>4, <3>5 DEF LagInv
  <2>3. CASE pc = "weights"
    <3>1. unreadW' <= MaxWeight * ((seen - lag + unread) + 1)
      BY <2>1, <2>3, <1>1 DEF CountersInv, LagInv
    <3>2. (seen - lag + unread) + 1 = seen - lag + unread'
      BY <1>1
    <3>. QED BY <3>1, <3>2, <2>3, <1>1 DEF CountersInv, LagInv
  <2>4. CASE pc = "account"
    <3>1. unreadW' <= MaxWeight * ((unread - ahead) + 1)
      BY <2>1, <2>4, <1>1 DEF CountersInv, LagInv
    <3>2. (unread - ahead) + 1 = unread' - ahead
      BY <1>1
    <3>. QED BY <3>1, <3>2, <2>4, <1>1 DEF CountersInv, LagInv
  <2>. QED BY <2>2, <2>3, <2>4 DEF CountersInv, CountersTypeOK
<1>8. AverageBounded'
  BY <1>1 DEF CountersInv, AverageBounded, counters
<1>. QED BY <1>4, <1>5, <1>6, <1>7, <1>8 DEF CountersInv

\* Halving both counters keeps the average within its bound (qcluster.py:168-170).
LEMMA AgeStep == CountersInv /\ Age => CountersInv'
<1>. SUFFICES ASSUME CountersInv, Age PROVE CountersInv'
  OBVIOUS
<1>1. /\ pc = "age" /\ pc' = "packets"
      /\ UNCHANGED <<registers, reading, record, ghosts>>
      /\ pkt_counters \in Nat /\ weight_counters \in Nat /\ lag \in Nat /\ MaxWeight \in Nat
      /\ weight_counters <= MaxWeight * (pkt_counters + lag + 1)
  BY CounterAssumption DEF CountersInv, CountersTypeOK, Age, AverageBounded
<1>2. /\ pkt_counters' \in Nat /\ weight_counters' \in Nat
      /\ weight_counters' <= MaxWeight * (pkt_counters' + lag + 1)
  <2>1. CASE pkt_counters > Aging
    <3> DEFINE P == pkt_counters
               W == weight_counters
               p == pkt_counters \div 2
               w == weight_counters \div 2
               M == MaxWeight
    <3>1. pkt_counters' = p /\ weight_counters' = w
      BY <2>1 DEF Age
    <3>2. p \in Nat /\ w \in Nat /\ P <= 2 * p + 1 /\ 2 * w <= W
      BY <1>1, HalfBounds
    <3>. HIDE DEF p, w
    <3>3. M * (P + lag + 1) <= M * (2 * (p + lag + 1))
      <4>1. \E k \in Nat : 2 * (p + lag + 1) = (P + lag + 1) + k
        <5>1. 2 * (p + lag + 1) - (P + lag + 1) \in Nat
          BY <3>2, <1>1
        <5>. QED BY <5>1, <3>2, <1>1
      <4>2. PICK k \in Nat : 2 * (p + lag + 1) = (P + lag + 1) + k
        BY <4>1
      <4>3. M * ((P + lag + 1) + k) = M * (P + lag + 1) + M * k /\ M * k \in Nat
        BY <1>1
      <4>4. M * (P + lag + 1) \in Nat
        BY <1>1
      <4>. QED BY <4>2, <4>3, <4>4
    <3>4. M * (2 * (p + lag + 1)) = 2 * (M * (p + lag + 1)) /\ M * (p + lag + 1) \in Nat
      BY <1>1, <3>2
    <3>5. w <= M * (p + lag + 1)
      BY <1>1, <3>2, <3>3, <3>4
    <3>. QED BY <3>1, <3>2, <3>5
  <2>2. CASE ~(pkt_counters > Aging)
    BY <2>2, <1>1 DEF Age, counters
  <2>. QED BY <2>1, <2>2
<1>3. CountersTypeOK'
  BY <1>1, <1>2 DEF CountersInv, CountersTypeOK, registers, reading, record, ghosts
<1>4. PktInv' /\ WeightInv' /\ LagInv'
  BY <1>1 DEF CountersInv, PktInv, WeightInv, LagInv, registers, reading, record, ghosts,
     WeightRegister, Signed, Apart, Near
<1>5. AverageBounded'
  BY <1>1, <1>2 DEF AverageBounded, ghosts
<1>. QED BY <1>3, <1>4, <1>5 DEF CountersInv

\* Reading the packet register (qcluster.py:178-180).
LEMMA ReadPktStep == CountersInv /\ ReadPkt => CountersInv'
<1>. SUFFICES ASSUME CountersInv, ReadPkt PROVE CountersInv'
  OBVIOUS
<1>1. /\ pc = "packets" /\ pc' = "weights" /\ pkt_tmp' = Signed(pkt)
      /\ seen' = unread /\ unread' = 0
      /\ UNCHANGED <<registers, weight_tmp, record, counters, unreadW, seenW, ahead, lag>>
      /\ unread \in 0 .. Half - 1 /\ lag \in Nat /\ Half \in Nat /\ Half > 0
      /\ Signed(pkt) \in -Half .. Half - 1
  BY CounterAssumption DEF CountersInv, CountersTypeOK, ReadPkt, Signed, PktSpace
<1>2. CountersTypeOK'
  BY <1>1 DEF CountersInv, CountersTypeOK, registers, record, counters
<1>3. PktInv'
  BY <1>1 DEF CountersInv, PktInv, registers, record, Signed, Apart
<1>4. WeightInv'
  BY <1>1 DEF CountersInv, WeightInv, registers, record, WeightRegister, Near
<1>5. LagInv'
  <2>1. unread - lag = seen' - lag' + unread'
    BY <1>1
  <2>. QED BY <1>1, <2>1 DEF CountersInv, LagInv
<1>6. AverageBounded'
  BY <1>1 DEF CountersInv, AverageBounded, counters
<1>. QED BY <1>2, <1>3, <1>4, <1>5, <1>6 DEF CountersInv

\* Reading the weight register (qcluster.py:181-183).
LEMMA ReadWeightStep == CountersInv /\ ReadWeight => CountersInv'
<1>. SUFFICES ASSUME CountersInv, ReadWeight PROVE CountersInv'
  OBVIOUS
<1>1. /\ pc = "weights" /\ pc' = "account" /\ weight_tmp' = WeightRegister
      /\ seenW' = unreadW /\ unreadW' = 0 /\ ahead' = unread
      /\ UNCHANGED <<registers, pkt_tmp, record, counters, unread, seen, lag>>
      /\ unread \in 0 .. Half - 1 /\ lag \in Nat /\ Half \in Nat /\ Half > 0
      /\ register_hi \in Nat /\ register_lo \in 0 .. Half - 1
  BY CounterAssumption DEF CountersInv, CountersTypeOK, ReadWeight, WeightRegister
<1>2. WeightRegister \in Nat /\ WeightRegister \div Half = register_hi
  BY <1>1, DivUnique DEF WeightRegister
<1>3. CountersTypeOK'
  BY <1>1, <1>2 DEF CountersInv, CountersTypeOK, registers, record, counters
<1>4. PktInv'
  BY <1>1 DEF CountersInv, PktInv, registers, record, Signed, Apart
<1>5. WeightInv'
  <2>1. /\ WeightRegister' = WeightRegister /\ register_hi' = register_hi
        /\ weight_rec' = weight_rec
    BY <1>1 DEF registers, record, WeightRegister
  <2>2. Near(WeightRegister, WeightRegister, 0, register_hi - register_hi)
    BY <1>1, <1>2, CounterAssumption DEF Near
  <2>3. Near(WeightRegister, weight_rec, unreadW, register_hi - (weight_rec \div Half))
    BY <1>1 DEF CountersInv, WeightInv
  <2>. QED BY <1>1, <1>2, <2>1, <2>2, <2>3 DEF WeightInv
<1>6. LagInv'
  <2>1. unread' - ahead' = 0 /\ MaxWeight * 0 = 0
    BY <1>1, CounterAssumption
  <2>. QED BY <1>1, <2>1 DEF CountersInv, LagInv
<1>7. AverageBounded'
  BY <1>1 DEF CountersInv, AverageBounded, counters
<1>. QED BY <1>3, <1>4, <1>5, <1>6, <1>7 DEF CountersInv

\* At the accounting the packet difference is exact and the weight difference
\* close: CountersInv implies both checked properties.
LEMMA InvIsEnough ==
    ASSUME CountersInv
    PROVE  /\ PacketsExact /\ WeightClose
           /\ pc = "account" => weight_diff = weight_tmp - weight_rec
<1>1. PacketsExact
  BY DifferenceIsDistance, CounterAssumption DEF CountersInv, CountersTypeOK, PacketsExact, PktInv, pkt_diff
<1>2. ASSUME pc = "account"
      PROVE  /\ weight_diff = weight_tmp - weight_rec
             /\ Near(weight_tmp, weight_rec, seenW,
                     (weight_tmp \div Half) - (weight_rec \div Half))
  BY <1>2 DEF CountersInv, CountersTypeOK, WeightInv, Near, weight_diff, Difference
<1>3. WeightClose
  BY <1>2 DEF WeightClose, Near, CountersInv, CountersTypeOK
<1>. QED BY <1>1, <1>2, <1>3

\* Adding the differences (qcluster.py:205-213).
LEMMA AddReadingsStep == CountersInv /\ AddReadings => CountersInv'
<1>. SUFFICES ASSUME CountersInv, AddReadings PROVE CountersInv'
  OBVIOUS
<1>1. /\ pc = "account" /\ pc' = "age"
      /\ pkt_counters' = pkt_counters + pkt_diff
      /\ weight_counters' = weight_counters + weight_diff
      /\ pkt_rec' = pkt_tmp /\ weight_rec' = weight_tmp
      /\ seen' = 0 /\ seenW' = 0 /\ ahead' = 0 /\ lag' = ahead
      /\ UNCHANGED <<registers, reading, unread, unreadW>>
  BY DEF AddReadings
<1>2. /\ pkt_diff = seen /\ weight_diff = weight_tmp - weight_rec
      /\ weight_diff <= seenW
  BY <1>1, InvIsEnough DEF PacketsExact, WeightClose
<1>3. /\ seen \in Nat /\ lag \in Nat /\ ahead \in Nat /\ MaxWeight \in Nat
      /\ pkt_counters \in Nat /\ weight_counters \in Nat /\ seenW \in Nat
      /\ weight_tmp \in Nat /\ weight_rec \in Nat /\ Half \in Nat /\ Half > 0
  BY CounterAssumption DEF CountersInv, CountersTypeOK
<1>4. weight_tmp - weight_rec \in Nat
  BY <1>1, <1>3 DEF CountersInv, WeightInv, Near
<1>5. CountersTypeOK'
  BY <1>1, <1>2, <1>3, <1>4 DEF CountersInv, CountersTypeOK, registers, reading
<1>6. PktInv'
  BY <1>1 DEF CountersInv, PktInv, registers, reading, Signed, Apart
<1>7. WeightInv'
  BY <1>1 DEF CountersInv, WeightInv, registers, reading, WeightRegister, Near
<1>8. LagInv'
  BY <1>1 DEF CountersInv, LagInv
<1>9. AverageBounded'
  <2>1. /\ weight_counters <= MaxWeight * (pkt_counters + lag + 1)
        /\ seenW <= MaxWeight * (seen - lag + ahead)
    BY <1>1 DEF CountersInv, AverageBounded, LagInv
  <2>2. MaxWeight * (pkt_counters + lag + 1) + MaxWeight * (seen - lag + ahead)
          = MaxWeight * ((pkt_counters + lag + 1) + (seen - lag + ahead))
    BY <1>3
  <2>3. (pkt_counters + lag + 1) + (seen - lag + ahead) = pkt_counters' + lag' + 1
    BY <1>1, <1>2, <1>3
  <2>4. /\ MaxWeight * (pkt_counters + lag + 1) \in Int
        /\ MaxWeight * (seen - lag + ahead) \in Int
    BY <1>3
  <2>5. weight_counters' <= MaxWeight * (pkt_counters + lag + 1)
                             + MaxWeight * (seen - lag + ahead)
    BY <1>1, <1>2, <1>3, <1>4, <2>1, <2>4
  <2>. QED BY <2>2, <2>3, <2>5 DEF AverageBounded
<1>. QED BY <1>5, <1>6, <1>7, <1>8, <1>9 DEF CountersInv

\* The invariant holds throughout.
LEMMA InvHolds == CountersSpec => []CountersInv
<1>1. CountersInv /\ [CountersNext]_countersVars => CountersInv'
  <2>. SUFFICES ASSUME CountersInv, [CountersNext]_countersVars PROVE CountersInv'
    OBVIOUS
  <2>1. ASSUME NEW m \in Weights, Packet(m) PROVE CountersInv'
    BY <2>1, CounterPacketStep
  <2>2. CASE Control
    BY <2>2, AgeStep, ReadPktStep, ReadWeightStep, AddReadingsStep DEF Control
  <2>3. CASE UNCHANGED countersVars
    BY <2>3 DEF countersVars, registers, reading, record, counters, ghosts, CountersInv, CountersTypeOK, PktInv,
       WeightInv, LagInv, AverageBounded, WeightRegister, Signed, Apart, Near
  <2>. QED BY <2>1, <2>2, <2>3 DEF CountersNext
<1>. QED BY InitCounters, <1>1, PTL DEF CountersSpec

\* The control plane counts every packet once, whatever the width of the
\* register (qcluster.py:178-206).
THEOREM EveryPacketOnce == CountersSpec => []PacketsExact
<1>1. CountersInv => PacketsExact
  BY InvIsEnough
<1>. QED BY InvHolds, <1>1, PTL

\* The weight it adds is never more than what passed and misses at most a
\* packet's weight for each carry (qcluster.p4:257-265).
THEOREM WeightIsClose == CountersSpec => []WeightClose
<1>1. CountersInv => WeightClose
  BY InvIsEnough
<1>. QED BY InvHolds, <1>1, PTL

\* Averages stay near the weights through unsynchronised readings and ageing.
THEOREM AverageStaysBounded == CountersSpec => []AverageBounded
<1>1. CountersInv => AverageBounded
  BY DEF CountersInv
<1>. QED BY InvHolds, <1>1, PTL

(***************************************************************************)
(* The depths of the queues of the switch.  Sums over sets are folds, that *)
(* is recursive functions: one exists for every finite set, any element    *)
(* may be taken out first, and only the summands matter.                   *)
(***************************************************************************)

\* The sum over s from the sums over smaller sets.
SumStep(g, w, s) ==
    IF s = {} THEN 0 ELSE LET x == CHOOSE x \in s : TRUE IN w[x] + g[s \ {x}]

Summing(g, w, S) == g = [s \in SUBSET S |-> SumStep(g, w, s)]

SumOver(w, S) == (CHOOSE g : Summing(g, w, S))[S]

\* The function that the fold chooses exists.
LEMMA SummingExists ==
    ASSUME NEW w, NEW S, IsFiniteSet(S)
    PROVE  \E g : Summing(g, w, S)
<1> DEFINE N == {n \in Nat : \E g : \A s \in SUBSET S :
                                Cardinality(s) <= n => g[s] = SumStep(g, w, s)}
<1>1. \A s \in SUBSET S : /\ IsFiniteSet(s) /\ Cardinality(s) \in Nat
                          /\ Cardinality(s) <= Cardinality(S)
                          /\ Cardinality(s) = 0 <=> s = {}
  BY FS_Subset, FS_CardinalityType, FS_EmptySet
<1>2. 0 \in N
  <2>1. \A s \in SUBSET S : Cardinality(s) <= 0 =>
          [t \in SUBSET S |-> 0][s] = SumStep([t \in SUBSET S |-> 0], w, s)
    BY <1>1 DEF SumStep
  <2>. QED BY <2>1
<1>3. ASSUME NEW n \in N PROVE n + 1 \in N
  <2>1. PICK g : \A s \in SUBSET S : Cardinality(s) <= n => g[s] = SumStep(g, w, s)
    OBVIOUS
  <2> DEFINE h == [s \in SUBSET S |-> IF Cardinality(s) <= n THEN g[s] ELSE SumStep(g, w, s)]
  <2>2. ASSUME NEW s \in SUBSET S, Cardinality(s) <= n + 1
        PROVE  h[s] = SumStep(h, w, s)
    <3>1. h[s] = SumStep(g, w, s)
      BY <2>1
    <3>2. CASE s = {}
      BY <3>1, <3>2 DEF SumStep
    <3>3. CASE s # {}
      <4> DEFINE x == CHOOSE x \in s : TRUE
                 t == s \ {x}
      <4>1. x \in s /\ t \in SUBSET S
        BY <3>3
      <4>2. Cardinality(t) = Cardinality(s) - 1
        BY <4>1, <1>1, FS_RemoveElement
      <4>3. Cardinality(t) <= n
        BY <4>2, <2>2, <1>1
      <4>4. h[t] = g[t]
        BY <4>1, <4>3
      <4>. HIDE DEF h
      <4>. QED BY <3>1, <3>3, <4>4 DEF SumStep
    <3>. QED BY <3>2, <3>3
  <2>. HIDE DEF h
  <2>3. n + 1 \in Nat
    OBVIOUS
  <2>. QED BY <2>2, <2>3
<1>4. N \in SUBSET Nat
  OBVIOUS
<1>. HIDE DEF N
<1>5. Cardinality(S) \in N
  BY <1>1, <1>2, <1>3, <1>4, SetInduction
<1>. USE DEF N
<1>6. PICK g : \A s \in SUBSET S : Cardinality(s) <= Cardinality(S) => g[s] = SumStep(g, w, s)
  BY <1>5
<1> DEFINE h == [s \in SUBSET S |-> g[s]]
<1>7. ASSUME NEW s \in SUBSET S PROVE h[s] = SumStep(h, w, s)
  <2>1. h[s] = SumStep(g, w, s)
    BY <1>1, <1>6
  <2>2. \A x : s \ {x} \in SUBSET S
    OBVIOUS
  <2>3. \A x : h[s \ {x}] = g[s \ {x}]
    BY <2>2
  <2>. HIDE DEF h
  <2>. QED BY <2>1, <2>3 DEF SumStep
<1>8. h = [s \in SUBSET S |-> h[s]]
  OBVIOUS
<1>. HIDE DEF h
<1>9. h = [s \in SUBSET S |-> SumStep(h, w, s)]
  BY <1>7, <1>8
<1>. QED BY <1>9 DEF Summing

\* A property of the subsets of a finite set that the empty one has, and each other
\* one if all that lack one of its elements have it, belongs to all of them.
LEMMA SubsetInduction ==
    ASSUME NEW S, IsFiniteSet(S), NEW P \in SUBSET (SUBSET S),
           \A s \in SUBSET S : (\A x \in s : s \ {x} \in P) => s \in P
    PROVE  \A s \in SUBSET S : s \in P
<1> DEFINE N == {n \in Nat : \A s \in SUBSET S : Cardinality(s) <= n => s \in P}
<1>1. \A s \in SUBSET S : /\ IsFiniteSet(s) /\ Cardinality(s) \in Nat
                          /\ Cardinality(s) = 0 <=> s = {}
  BY FS_Subset, FS_CardinalityType, FS_EmptySet
<1>2. 0 \in N
  <2>1. \A s \in SUBSET S : Cardinality(s) <= 0 => s = {}
    BY <1>1
  <2>2. \A s \in SUBSET S : s = {} => s \in P
    OBVIOUS
  <2>. QED BY <2>1, <2>2
<1>3. ASSUME NEW n \in N PROVE n + 1 \in N
  <2>1. n \in Nat /\ \A s \in SUBSET S : Cardinality(s) <= n => s \in P
    OBVIOUS
  <2>2. ASSUME NEW s \in SUBSET S, Cardinality(s) <= n + 1
        PROVE  s \in P
    <3>1. ASSUME NEW x \in s PROVE s \ {x} \in P
      <4>1. Cardinality(s \ {x}) = Cardinality(s) - 1 /\ s \ {x} \in SUBSET S
        BY <1>1, FS_RemoveElement
      <4>2. Cardinality(s \ {x}) <= n
        BY <4>1, <2>1, <2>2, <1>1
      <4>. QED BY <4>1, <4>2, <2>1
    <3>. QED BY <3>1
  <2>. QED BY <2>1, <2>2
<1>4. N \in SUBSET Nat
  OBVIOUS
<1>. HIDE DEF N
<1>5. \A n \in Nat : n \in N
  BY <1>2, <1>3, <1>4, SetInduction
<1>. USE DEF N
<1>. QED BY <1>1, <1>5

\* Which element is taken out first does not matter.
LEMMA SummingSplit ==
    ASSUME NEW g, NEW w, NEW S, Summing(g, w, S), IsFiniteSet(S), \A x \in S : w[x] \in Int
    PROVE  \A s \in SUBSET S : g[s] \in Int /\ \A y \in s : g[s] = w[y] + g[s \ {y}]
<1> DEFINE P == {s \in SUBSET S :
                   /\ g[s] \in Int
                   /\ \A y \in s : g[s \ {y}] \in Int /\ g[s] = w[y] + g[s \ {y}]}
<1>1. ASSUME NEW s \in SUBSET S, \A x \in s : s \ {x} \in P
      PROVE  s \in P
  <2>1. g[s] = SumStep(g, w, s)
    BY DEF Summing
  <2>2. CASE s = {}
    BY <2>1, <2>2 DEF SumStep
  <2>3. CASE s # {}
    <3> DEFINE c == CHOOSE x \in s : TRUE
               t == s \ {c}
    <3>1. c \in s
      BY <2>3
    <3>2. g[s] = w[c] + g[t]
      BY <2>1, <2>3 DEF SumStep
    <3>3. t \in P
      BY <1>1, <3>1
    <3>. HIDE DEF c
    <3>4. g[t] \in Int /\ \A y \in t : g[t \ {y}] \in Int /\ g[t] = w[y] + g[t \ {y}]
      BY <3>3
    <3>5. w[c] \in Int /\ g[s] \in Int
      BY <3>1, <3>2, <3>4
    <3>6. ASSUME NEW y \in s, y # c
          PROVE  g[s] = w[y] + g[s \ {y}]
      <4> DEFINE u == s \ {y}
      <4>1. y \in t /\ c \in u /\ u \ {c} = t \ {y}
        BY <3>1, <3>6
      <4>2. u \in P
        BY <1>1
      <4>3. g[u] = w[c] + g[u \ {c}]
        BY <4>1, <4>2
      <4>4. g[t] = w[y] + g[t \ {y}]
        BY <3>4, <4>1
      <4>5. y \in S
        OBVIOUS
      <4>6. w[y] \in Int
        BY <4>5
      <4>. HIDE DEF t, u
      <4>7. g[t \ {y}] \in Int
        BY <3>4, <4>1
      <4>8. g[u \ {c}] = g[t \ {y}]
        BY <4>1, Zenon
      <4>9. g[s] = w[y] + g[u]
        BY <3>2, <3>5, <4>3, <4>4, <4>6, <4>7, <4>8
      <4>. QED BY <4>9 DEF u
    <3>7. \A y \in s : g[s] = w[y] + g[s \ {y}]
      BY <3>2, <3>6
    <3>8. \A y \in s : g[s \ {y}] \in Int
      BY <1>1
    <3>. QED BY <3>5, <3>7, <3>8
  <2>. QED BY <2>2, <2>3
<1>2. P \in SUBSET (SUBSET S)
  OBVIOUS
<1>. HIDE DEF P
<1>3. \A s \in SUBSET S : s \in P
  BY <1>1, <1>2, SubsetInduction
<1>. QED BY <1>3 DEF P

\* Sums of the same numbers are the same.
LEMMA SummingAgree ==
    ASSUME NEW g, NEW w, NEW S, Summing(g, w, S), NEW h, NEW v, NEW T, Summing(h, v, T),
           IsFiniteSet(S), T \in SUBSET S, \A x \in T : w[x] = v[x]
    PROVE  \A s \in SUBSET T : g[s] = h[s]
<1> DEFINE P == {s \in SUBSET T : g[s] = h[s]}
<1>1. ASSUME NEW s \in SUBSET T, \A x \in s : s \ {x} \in P
      PROVE  s \in P
  <2>1. g[s] = SumStep(g, w, s) /\ h[s] = SumStep(h, v, s)
    BY DEF Summing
  <2>2. CASE s = {}
    BY <2>1, <2>2 DEF SumStep
  <2>3. CASE s # {}
    <3> DEFINE c == CHOOSE x \in s : TRUE
    <3>1. c \in s
      BY <2>3
    <3>2. g[s] = w[c] + g[s \ {c}] /\ h[s] = v[c] + h[s \ {c}]
      BY <2>1, <2>3 DEF SumStep
    <3>3. g[s \ {c}] = h[s \ {c}]
      BY <1>1, <3>1
    <3>4. w[c] = v[c]
      BY <3>1
    <3>. QED BY <3>2, <3>3, <3>4
  <2>. QED BY <2>2, <2>3
<1>2. P \in SUBSET (SUBSET T) /\ IsFiniteSet(T)
  BY FS_Subset
<1>. HIDE DEF P
<1>3. \A s \in SUBSET T : s \in P
  BY <1>1, <1>2, SubsetInduction
<1>. QED BY <1>3 DEF P

\* So a sum over a finite set splits off any summand,
LEMMA SumSplit ==
    ASSUME NEW w, NEW S, IsFiniteSet(S), \A x \in S : w[x] \in Int, NEW y \in S
    PROVE  SumOver(w, S) = w[y] + SumOver(w, S \ {y})
<1> DEFINE T == S \ {y}
<1>1. IsFiniteSet(T) /\ T \in SUBSET S
  BY FS_Subset
<1>2. PICK g : g = CHOOSE f : Summing(f, w, S)
  OBVIOUS
<1>3. PICK h : h = CHOOSE f : Summing(f, w, T)
  OBVIOUS
<1>4. Summing(g, w, S)
  BY <1>2, SummingExists
<1>5. Summing(h, w, T)
  BY <1>1, <1>3, SummingExists
<1>6. g[S] = w[y] + g[T]
  BY <1>4, SummingSplit
<1>. HIDE DEF T
<1>7. g[T] = h[T]
  BY <1>1, <1>4, <1>5, SummingAgree
<1>8. SumOver(w, S) = g[S] /\ SumOver(w, T) = h[T]
  BY <1>2, <1>3 DEF SumOver
<1>. QED BY <1>6, <1>7, <1>8 DEF T

\* is a number,
LEMMA SumInt ==
    ASSUME NEW w, NEW S, IsFiniteSet(S), \A x \in S : w[x] \in Int
    PROVE  SumOver(w, S) \in Int
<1>1. PICK g : g = CHOOSE f : Summing(f, w, S)
  OBVIOUS
<1>2. Summing(g, w, S)
  BY <1>1, SummingExists
<1>3. g[S] \in Int
  BY <1>2, SummingSplit
<1>. QED BY <1>1, <1>3 DEF SumOver

\* and depends on its summands only.
LEMMA SumAgree ==
    ASSUME NEW w, NEW v, NEW S, IsFiniteSet(S), \A x \in S : w[x] = v[x]
    PROVE  SumOver(w, S) = SumOver(v, S)
<1>1. PICK g : g = CHOOSE f : Summing(f, w, S)
  OBVIOUS
<1>2. PICK h : h = CHOOSE f : Summing(f, v, S)
  OBVIOUS
<1>3. Summing(g, w, S) /\ Summing(h, v, S)
  BY <1>1, <1>2, SummingExists
<1>4. g[S] = h[S]
  BY <1>3, SummingAgree
<1>. QED BY <1>1, <1>2, <1>4 DEF SumOver

LEMMA SumEmpty ==
    ASSUME NEW w
    PROVE  SumOver(w, {}) = 0
<1>1. PICK g : g = CHOOSE f : Summing(f, w, {})
  OBVIOUS
<1>2. Summing(g, w, {})
  BY <1>1, SummingExists, FS_EmptySet
<1>3. g[{}] = 0
  BY <1>2 DEF Summing, SumStep
<1>. QED BY <1>1, <1>3 DEF SumOver

\* The sums of the model.
LEMMA DepthSum == DepthTotal = SumOver(qdepth_i, queue_id)
BY DEF DepthTotal, MapThenSumSet, MapThenFoldSet, SumOver, Summing, SumStep

\* What the packets between the registers will add.
Deltas(s) == [i \in DOMAIN s |-> s[i].delta]

\* and the fold of the property is their sum.
LEMMA StagesSum ==
    FoldSeq(LAMBDA p, s : p.delta + s, 0, stages) = SumOver(Deltas(stages), DOMAIN stages)
BY DEF FoldSeq, FoldFunction, FoldFunctionOnSet, MapThenFoldSet, SumOver, Summing, SumStep,
       Deltas

Stage == [delta : 0 .. WordSpace - 1, total : Int]

\* What the first n packets between the registers will add.
Prefix(s, n) == SumOver(Deltas(s), 1 .. n)

\* A packet under way holds numbers.
LEMMA DeltaInt ==
    ASSUME NEW s \in Seq(Stage), NEW i \in 1 .. Len(s)
    PROVE  Deltas(s)[i] = s[i].delta /\ s[i].delta \in Int /\ s[i].total \in Int
<1>1. s[i] \in Stage /\ i \in DOMAIN s
  BY ElementOfSeq, LenProperties
<1>. QED BY <1>1 DEF Stage, Deltas

\* The first packets add a number,
LEMMA PrefixInt ==
    ASSUME NEW s \in Seq(Stage), NEW n \in 0 .. Len(s)
    PROVE  Prefix(s, n) \in Int
<1>1. n \in Int /\ IsFiniteSet(1 .. n)
  BY FS_Interval
<1>2. \A x \in 1 .. n : Deltas(s)[x] \in Int
  <2>. TAKE x \in 1 .. n
  <2>1. x \in 1 .. Len(s)
    BY LenProperties
  <2>. QED BY <2>1, DeltaInt
<1>. QED BY <1>1, <1>2, SumInt DEF Prefix

\* none of them nothing,
LEMMA PrefixNone ==
    ASSUME NEW s
    PROVE  Prefix(s, 0) = 0
<1>1. 1 .. 0 = {}
  OBVIOUS
<1>. QED BY <1>1, SumEmpty DEF Prefix

\* and one more its own part.
LEMMA PrefixNext ==
    ASSUME NEW s \in Seq(Stage), NEW n \in Nat, n + 1 <= Len(s)
    PROVE  Prefix(s, n + 1) = Prefix(s, n) + s[n + 1].delta
<1>1. Len(s) \in Nat /\ n + 1 \in 1 .. Len(s) /\ n \in 0 .. Len(s)
  BY LenProperties
<1>2. IsFiniteSet(1 .. n + 1) /\ n + 1 \in 1 .. n + 1
  BY FS_Interval
<1>3. \A x \in 1 .. n + 1 : Deltas(s)[x] \in Int
  <2>. TAKE x \in 1 .. n + 1
  <2>1. x \in 1 .. Len(s)
    BY <1>1
  <2>. QED BY <2>1, DeltaInt
<1>4. (1 .. n + 1) \ {n + 1} = 1 .. n
  OBVIOUS
<1>5. SumOver(Deltas(s), 1 .. n + 1)
        = Deltas(s)[n + 1] + SumOver(Deltas(s), (1 .. n + 1) \ {n + 1})
  BY <1>2, <1>3, SumSplit
<1>6. Deltas(s)[n + 1] = s[n + 1].delta /\ s[n + 1].delta \in Int /\ Prefix(s, n) \in Int
  BY <1>1, DeltaInt, PrefixInt
<1>7. Prefix(s, n + 1) = s[n + 1].delta + Prefix(s, n)
  BY <1>4, <1>5, <1>6 DEF Prefix
<1>. QED BY <1>6, <1>7

\* A packet that follows adds nothing to what comes before it,
LEMMA PrefixAppend ==
    ASSUME NEW s \in Seq(Stage), NEW p \in Stage, NEW n \in 0 .. Len(s)
    PROVE  Prefix(Append(s, p), n) = Prefix(s, n)
<1>1. IsFiniteSet(1 .. n)
  BY FS_Interval
<1>2. \A x \in 1 .. n : Deltas(Append(s, p))[x] = Deltas(s)[x]
  <2>. TAKE x \in 1 .. n
  <2>1. /\ x \in 1 .. Len(s) /\ x \in 1 .. Len(Append(s, p)) /\ Append(s, p)[x] = s[x]
        /\ Append(s, p) \in Seq(Stage)
    BY AppendProperties, LenProperties
  <2>2. Deltas(Append(s, p))[x] = Append(s, p)[x].delta
    BY <2>1, DeltaInt
  <2>3. Deltas(s)[x] = s[x].delta
    BY <2>1, DeltaInt
  <2>. QED BY <2>1, <2>2, <2>3
<1>. QED BY <1>1, <1>2, SumAgree DEF Prefix

\* and when the first packet has gone, its part is missing.
LEMMA PrefixTail ==
    ASSUME NEW s \in Seq(Stage), s # <<>>, NEW n \in 0 .. Len(s) - 1
    PROVE  Prefix(s, n + 1) = s[1].delta + Prefix(Tail(s), n)
<1> DEFINE t == Tail(s)
           N == {k \in Nat : k <= Len(s) - 1 =>
                     Prefix(s, k + 1) = s[1].delta + Prefix(t, k)}
<1>1. /\ Len(s) \in Nat \ {0} /\ t \in Seq(Stage) /\ Len(t) = Len(s) - 1
      /\ \A i \in 1 .. Len(t) : t[i] = s[i + 1]
  BY EmptySeq, LenProperties, HeadTailProperties
<1>. HIDE DEF t
<1>2. 0 \in N
  <2>1. Prefix(s, 0 + 1) = Prefix(s, 0) + s[0 + 1].delta
    BY <1>1, PrefixNext
  <2>2. Prefix(s, 0) = 0 /\ Prefix(t, 0) = 0
    BY PrefixNone
  <2>3. s[1].delta \in Int
    BY <1>1, DeltaInt
  <2>. QED BY <2>1, <2>2, <2>3
<1>3. ASSUME NEW k \in N PROVE k + 1 \in N
  <2>. SUFFICES ASSUME k + 1 <= Len(s) - 1
                PROVE  Prefix(s, (k + 1) + 1) = s[1].delta + Prefix(t, k + 1)
    OBVIOUS
  <2>0. k \in Nat
    OBVIOUS
  <2>1. Prefix(s, k + 1) = s[1].delta + Prefix(t, k)
    BY <1>1
  <2>2. Prefix(s, (k + 1) + 1) = Prefix(s, k + 1) + s[(k + 1) + 1].delta
    BY <1>1, <2>0, PrefixNext
  <2>3. Prefix(t, k + 1) = Prefix(t, k) + t[k + 1].delta
    BY <1>1, <2>0, PrefixNext
  <2>4. t[k + 1] = s[(k + 1) + 1]
    BY <1>1, <2>0
  <2>5. s[1].delta \in Int /\ t[k + 1].delta \in Int /\ Prefix(t, k) \in Int
    <3>1. 1 \in 1 .. Len(s) /\ k + 1 \in 1 .. Len(t) /\ k \in 0 .. Len(t)
      BY <1>1, <2>0
    <3>. QED BY <1>1, <3>1, DeltaInt, PrefixInt
  <2>. QED BY <2>1, <2>2, <2>3, <2>4, <2>5
<1>4. N \in SUBSET Nat /\ n \in Nat
  OBVIOUS
<1>. HIDE DEF N
<1>5. n \in N
  BY <1>2, <1>3, <1>4, SetInduction
<1>. QED BY <1>1, <1>5 DEF N, t

\* Numbers that are the same in a register of 32 bits.
Same(a, b) == a % WordSpace = b % WordSpace

\* The register, with what is under way, has the sum each packet between the stages
\* was told, and behind them the sum of the depths.
DepthInv ==
    /\ qdepth_i \in [queue_id -> Nat] /\ cleared \in Int
    /\ qdepth_sum \in 0 .. WordSpace - 1
    /\ stages \in Seq(Stage)
    /\ marked.sum = marked.total % SumSpace
    /\ \A k \in 1 .. Len(stages) : Same(qdepth_sum + Prefix(stages, k), stages[k].total)
    /\ Same(qdepth_sum + Prefix(stages, Len(stages)), DepthTotal + cleared)

\* The sum of depths that are numbers.
LEMMA TotalNat ==
    ASSUME qdepth_i \in [queue_id -> Nat]
    PROVE  DepthTotal \in Int
<1>1. \A x \in queue_id : qdepth_i[x] \in Int
  OBVIOUS
<1>. QED BY <1>1, DepthSum, SumInt, P4DepthAssumption

\* The sum stays where the depths do.
LEMMA TotalStays ==
    ASSUME UNCHANGED qdepth_i
    PROVE  DepthTotal' = DepthTotal
<1>1. DepthTotal' = SumOver(qdepth_i', queue_id)
  BY DEF DepthTotal, MapThenSumSet, MapThenFoldSet, SumOver, Summing, SumStep
<1>. QED BY <1>1, DepthSum

\* Depths that were cleared sum up to nothing.
LEMMA SumOfZeros ==
    ASSUME NEW w, NEW S, IsFiniteSet(S), \A x \in S : w[x] = 0
    PROVE  SumOver(w, S) = 0
<1> DEFINE P == {s \in SUBSET S : SumOver(w, s) = 0}
<1>1. ASSUME NEW s \in SUBSET S, \A x \in s : s \ {x} \in P
      PROVE  s \in P
  <2>1. IsFiniteSet(s) /\ \A x \in s : w[x] = 0
    BY FS_Subset
  <2>2. CASE s = {}
    BY <2>2, SumEmpty
  <2>3. CASE s # {}
    <3>1. PICK y \in s : TRUE
      BY <2>3
    <3>2. SumOver(w, s) = w[y] + SumOver(w, s \ {y})
      BY <2>1, SumSplit
    <3>3. SumOver(w, s \ {y}) = 0 /\ w[y] = 0
      BY <1>1, <2>1
    <3>. QED BY <3>2, <3>3
  <2>. QED BY <2>2, <2>3
<1>2. P \in SUBSET (SUBSET S)
  OBVIOUS
<1>. HIDE DEF P
<1>3. S \in P
  BY <1>1, <1>2, SubsetInduction
<1>. QED BY <1>3 DEF P

\* A sum changes with one of its summands.
LEMMA SumChanges ==
    ASSUME NEW S, IsFiniteSet(S), NEW w \in [S -> Nat], NEW y \in S, NEW d \in Nat
    PROVE  SumOver([w EXCEPT ![y] = d], S) = SumOver(w, S) + (d - w[y])
<1> DEFINE v == [w EXCEPT ![y] = d]
           T == S \ {y}
<1>1. IsFiniteSet(T) /\ \A x \in T : x \in S
  BY FS_Subset
<1>2. v[y] = d /\ \A x \in S : v[x] \in Int
  OBVIOUS
<1>3. \A x \in T : v[x] = w[x]
  OBVIOUS
<1>4. \A x \in S : w[x] \in Int
  OBVIOUS
<1>. HIDE DEF v
<1>5. SumOver(v, S) = v[y] + SumOver(v, T)
  BY <1>2, SumSplit
<1>6. SumOver(w, S) = w[y] + SumOver(w, T)
  BY <1>4, SumSplit
<1>. HIDE DEF T
<1>7. SumOver(v, T) = SumOver(w, T)
  BY <1>1, <1>3, SumAgree
<1>8. SumOver(w, T) \in Int
  BY <1>1, <1>4, SumInt
<1>9. SumOver(v, S) = SumOver(w, S) + (d - w[y])
  BY <1>2, <1>4, <1>5, <1>6, <1>7, <1>8
<1>. QED BY <1>9 DEF v

\* The registers start without a packet.
LEMMA DepthStart == DepthInit => DepthInv
<1>. SUFFICES ASSUME DepthInit PROVE DepthInv
  OBVIOUS
<1>. USE P4DepthAssumption
<1>1. /\ qdepth_i = [q \in queue_id |-> 0] /\ qdepth_sum = 0 /\ stages = <<>>
      /\ marked.sum = 0 /\ marked.total = 0 /\ cleared = 0
  BY DEF DepthInit
<1>2. stages \in Seq(Stage) /\ Len(stages) = 0
  BY <1>1, EmptySeq
<1>3. DepthTotal = 0
  <2>1. \A x \in queue_id : qdepth_i[x] = 0
    BY <1>1
  <2>. QED BY <2>1, DepthSum, SumOfZeros
<1>4. Prefix(stages, Len(stages)) = 0
  BY <1>2, PrefixNone
<1>5. 0 % SumSpace = 0
  BY SmallMod
<1>6. Same(qdepth_sum + Prefix(stages, Len(stages)), DepthTotal + cleared)
  BY <1>1, <1>3, <1>4 DEF Same
<1>7. \A k \in 1 .. Len(stages) : Same(qdepth_sum + Prefix(stages, k), stages[k].total)
  BY <1>2
<1>8. qdepth_i \in [queue_id -> Nat] /\ cleared \in Int /\ qdepth_sum \in 0 .. WordSpace - 1
  BY <1>1
<1>. QED BY <1>1, <1>2, <1>5, <1>6, <1>7, <1>8 DEF DepthInv

\* A packet that passes the first register,
LEMMA EgressStep ==
    ASSUME DepthInv, NEW q \in queue_id, NEW d \in Depths, Egress(q, d)
    PROVE  DepthInv'
<1>. USE P4DepthAssumption
<1> DEFINE n == Len(stages)
           x == d - qdepth_i[q]
           p == [delta |-> Delta(q, d), total |-> DepthTotal' + cleared]
<1>1. /\ qdepth_i' = [qdepth_i EXCEPT ![q] = d] /\ stages' = Append(stages, p)
      /\ qdepth_sum' = qdepth_sum /\ marked' = marked /\ cleared' = cleared
  BY DEF Egress
<1>2. /\ qdepth_i \in [queue_id -> Nat] /\ cleared \in Int /\ qdepth_sum \in Int
      /\ qdepth_sum \in 0 .. WordSpace - 1
      /\ stages \in Seq(Stage) /\ n \in Nat /\ d \in Nat
  BY LenProperties DEF DepthInv
<1>3. qdepth_i' \in [queue_id -> Nat] /\ x \in Int
  BY <1>1, <1>2
<1>4. DepthTotal' = DepthTotal + x /\ DepthTotal \in Int
  <2>1. DepthTotal' = SumOver(qdepth_i', queue_id)
    BY DEF DepthTotal, MapThenSumSet, MapThenFoldSet, SumOver, Summing, SumStep
  <2>2. SumOver([qdepth_i EXCEPT ![q] = d], queue_id)
          = SumOver(qdepth_i, queue_id) + (d - qdepth_i[q])
    <3>1. PICK w \in [queue_id -> Nat] : w = qdepth_i
      BY <1>2
    <3>2. /\ IsFiniteSet(queue_id) /\ w \in [queue_id -> Nat]
          /\ q \in queue_id /\ d \in Nat
      BY <1>2
    <3>3. SumOver([w EXCEPT ![q] = d], queue_id) = SumOver(w, queue_id) + (d - w[q])
      BY ONLY <3>2, SumChanges, Zenon
    <3>. QED BY <3>1, <3>3
  <2>. QED BY <2>1, <2>2, <1>1, <1>2, DepthSum, TotalNat
<1>5. p \in Stage /\ p.delta = x % WordSpace /\ p.total = DepthTotal' + cleared
  <2>1. x % WordSpace \in 0 .. WordSpace - 1 /\ Delta(q, d) = x % WordSpace
    BY <1>3, ModRange DEF Delta
  <2>2. DepthTotal' + cleared \in Int
    BY <1>2, <1>3, <1>4
  <2>. QED BY <2>1, <2>2 DEF Stage
<1>. HIDE DEF p, x, n
<1>6. /\ stages' \in Seq(Stage) /\ Len(stages') = n + 1
      /\ \A k \in 1 .. n : stages'[k] = stages[k]
      /\ stages'[n + 1] = p
  BY <1>1, <1>2, <1>5, AppendProperties DEF n
<1>7. \A k \in 0 .. n : Prefix(stages', k) = Prefix(stages, k)
  BY <1>1, <1>2, <1>5, PrefixAppend DEF n
<1>8. Prefix(stages, n) \in Int
  BY <1>2, PrefixInt DEF n
<1>9. Prefix(stages', n + 1) = Prefix(stages, n) + p.delta
  <2>1. PICK s \in Seq(Stage) : s = stages'
    BY <1>6
  <2>2. Len(s) = n + 1 /\ s[n + 1] = p /\ n \in Nat /\ n + 1 <= Len(s)
    BY <1>2, <1>6, <2>1
  <2>3. Prefix(s, n + 1) = Prefix(s, n) + s[n + 1].delta
    BY <2>2, PrefixNext
  <2>4. n \in 0 .. n
    BY <2>2
  <2>5. Prefix(stages', n) = Prefix(stages, n)
    BY <1>7, <2>4
  <2>. QED BY <2>1, <2>2, <2>3, <2>5
<1>10. Same(qdepth_sum + Prefix(stages', n + 1), DepthTotal' + cleared)
  <2> DEFINE a == qdepth_sum + Prefix(stages, n)
             b == DepthTotal + cleared
  <2>1. a \in Int /\ b \in Int /\ x % WordSpace \in Int
    BY <1>2, <1>3, <1>4, <1>8
  <2>2. a % WordSpace = b % WordSpace
    BY DEF DepthInv, Same, n
  <2>3. qdepth_sum + Prefix(stages', n + 1) = a + (x % WordSpace)
    BY <1>2, <1>5, <1>8, <1>9, <2>1
  <2>4. DepthTotal' + cleared = b + x
    BY <1>2, <1>3, <1>4
  <2>. HIDE DEF a, b
  <2>5. (a + (x % WordSpace)) % WordSpace = (b + (x % WordSpace)) % WordSpace
    BY <2>1, <2>2, ModAdd
  <2>6. ((x % WordSpace) + b) % WordSpace = (x + b) % WordSpace
    <3>1. PICK y \in Int, z \in Int, u \in Int : y = x % WordSpace /\ z = x /\ u = b
      BY ONLY <2>1, <1>3
    <3>2. y % WordSpace = z % WordSpace
      BY ONLY <3>1, P4DepthAssumption, ModRange, SmallMod
    <3>3. (y + u) % WordSpace = (z + u) % WordSpace
      BY ONLY <3>2, P4DepthAssumption, ModAdd
    <3>. QED BY ONLY <3>1, <3>3
  <2>7. b + (x % WordSpace) = (x % WordSpace) + b /\ b + x = x + b
    BY <2>1, <1>3
  <2>. QED BY <2>3, <2>4, <2>5, <2>6, <2>7 DEF Same
<1>11. \A k \in 1 .. n + 1 : Same(qdepth_sum + Prefix(stages', k), stages'[k].total)
  <2>. TAKE k \in 1 .. n + 1
  <2>1. CASE k = n + 1
    BY <2>1, <1>5, <1>6, <1>10
  <2>2. CASE k # n + 1
    <3>1. k \in 1 .. n /\ k \in 0 .. n
      BY <2>2, <1>2
    <3>2. Same(qdepth_sum + Prefix(stages, k), stages[k].total)
      BY <3>1 DEF DepthInv, n
    <3>. QED BY <3>1, <3>2, <1>6, <1>7
  <2>. QED BY <2>1, <2>2
<1>12. marked'.sum = marked'.total % SumSpace
  BY <1>1 DEF DepthInv
<1>. QED BY <1>1, <1>2, <1>3, <1>6, <1>10, <1>11, <1>12 DEF DepthInv

\* one that passes the second,
LEMMA SumStage ==
    ASSUME DepthInv, NEW ect \in BOOLEAN, Sum(ect)
    PROVE  DepthInv'
<1>. USE P4DepthAssumption
<1> DEFINE n == Len(stages)
           x == stages[1].delta
           t == Tail(stages)
<1>1. /\ stages # <<>> /\ qdepth_sum' = (qdepth_sum + Head(stages).delta) % WordSpace
      /\ marked'.sum = qdepth_sum' % SumSpace /\ marked'.total = Head(stages).total
      /\ stages' = t /\ qdepth_i' = qdepth_i /\ cleared' = cleared
  BY DEF Sum
<1>2. /\ qdepth_i \in [queue_id -> Nat] /\ cleared \in Int /\ qdepth_sum \in Int
      /\ stages \in Seq(Stage) /\ n \in Nat \ {0}
  BY <1>1, EmptySeq DEF DepthInv
<1>3. /\ t \in Seq(Stage) /\ Len(t) = n - 1
      /\ \A k \in 1 .. n - 1 : t[k] = stages[k + 1]
      /\ Head(stages) = stages[1]
  BY <1>1, <1>2, HeadTailProperties
<1>4. \A k \in 0 .. n - 1 : Prefix(stages, k + 1) = x + Prefix(t, k)
  BY <1>1, <1>2, PrefixTail
<1>5. x \in Int /\ stages[1].total \in Int
  BY <1>2, DeltaInt
<1>6. \A k \in 0 .. n - 1 : Prefix(t, k) \in Int
  BY <1>3, PrefixInt
<1>7. qdepth_sum' = (qdepth_sum + x) % WordSpace /\ qdepth_sum' \in 0 .. WordSpace - 1
  <2>1. qdepth_sum' = (qdepth_sum + x) % WordSpace
    BY <1>1, <1>3
  <2>2. qdepth_sum + x \in Int
    BY ONLY <1>2, <1>5
  <2>. QED BY ONLY <2>1, <2>2, P4DepthAssumption, ModRange
<1>. HIDE DEF n, x, t
\* in front of the rest it is as before
<1>8. ASSUME NEW k \in 0 .. n - 1
      PROVE  Same(qdepth_sum' + Prefix(t, k), qdepth_sum + Prefix(stages, k + 1))
  <2>1. qdepth_sum' % WordSpace = (qdepth_sum + x) % WordSpace /\ qdepth_sum' \in Int
    BY <1>7, SmallMod
  <2>2. Prefix(t, k) \in Int /\ qdepth_sum + x \in Int
    BY <1>2, <1>5, <1>6
  <2>3. (qdepth_sum' + Prefix(t, k)) % WordSpace = (qdepth_sum + x + Prefix(t, k)) % WordSpace
    <3>1. PICK a \in Int, b \in Int, d \in Int :
            a = qdepth_sum' /\ b = qdepth_sum + x /\ d = Prefix(t, k)
      BY ONLY <2>1, <2>2
    <3>2. a % WordSpace = b % WordSpace
      BY ONLY <2>1, <3>1
    <3>3. (a + d) % WordSpace = (b + d) % WordSpace
      <4>1. WordSpace \in Nat \ {0} /\ a \in Int /\ b \in Int /\ d \in Int
        BY P4DepthAssumption
      <4>. QED BY ONLY <3>2, <4>1, ModAdd, ZenonT(60)
    <3>. QED BY ONLY <3>1, <3>3
  <2>4. qdepth_sum + x + Prefix(t, k) = qdepth_sum + Prefix(stages, k + 1)
    BY <1>2, <1>4, <1>5, <2>2
  <2>. QED BY <2>3, <2>4 DEF Same
<1>9. \A k \in 1 .. n : Same(qdepth_sum + Prefix(stages, k), stages[k].total)
  BY DEF DepthInv, n
<1>10. \A k \in 1 .. n - 1 : Same(qdepth_sum' + Prefix(t, k), t[k].total)
  <2>. TAKE k \in 1 .. n - 1
  <2>1. k \in 0 .. n - 1 /\ k + 1 \in 1 .. n
    BY <1>2
  <2>2. Same(qdepth_sum' + Prefix(t, k), qdepth_sum + Prefix(stages, k + 1))
    BY <2>1, <1>8
  <2>3. Same(qdepth_sum + Prefix(stages, k + 1), stages[k + 1].total)
    BY <2>1, <1>9
  <2>. QED BY <2>2, <2>3, <1>3 DEF Same
<1>11. DepthTotal' = DepthTotal
  BY <1>1, TotalStays
<1>12. Same(qdepth_sum' + Prefix(t, n - 1), DepthTotal + cleared)
  <2>1. n - 1 \in 0 .. n - 1 /\ (n - 1) + 1 = n
    BY <1>2
  <2>2. Same(qdepth_sum' + Prefix(t, n - 1), qdepth_sum + Prefix(stages, n))
    BY <2>1, <1>8
  <2>3. Same(qdepth_sum + Prefix(stages, n), DepthTotal + cleared)
    BY DEF DepthInv, n
  <2>. QED BY <2>2, <2>3 DEF Same
<1>13. marked'.sum = marked'.total % SumSpace
  <2>1. 1 \in 1 .. n /\ 1 = 0 + 1 /\ 0 \in 0 .. n - 1
    BY <1>2
  <2>2. Same(qdepth_sum + Prefix(stages, 1), stages[1].total)
    BY <2>1, <1>9
  <2>3. Prefix(stages, 1) = x
    <3>1. Prefix(stages, 0 + 1) = x + Prefix(t, 0)
      BY <2>1, <1>4
    <3>. QED BY <3>1, PrefixNone, <1>5
  <2>4. qdepth_sum' = stages[1].total % WordSpace
    BY <2>2, <2>3, <1>7 DEF Same
  <2>5. (stages[1].total % WordSpace) % SumSpace = stages[1].total % SumSpace
    BY <1>5, ModMod
  <2>. QED BY <2>4, <2>5, <1>1, <1>3
<1>. QED BY <1>1, <1>2, <1>3, <1>7, <1>10, <1>11, <1>12, <1>13 DEF DepthInv

\* and a reset keep the invariant.
LEMMA ClearStep == DepthInv /\ ClearDepths => DepthInv'
<1>. SUFFICES ASSUME DepthInv, ClearDepths PROVE DepthInv'
  OBVIOUS
<1>. USE P4DepthAssumption
<1>1. /\ cleared' = cleared + DepthTotal /\ qdepth_i' = [q \in queue_id |-> 0]
      /\ qdepth_sum' = qdepth_sum /\ stages' = stages /\ marked' = marked
  BY DEF ClearDepths
<1>2. qdepth_i \in [queue_id -> Nat] /\ cleared \in Int /\ DepthTotal \in Int
  BY TotalNat DEF DepthInv
<1>3. DepthTotal' = 0
  <2>1. DepthTotal' = SumOver(qdepth_i', queue_id)
    BY DEF DepthTotal, MapThenSumSet, MapThenFoldSet, SumOver, Summing, SumStep
  <2>2. \A x \in queue_id : qdepth_i'[x] = 0
    BY <1>1
  <2>. QED BY <2>1, <2>2, SumOfZeros
<1>4. DepthTotal' + cleared' = DepthTotal + cleared /\ cleared' \in Int
  BY <1>1, <1>2, <1>3
<1>5. qdepth_i' \in [queue_id -> Nat]
  BY <1>1
<1>. QED BY <1>1, <1>4, <1>5 DEF DepthInv

\* With any number of packets between the stages and through resets, a packet is
\* marked by the depths of all queues as the packets before it found them, and those
\* that were reset (qcluster.p4:280-350, qcluster.py:296-303).
THEOREM SumIsExact == DepthSpec => []SumIsDepths
<1>1. DepthInv /\ [DepthNext]_depthVars => DepthInv'
  <2>1. ASSUME DepthInv, UNCHANGED depthVars PROVE DepthInv'
    <3>1. /\ qdepth_i' = qdepth_i /\ qdepth_sum' = qdepth_sum /\ stages' = stages
          /\ marked' = marked /\ cleared' = cleared
      BY <2>1 DEF depthVars
    <3>2. DepthTotal' = DepthTotal
      BY <3>1, TotalStays
    <3>. QED BY <2>1, <3>1, <3>2 DEF DepthInv
  <2>. QED BY <2>1, EgressStep, SumStage, ClearStep DEF DepthNext
<1>2. DepthInv => SumIsDepths
  <2>. SUFFICES ASSUME DepthInv PROVE SumIsDepths
    OBVIOUS
  <2>1. DOMAIN stages = 1 .. Len(stages)
    BY LenProperties DEF DepthInv
  <2>2. FoldSeq(LAMBDA p, s : p.delta + s, 0, stages) = Prefix(stages, Len(stages))
    BY <2>1, StagesSum DEF Prefix
  <2>. QED BY <2>2 DEF DepthInv, Same, SumIsDepths
<1>. QED BY DepthStart, <1>1, <1>2, PTL DEF DepthSpec

(***************************************************************************)
(* For every number of queues and ports and whatever the averages are:     *)
(*                                                                         *)
(* Every class but the last gets weights of its own.  Averages that differ *)
(* by one at least have roots of products that do so too, and thus still   *)
(* differ when they are rounded down (RootsDiffer).                        *)
(*                                                                         *)
(* The exchange of a port's rules loses no handle and leaves no weight     *)
(* without a rule.  The invariant says which kept handles are in use at    *)
(* each point of the exchange (Live) and that the rules in use are those   *)
(* and the ones just added (Kept, Batch, Placed); counting them shows that *)
(* a free handle is always found (TableFits).                              *)
(***************************************************************************)

\* Boundaries rise, up to the last class but one.
Rising ==
    \A k \in 1 .. Queues - 2 : k < Len(thresholds) => thresholds[k] < thresholds[k + 1]

\* While averages are raised, the last boundary lies between the last two.
LastRoot ==
    phase = "raise" =>
        /\ index \in 1 .. Queues /\ Len(thresholds) = index - 1
        /\ index >= 2 => /\ IsRoot(thresholds[index - 1], avgs[index - 2] * avgs[index - 1])
                     /\ avgs[index - 2] + Unit <= avgs[index - 1]

Inv ==
    /\ avgs \in [Classes -> Nat]
    /\ thresholds \in Seq(Nat)
    /\ Rising
    /\ LastRoot
    /\ phase = "add" => index \in 0 .. Queues /\ Len(thresholds) = Queues
    /\ EveryClassHasWeights

\* Squares are ordered as their roots are.
LEMMA SquareMono ==
    ASSUME NEW x \in Nat, NEW y \in Nat, x <= y
    PROVE  x * x <= y * y
<1>1. PICK d \in Nat : y = x + d
  <2>1. y - x \in Nat /\ y = x + (y - x)
    OBVIOUS
  <2>. QED BY <2>1
<1>2. (x + d) * (x + d) = x * x + (2 * (x * d) + d * d)
  OBVIOUS
<1>3. x * d \in Nat /\ d * d \in Nat /\ x * x \in Nat
  OBVIOUS
<1>. QED BY <1>1, <1>2, <1>3

\* Products are ordered as their factors are.
LEMMA ProductMono ==
    ASSUME NEW x \in Nat, NEW y \in Nat, NEW z \in Nat, x <= y
    PROVE  z * x <= z * y
<1>1. y - x \in Nat /\ z * (y - x) \in Nat
  OBVIOUS
<1>2. z * y = z * x + z * (y - x)
  OBVIOUS
<1>. QED BY <1>1, <1>2

\* A square of at most b * (b - u) has a root that is u / 2 below b.
LEMMA RootBelow ==
    ASSUME NEW x \in Nat, NEW b \in Nat, NEW u \in Nat \ {0}, u <= b,
           x * x <= b * (b - u)
    PROVE  2 * x <= 2 * b - u
<1>. SUFFICES ASSUME 2 * b - u <= 2 * x PROVE 2 * x <= 2 * b - u
  OBVIOUS
<1>. DEFINE e == 2 * b - u
            f == 2 * x
<1>1. e \in Nat /\ f \in Nat /\ e <= f
  OBVIOUS
<1>2. e * e <= f * f
  BY <1>1, SquareMono
<1>3. e * e = 4 * (b * (b - u)) + u * u
  OBVIOUS
<1>4. f * f = 4 * (x * x)
  OBVIOUS
<1>5. u * u >= 1
  OBVIOUS
<1>6. x * x \in Int /\ b * (b - u) \in Int /\ u * u \in Int
  OBVIOUS
<1>. QED
  <2>. HIDE DEF e, f
  <2>1. 4 * (b * (b - u)) + u * u <= 4 * (x * x)
    BY <1>2, <1>3, <1>4
  <2>. QED BY <2>1, <1>5, <1>6

\* Roots of products of averages that are one unit apart differ by a unit, so
\* that they still differ when they are rounded down.
LEMMA RootsDiffer ==
    ASSUME NEW a \in Nat, NEW b \in Nat, NEW c \in Nat, NEW s \in Nat, NEW t \in Nat,
           a + Unit <= b, b + Unit <= c, IsRoot(s, a * b), IsRoot(t, b * c)
    PROVE  s < t
<1>. DEFINE u == Unit
            x == s * Unit
            y == t * Unit
<1>1. u \in Nat \ {0} /\ x \in Nat /\ y \in Nat /\ u <= b
  BY RuleAssumption
<1>2. x * x <= a * b /\ b * c < (y + u) * (y + u)
  BY DEF IsRoot
<1>3. ~(t <= s) \/ y <= x
  <2>1. ASSUME t <= s PROVE Unit * t <= Unit * s
    BY <2>1, RuleAssumption, ProductMono
  <2>2. Unit * t = y /\ Unit * s = x
    BY RuleAssumption
  <2>. QED BY <2>1, <2>2
<1>4. a + u <= b /\ b + u <= c
  OBVIOUS
<1>. HIDE DEF u, x, y
<1>5. x * x <= b * (b - u)
  <2>1. a <= b - u /\ b - u \in Nat
    BY <1>1, <1>4
  <2>2. b * a <= b * (b - u)
    BY <2>1, ProductMono
  <2>3. b * a = a * b /\ a * b \in Nat /\ b * (b - u) \in Nat /\ x * x \in Nat
    BY <2>1, <1>1
  <2>. QED BY <2>2, <2>3, <1>2
<1>6. 2 * x <= 2 * b - u
  BY <1>1, <1>5, RootBelow
<1>7. u * (2 * x) <= u * (2 * b - u)
  BY <1>1, <1>6, ProductMono
<1>8. (x + u) * (x + u) = x * x + u * (2 * x) + u * u
  BY <1>1
<1>9. b * (b - u) + u * (2 * b - u) + u * u = b * (b + u)
  BY <1>1
<1>10. (x + u) * (x + u) <= b * (b + u)
  <2>1. /\ x * x \in Int /\ u * (2 * x) \in Int /\ u * u \in Int
        /\ b * (b - u) \in Int /\ u * (2 * b - u) \in Int
    BY <1>1
  <2>. QED BY <2>1, <1>5, <1>7, <1>8, <1>9
<1>11. b * (b + u) <= b * c
  BY <1>1, <1>4, ProductMono
<1>12. (x + u) * (x + u) < (y + u) * (y + u)
  <2>1. (x + u) * (x + u) \in Int /\ (y + u) * (y + u) \in Int /\ b * (b + u) \in Int /\ b * c \in Int
    BY <1>1
  <2>. QED BY <2>1, <1>10, <1>11, <1>2
<1>13. ~(y <= x)
  <2>1. SUFFICES ASSUME y <= x PROVE FALSE
    OBVIOUS
  <2>2. (y + u) * (y + u) <= (x + u) * (x + u)
    BY <2>1, <1>1, SquareMono
  <2>3. (x + u) * (x + u) \in Int /\ (y + u) * (y + u) \in Int
    BY <1>1
  <2>. QED BY <2>2, <2>3, <1>12
<1>. QED BY <1>3, <1>13

\* The invariant holds before the first loop.
LEMMA InitRules == RulesInit => Inv
BY RuleAssumption DEF RulesInit, Inv, Classes, Rising, LastRoot, EveryClassHasWeights

\* Raising an average puts the next boundary above the last (qcluster.py:235-237).
LEMMA RaiseStep == Inv /\ Raise => Inv'
<1>. SUFFICES ASSUME Inv, Raise PROVE Inv'
  OBVIOUS
<1>1. PICK t \in 0 .. MaxCount + Queues :
         /\ IsRoot(t, avgs[index - 1] * avgs'[index])
         /\ thresholds' = Append(thresholds, t)
  BY DEF Raise
<1>2. /\ phase = "raise" /\ phase' = "raise" /\ index' = index + 1 /\ table' = table
      /\ index \in 1 .. Queues /\ index < Queues /\ Len(thresholds) = index - 1
      /\ Queues \in Nat /\ Unit \in Nat /\ t \in Nat
      /\ thresholds \in Seq(Nat) /\ avgs \in [Classes -> Nat]
      /\ index \in Classes /\ index - 1 \in Classes
  <2>1. phase = "raise" /\ phase' = "raise" /\ index' = index + 1 /\ table' = table /\ index < Queues
    BY DEF Raise
  <2>2. Queues \in Nat /\ Unit \in Nat /\ MaxCount \in Nat
    BY RuleAssumption
  <2>3. index \in 1 .. Queues /\ Len(thresholds) = index - 1
    BY <2>1 DEF Inv, LastRoot
  <2>4. index \in Classes /\ index - 1 \in Classes
    BY <2>1, <2>2, <2>3 DEF Classes
  <2>5. t \in Nat
    BY <2>2
  <2>. QED BY <2>1, <2>2, <2>3, <2>4, <2>5 DEF Inv
<1>3. /\ avgs' \in [Classes -> Nat]
      /\ \A k \in Classes \ {index} : avgs'[k] = avgs[k]
      /\ avgs[index - 1] + Unit <= avgs'[index]
  <2>1. avgs[index] \in Nat /\ avgs[index - 1] \in Nat
    BY <1>2
  <2>2. /\ Raised(avgs[index], avgs[index - 1]) \in Nat
        /\ avgs[index - 1] + Unit <= Raised(avgs[index], avgs[index - 1])
    BY <1>2, <2>1 DEF Raised, Larger
  <2>3. avgs' = [avgs EXCEPT ![index] = Raised(avgs[index], avgs[index - 1])]
    BY DEF Raise
  <2>. QED BY <1>2, <2>2, <2>3
<1>4. /\ thresholds' \in Seq(Nat) /\ Len(thresholds') = index /\ thresholds'[index] = t
      /\ \A k \in 1 .. index - 1 : thresholds'[k] = thresholds[k]
  BY <1>1, <1>2
<1>5. index >= 2 => thresholds[index - 1] < t
  <2>1. SUFFICES ASSUME index >= 2 PROVE thresholds[index - 1] < t
    OBVIOUS
  <2>2. /\ IsRoot(thresholds[index - 1], avgs[index - 2] * avgs[index - 1])
        /\ avgs[index - 2] + Unit <= avgs[index - 1]
    BY <1>2, <2>1 DEF Inv, LastRoot
  <2>3. index - 2 \in Classes /\ thresholds[index - 1] \in Nat
    BY <1>2, <2>1 DEF Classes
  <2>4. avgs[index - 2] \in Nat /\ avgs[index - 1] \in Nat /\ avgs'[index] \in Nat
    BY <1>2, <1>3, <2>3
  <2>. QED BY <1>1, <1>2, <1>3, <2>2, <2>3, <2>4, RootsDiffer
<1>6. Rising'
  <2>1. SUFFICES ASSUME NEW k \in 1 .. Queues - 2, k < index
                 PROVE  thresholds'[k] < thresholds'[k + 1]
    BY <1>4 DEF Rising
  <2>2. CASE k = index - 1
    BY <2>1, <2>2, <1>2, <1>4, <1>5
  <2>3. CASE k # index - 1
    <3>1. k + 1 \in 1 .. index - 1 /\ k \in 1 .. index - 1 /\ k < Len(thresholds)
      BY <2>1, <2>3, <1>2
    <3>. QED BY <3>1, <1>4 DEF Inv, Rising
  <2>. QED BY <2>2, <2>3
<1>7. LastRoot'
  <2>1. avgs'[index - 1] = avgs[index - 1]
    BY <1>2, <1>3
  <2>2. IsRoot(thresholds'[index], avgs'[index - 1] * avgs'[index])
    BY <1>1, <1>4, <2>1
  <2>3. index' - 1 = index /\ index' - 2 = index - 1 /\ index' \in 1 .. Queues
    BY <1>2
  <2>4. avgs'[index - 1] + Unit <= avgs'[index]
    BY <2>1, <1>3
  <2>. QED BY <1>4, <2>2, <2>3, <2>4 DEF LastRoot, IsRoot
<1>8. EveryClassHasWeights'
  BY <1>2 DEF Inv, EveryClassHasWeights
<1>. QED BY <1>2, <1>3, <1>4, <1>6, <1>7, <1>8 DEF Inv

\* The last boundary need not rise: it is the end of the last class
\* (qcluster.py:238).
LEMMA CloseStep == Inv /\ Close => Inv'
<1>. SUFFICES ASSUME Inv, Close PROVE Inv'
  OBVIOUS
<1>1. /\ phase = "raise" /\ phase' = "add" /\ index = Queues /\ index' = 0
      /\ thresholds' = Append(thresholds, Top) /\ avgs' = avgs /\ table' = table
      /\ Len(thresholds) = Queues - 1 /\ thresholds \in Seq(Nat)
      /\ Queues \in Nat /\ Top \in Nat
  BY RuleAssumption DEF Inv, LastRoot, Close
<1>2. /\ thresholds' \in Seq(Nat) /\ Len(thresholds') = Queues
      /\ \A k \in 1 .. Queues - 1 : thresholds'[k] = thresholds[k]
  BY <1>1
<1>3. Rising'
  <2>1. SUFFICES ASSUME NEW k \in 1 .. Queues - 2
                 PROVE  thresholds'[k] < thresholds'[k + 1]
    BY DEF Rising
  <2>2. k \in 1 .. Queues - 1 /\ k + 1 \in 1 .. Queues - 1 /\ k < Len(thresholds)
    BY <1>1
  <2>. QED BY <2>2, <1>2 DEF Inv, Rising
<1>. QED BY <1>1, <1>2, <1>3 DEF Inv, LastRoot, EveryClassHasWeights

\* The range of a class that is added begins after the one before it and does
\* not end before it begins (qcluster.py:248-259).
LEMMA AddRuleStep == Inv /\ AddRule => Inv'
<1>. SUFFICES ASSUME Inv, AddRule PROVE Inv'
  OBVIOUS
<1>1. /\ phase = "add" /\ phase' = "add" /\ index < Queues /\ index' = index + 1
      /\ avgs' = avgs /\ thresholds' = thresholds
      /\ index \in 0 .. Queues /\ Len(thresholds) = Queues /\ thresholds \in Seq(Nat)
      /\ Queues \in Nat
  BY RuleAssumption DEF Inv, AddRule
<1>2. PICK hdl :
         table' = [h \in DOMAIN table \cup {hdl} |->
                     IF h = hdl
                     THEN [port |-> port_i, start |-> Start(index),
                           end |-> thresholds[index + 1], qid |-> Qid(index)]
                     ELSE table[h]]
  BY DEF AddRule
<1>3. Qid(index) # 0 => Start(index) <= thresholds[index + 1]
  <2>1. SUFFICES ASSUME Qid(index) # 0 PROVE Start(index) <= thresholds[index + 1]
    OBVIOUS
  <2>2. index <= Queues - 2 /\ thresholds[index + 1] \in Nat
    BY <2>1, <1>1 DEF Qid
  <2>3. CASE index > 0
    <3>1. thresholds[index] \in Nat /\ thresholds[index] < thresholds[index + 1]
      BY <2>2, <2>3, <1>1 DEF Inv, Rising
    <3>. QED BY <3>1, <2>2, <2>3 DEF Start
  <2>4. CASE ~(index > 0)
    BY <2>2, <2>4 DEF Start
  <2>. QED BY <2>3, <2>4
<1>4. EveryClassHasWeights'
  <2>1. SUFFICES ASSUME NEW h \in DOMAIN table', table'[h].qid # 0
                 PROVE  table'[h].start <= table'[h].end
    BY DEF EveryClassHasWeights
  <2>2. CASE h = hdl
    BY <2>1, <2>2, <1>2, <1>3
  <2>3. CASE h # hdl
    <3>1. h \in DOMAIN table /\ table'[h] = table[h]
      BY <2>1, <2>3, <1>2
    <3>. QED BY <3>1, <2>1 DEF Inv, EveryClassHasWeights
  <2>. QED BY <2>2, <2>3
<1>. QED BY <1>1, <1>4 DEF Inv, Rising, LastRoot

\* The other steps do not touch boundaries that are in use or the rules.
LEMMA OtherSteps ==
    ASSUME Inv, Measure \/ Added \/ DeleteOld \/ Deleted \/ Save \/ UNCHANGED rulesVars
    PROVE  Inv'
<1>1. CASE Measure
  <2>1. Averages \cup {Unit} \subseteq Nat /\ Queues \in Nat /\ Queues >= 2
    BY RuleAssumption
  <2>2. avgs' \in [Classes -> Nat] /\ thresholds' = <<>> /\ phase' = "raise" /\ index' = 1
        /\ table' = table
    BY <1>1, <2>1 DEF Measure
  <2>. QED BY <2>1, <2>2 DEF Inv, Rising, LastRoot, EveryClassHasWeights
<1>2. CASE Added
  BY <1>2 DEF Added, Inv, Rising, LastRoot, EveryClassHasWeights
<1>3. CASE DeleteOld
  BY <1>3 DEF DeleteOld, Inv, Rising, LastRoot, EveryClassHasWeights
<1>4. CASE Deleted
  BY <1>4 DEF Deleted, Inv, Rising, LastRoot, EveryClassHasWeights
<1>5. CASE Save
  <2>1. /\ avgs' = [k \in Classes |-> 0] /\ thresholds' = <<>> /\ phase' = "measure"
        /\ table' = table
    BY <1>5 DEF Save
  <2>. QED BY <2>1 DEF Inv, Rising, LastRoot, EveryClassHasWeights
<1>6. CASE UNCHANGED rulesVars
  BY <1>6 DEF rulesVars, control, Inv, Rising, LastRoot, EveryClassHasWeights
<1>. QED BY <1>1, <1>2, <1>3, <1>4, <1>5, <1>6

\* However close the averages of the queues are, and in whatever order, every
\* class but the last has at least one weight (qcluster.py:235-252).
THEOREM EveryClassGetsWeights == RulesSpec => []EveryClassHasWeights
<1>1. Inv /\ [RulesNext]_rulesVars => Inv'
  BY RaiseStep, CloseStep, AddRuleStep, OtherSteps DEF RulesNext
<1>2. Inv => EveryClassHasWeights
  BY DEF Inv
<1>. QED BY InitRules, <1>1, <1>2, PTL DEF RulesSpec

------------------------------------------------------------------------------
(* The exchange of the rules                                               *)

\* Any two boundaries rise, but for the last.
Ordered ==
    \A a, b \in 1 .. Queues - 1 : a < b /\ b <= Len(thresholds)
                                    => thresholds[a] < thresholds[b]

\* What was done so far: the ports before port_i, all of them after the first loop.
Loops ==
    /\ \A p \in 1 .. Ports : Ruled(p) <=> loop_time = 1 \/ p < port_i
    /\ phase = "delete" => loop_time = 1 /\ index \in 1 .. Queues + 1

\* The kept handles of a port that are still in use.
Live(p) ==
    IF ~Ruled(p) \/ (p = port_i /\ phase = "save") THEN {}
    ELSE IF p = port_i /\ phase = "delete" THEN index .. Queues ELSE 1 .. Queues

Kept ==
    \A p \in 1 .. Ports : \A k \in Live(p) :
        /\ hdls_save[p][k] \in DOMAIN table
        /\ table[hdls_save[p][k]].port = p /\ table[hdls_save[p][k]].qid = Queues - k

\* The ranges of a port follow each other up to Top.
Chain(p) ==
    LET rule(k) == table[hdls_save[p][k]]
    IN  /\ rule(1).start = 0 /\ rule(Queues).end = Top
        /\ \A k \in 2 .. Queues : rule(k).start = rule(k - 1).end + 1
        /\ \A a, b \in 1 .. Queues - 1 : a < b => rule(a).end < rule(b).end

Whole == \A p \in 1 .. Ports : Live(p) = 1 .. Queues => Chain(p)

\* The rules that were added for the port in this loop.
Batch ==
    IF phase \in {"measure", "raise"} THEN new_hdls = <<>>
    ELSE /\ Len(new_hdls) = IF phase = "add" THEN index ELSE Queues
         /\ Len(thresholds) = Queues /\ thresholds[Queues] = Top
         /\ \A k \in 1 .. Len(new_hdls) :
               /\ new_hdls[k] \in DOMAIN table
               /\ table[new_hdls[k]] = [port |-> port_i, start |-> Start(k - 1),
                                        end |-> thresholds[k], qid |-> Queues - k]
               /\ \A j \in Live(port_i) : new_hdls[k] # hdls_save[port_i][j]

\* Every rule is in use.
Placed ==
    \A h \in DOMAIN table :
        \/ \E p \in 1 .. Ports : \E k \in Live(p) : h = hdls_save[p][k]
        \/ \E k \in 1 .. Len(new_hdls) : h = new_hdls[k]

RulesInv == RulesTypeOK /\ Inv /\ Ordered /\ Loops /\ Kept /\ Whole /\ Batch /\ Placed

\* The constants as the steps use them.
LEMMA RuleConstants ==
    /\ Queues \in Nat /\ Queues >= 2 /\ Ports \in Nat /\ Ports >= 1 /\ Top \in Nat
    /\ Unit \in Nat /\ MaxCount \in Nat /\ Averages \cup {Unit} \subseteq Nat
    /\ 1 \in 1 .. Queues /\ Queues \in 1 .. Queues
BY RuleAssumption

\* What the rules added in this loop are.
LEMMA BatchOf ==
    ASSUME RulesTypeOK, Batch, NEW k \in 1 .. Len(new_hdls)
    PROVE  /\ phase \in {"add", "delete", "save"}
           /\ new_hdls[k] \in DOMAIN table
           /\ table[new_hdls[k]].port = port_i
           /\ table[new_hdls[k]].start = Start(k - 1)
           /\ table[new_hdls[k]].end = thresholds[k]
           /\ table[new_hdls[k]].qid = Queues - k
<1>1. phase \notin {"measure", "raise"}
  <2>1. CASE phase \in {"measure", "raise"}
    BY <2>1 DEF Batch
  <2>. QED BY <2>1
<1>2. phase \in {"add", "delete", "save"}
  BY <1>1 DEF RulesTypeOK
<1>3. /\ new_hdls[k] \in DOMAIN table
      /\ table[new_hdls[k]] = [port |-> port_i, start |-> Start(k - 1),
                               end |-> thresholds[k], qid |-> Queues - k]
  BY <1>1, Zenon DEF Batch
<1>. QED BY <1>2, <1>3

\* The rules in use are not more than the ports and one exchange have queues.
LEMMA TableFits ==
    ASSUME RulesInv
    PROVE  /\ IsFiniteSet(DOMAIN table)
           /\ Cardinality(DOMAIN table) <= MaxRules
           /\ MaxRules \in Nat
           /\ \E h \in Handles : h \notin DOMAIN table
<1> DEFINE New == {new_hdls[k] : k \in 1 .. Len(new_hdls)}
           S == (1 .. Ports + 1) \X (0 .. Queues - 1)
           f == [h \in DOMAIN table |->
                   << IF h \in New THEN Ports + 1 ELSE table[h].port, table[h].qid >>]
<1>1. /\ RulesTypeOK /\ Kept /\ Batch /\ Placed /\ Loops
      /\ \A h \in DOMAIN table : table[h] \in Rule
      /\ \A p \in 1 .. Ports : Live(p) \subseteq 1 .. Queues
  <2>1. RulesTypeOK /\ Kept /\ Batch /\ Placed /\ Loops
    BY DEF RulesInv
  <2>2. \A p \in 1 .. Ports : Live(p) \subseteq 1 .. Queues
    BY <2>1, RuleConstants DEF Live, Loops
  <2>. QED BY <2>1, <2>2 DEF RulesTypeOK
<1>2. IsFiniteSet(S) /\ Cardinality(S) = MaxRules /\ MaxRules \in Nat
  <2>1. /\ IsFiniteSet(1 .. Ports + 1) /\ Cardinality(1 .. Ports + 1) = Ports + 1
        /\ IsFiniteSet(0 .. Queues - 1) /\ Cardinality(0 .. Queues - 1) = Queues
    <3>1. /\ 1 \in Int /\ Ports + 1 \in Int /\ 0 \in Int /\ Queues - 1 \in Int
          /\ ~(1 > Ports + 1) /\ (Ports + 1) - 1 + 1 = Ports + 1
          /\ ~(0 > Queues - 1) /\ (Queues - 1) - 0 + 1 = Queues
      BY RuleConstants
    <3>. QED BY <3>1, FS_Interval
  <2> DEFINE A == 1 .. Ports + 1
             B == 0 .. Queues - 1
  <2>. HIDE DEF A, B
  <2>2. IsFiniteSet(A \X B) /\ Cardinality(A \X B) = Cardinality(A) * Cardinality(B)
    BY <2>1, FS_Product DEF A, B
  <2>3. Cardinality(A) = Ports + 1 /\ Cardinality(B) = Queues /\ S = A \X B
    BY <2>1 DEF A, B
  <2>4. (Ports + 1) * Queues = MaxRules /\ MaxRules \in Nat
    BY RuleConstants DEF MaxRules
  <2>. HIDE DEF S
  <2>. QED BY <2>2, <2>3, <2>4
<1>3. f \in [DOMAIN table -> S]
  BY <1>1, RuleConstants DEF Rule, Classes
<1>4. ASSUME NEW g \in DOMAIN table, NEW h \in DOMAIN table, f[g] = f[h] PROVE g = h
  <2>1. table[g].qid = table[h].qid /\ (g \in New <=> h \in New)
    <3>1. table[g].port # Ports + 1 /\ table[h].port # Ports + 1
      BY <1>1, RuleConstants DEF Rule
    <3>. QED BY <1>4, <3>1
  <2>2. CASE g \in New
    <3>1. PICK a \in 1 .. Len(new_hdls) : g = new_hdls[a]
      BY <2>2
    <3>2. PICK b \in 1 .. Len(new_hdls) : h = new_hdls[b]
      BY <2>1, <2>2
    <3>3. table[g].qid = Queues - a /\ table[h].qid = Queues - b
      BY <3>1, <3>2, <1>1, BatchOf
    <3>4. Len(new_hdls) \in Nat
      BY <1>1, LenProperties DEF RulesTypeOK
    <3>5. a = b
      BY <2>1, <3>1, <3>2, <3>3, <3>4, RuleConstants
    <3>. QED BY <3>1, <3>2, <3>5
  <2>3. CASE g \notin New
    <3>1. table[g].port = table[h].port
      <4>1. /\ f[g] = << table[g].port, table[g].qid >>
            /\ f[h] = << table[h].port, table[h].qid >>
        BY <2>1, <2>3
      <4>2. << table[g].port, table[g].qid >> = << table[h].port, table[h].qid >>
        BY ONLY <4>1, <1>4
      <4>3. \A a, b, c, d : << a, b >> = << c, d >> => a = c
        OBVIOUS
      <4>. QED BY ONLY <4>2, <4>3, Zenon
    <3>2. PICK p \in 1 .. Ports : \E a \in Live(p) : g = hdls_save[p][a]
      BY <1>1, <2>3 DEF Placed
    <3>3. PICK a \in Live(p) : g = hdls_save[p][a]
      BY <3>2
    <3>4. PICK q \in 1 .. Ports : \E b \in Live(q) : h = hdls_save[q][b]
      BY <1>1, <2>1, <2>3 DEF Placed
    <3>5. PICK b \in Live(q) : h = hdls_save[q][b]
      BY <3>4
    <3>6. p = q /\ Queues - a = Queues - b
      BY <2>1, <3>1, <3>3, <3>5, <1>1 DEF Kept
    <3>7. a \in Nat /\ b \in Nat
      BY <1>1, <3>3, <3>5 DEF Live
    <3>. QED BY <3>3, <3>5, <3>6, <3>7, RuleConstants
  <2>. QED BY <2>2, <2>3
<1>5. f \in Injection(DOMAIN table, S)
  BY <1>3, <1>4 DEF Injection, IsInjective
<1>6. IsFiniteSet(DOMAIN table) /\ Cardinality(DOMAIN table) <= MaxRules
  BY <1>2, <1>5, FS_Injection
<1>7. \E h \in Handles : h \notin DOMAIN table
  <2>. SUFFICES ASSUME Handles \subseteq DOMAIN table PROVE FALSE
    OBVIOUS
  <2>1. IsFiniteSet(Handles) /\ Cardinality(Handles) = MaxRules + 1
    <3>1. 1 \in Int /\ MaxRules + 1 \in Int /\ ~(1 > MaxRules + 1) /\ (MaxRules + 1) - 1 + 1 = MaxRules + 1
      BY <1>2
    <3>. QED BY <3>1, FS_Interval DEF Handles
  <2>2. Cardinality(Handles) <= Cardinality(DOMAIN table)
    BY <1>6, FS_Subset
  <2>3. Cardinality(DOMAIN table) \in Nat
    BY <1>6, FS_CardinalityType
  <2>. QED BY <1>2, <1>6, <2>1, <2>2, <2>3
<1>. QED BY <1>2, <1>6, <1>7

\* A step that leaves rules and handles alone.
LEMMA RulesUntouched ==
    ASSUME Loops, Kept, Whole, Placed,
           table' = table, hdls_save' = hdls_save, new_hdls' = new_hdls, port_i' = port_i,
           loop_time' = loop_time, phase' # "delete",
           \A p \in 1 .. Ports : Live(p)' = Live(p)
    PROVE  Loops' /\ Kept' /\ Whole' /\ Placed'
<1>1. Loops'
  BY DEF Loops, Ruled
<1>2. Kept' /\ Placed'
  BY DEF Kept, Placed
<1>3. Whole'
  BY DEF Whole, Chain
<1>. QED BY <1>1, <1>2, <1>3

\* No rules before the first loop.
LEMMA InitRulesInv == RulesInit => RulesInv
<1>. SUFFICES ASSUME RulesInit PROVE RulesInv
  OBVIOUS
<1>1. \A p \in 1 .. Ports : ~Ruled(p)
  BY RuleConstants DEF RulesInit, Ruled
<1>2. RulesTypeOK
  <2>1. DOMAIN <<>> = {} /\ <<>> \in Seq(Nat) /\ <<>> \in Seq(Handles)
    OBVIOUS
  <2>. QED BY <2>1, RuleConstants DEF RulesInit, RulesTypeOK, Classes
<1>3. Ordered
  BY DEF RulesInit, Ordered
<1>4. Loops
  BY <1>1, RuleConstants DEF RulesInit, Loops
<1>5. Kept /\ Placed /\ Batch
  BY <1>1 DEF RulesInit, Kept, Live, Placed, Batch
<1>6. Whole
  BY <1>1, RuleConstants DEF Whole, Live
<1>. QED BY <1>2, <1>3, <1>4, <1>5, <1>6, InitRules DEF RulesInv

\* The averages of the next port are read (qcluster.py:221-233).
LEMMA MeasureKeeps == ASSUME RulesInv, Measure PROVE RulesInv'
<1>1. /\ phase = "measure" /\ phase' = "raise" /\ index' = 1 /\ thresholds' = <<>>
      /\ table' = table /\ hdls_save' = hdls_save /\ new_hdls' = new_hdls
      /\ port_i' = port_i /\ loop_time' = loop_time
      /\ avgs' \in [Classes -> Averages \cup {Unit}]
  BY DEF Measure
<1>2. RulesTypeOK'
  <2>1. avgs' \in [Classes -> Nat] /\ <<>> \in Seq(Nat)
    BY <1>1, RuleConstants
  <2>. QED BY <2>1, <1>1, RuleConstants DEF RulesInv, RulesTypeOK
<1>3. \A p \in 1 .. Ports : Live(p)' = Live(p)
  BY <1>1 DEF Live, Ruled
<1>4. Loops' /\ Kept' /\ Whole' /\ Placed'
  BY <1>1, <1>3, RulesUntouched DEF RulesInv
<1>5. Batch' /\ Ordered'
  BY <1>1 DEF RulesInv, Batch, Ordered
<1>. QED BY <1>2, <1>4, <1>5, OtherSteps DEF RulesInv

\* A boundary more, above the ones before it (qcluster.py:235-237).
LEMMA RaiseKeeps == ASSUME RulesInv, Raise PROVE RulesInv'
<1>1. PICK t \in 0 .. MaxCount + Queues : thresholds' = Append(thresholds, t)
  BY DEF Raise
<1>2. /\ phase = "raise" /\ phase' = "raise" /\ index < Queues /\ index' = index + 1
      /\ table' = table /\ hdls_save' = hdls_save /\ new_hdls' = new_hdls
      /\ port_i' = port_i /\ loop_time' = loop_time
  BY DEF Raise
<1>3. Inv /\ Inv' /\ RulesTypeOK
  BY RaiseStep DEF RulesInv
<1>4. index \in 1 .. Queues /\ Len(thresholds) = index - 1 /\ thresholds \in Seq(Nat) /\ t \in Nat
  BY <1>2, <1>3, RuleConstants DEF Inv, LastRoot
<1>5. /\ Len(thresholds') = index
      /\ \A k \in 1 .. index - 1 : thresholds'[k] = thresholds[k]
      /\ \A k \in 1 .. index : thresholds'[k] \in Nat
  BY <1>1, <1>4, AppendProperties, ElementOfSeq
<1>6. RulesTypeOK'
  BY <1>2, <1>3, <1>4, RuleConstants DEF RulesTypeOK, Inv
<1>7. Ordered'
  <2>. SUFFICES ASSUME NEW a \in 1 .. Queues - 1, NEW b \in 1 .. Queues - 1, a < b, b <= index
                PROVE  thresholds'[a] < thresholds'[b]
    BY <1>5 DEF Ordered
  <2>1. \A c, d \in 1 .. Queues - 1 : c < d /\ d <= index - 1 => thresholds'[c] < thresholds'[d]
    BY <1>4, <1>5 DEF RulesInv, Ordered
  <2>2. CASE b < index
    BY <2>1, <2>2, <1>4
  <2>3. CASE b = index
    <3>1. thresholds'[index - 1] < thresholds'[index]
      <4>1. index - 1 \in 1 .. Queues - 2 /\ index - 1 < Len(thresholds') /\ index - 1 + 1 = index
        BY <2>3, <1>2, <1>4, <1>5, RuleConstants
      <4>. QED BY <4>1, <1>3 DEF Inv, Rising
    <3>2. CASE a = index - 1
      BY <3>1, <3>2, <2>3
    <3>3. CASE a < index - 1
      <4>0. index - 1 \in 1 .. Queues - 1 /\ index - 1 <= index - 1
        BY <3>3, <1>2, <1>4, RuleConstants
      <4>1. thresholds'[a] < thresholds'[index - 1]
        BY <4>0, <3>3, <2>1
      <4>2. thresholds'[a] \in Nat /\ thresholds'[index - 1] \in Nat /\ thresholds'[index] \in Nat
        BY <3>3, <1>4, <1>5
      <4>. QED BY <4>1, <4>2, <3>1, <2>3
    <3>. QED BY <3>2, <3>3, <2>3, <1>4
  <2>. QED BY <2>2, <2>3, <1>4
<1>8. \A p \in 1 .. Ports : Live(p)' = Live(p)
  BY <1>2 DEF Live, Ruled
<1>9. Loops' /\ Kept' /\ Whole' /\ Placed'
  BY <1>2, <1>8, RulesUntouched DEF RulesInv
<1>10. Batch'
  BY <1>2 DEF RulesInv, Batch
<1>. QED BY <1>3, <1>6, <1>7, <1>9, <1>10 DEF RulesInv

\* The last boundary is Top, no rule has been added (qcluster.py:238-247).
LEMMA CloseKeeps == ASSUME RulesInv, Close PROVE RulesInv'
<1>1. /\ phase = "raise" /\ index = Queues /\ thresholds' = Append(thresholds, Top)
      /\ phase' = "add" /\ index' = 0 /\ new_hdls' = <<>> /\ new_hdls = <<>>
      /\ table' = table /\ hdls_save' = hdls_save /\ avgs' = avgs
      /\ port_i' = port_i /\ loop_time' = loop_time
  BY DEF Close, RulesInv, Batch
<1>2. /\ Len(thresholds) = Queues - 1 /\ thresholds \in Seq(Nat)
      /\ Len(thresholds') = Queues /\ thresholds' \in Seq(Nat) /\ thresholds'[Queues] = Top
      /\ \A k \in 1 .. Queues - 1 : thresholds'[k] = thresholds[k]
  <2>1. Len(thresholds) = Queues - 1 /\ thresholds \in Seq(Nat) /\ Queues - 1 + 1 = Queues
    BY <1>1, RuleConstants DEF RulesInv, Inv, LastRoot
  <2>. QED BY <2>1, <1>1, AppendProperties, RuleConstants
<1>3. RulesTypeOK'
  BY <1>1, <1>2, RuleConstants DEF RulesInv, RulesTypeOK
<1>4. Ordered'
  BY <1>2, RuleConstants DEF RulesInv, Ordered
<1>5. \A p \in 1 .. Ports : Live(p)' = Live(p)
  BY <1>1 DEF Live, Ruled
<1>6. Loops' /\ Kept' /\ Whole' /\ Placed'
  BY <1>1, <1>5, RulesUntouched DEF RulesInv
<1>7. Batch'
  BY <1>1, <1>2 DEF Batch
<1>. QED BY <1>3, <1>4, <1>6, <1>7, CloseStep DEF RulesInv

\* A rule more: its handle was free (qcluster.py:248-260).
LEMMA AddKeeps == ASSUME RulesInv, AddRule PROVE RulesInv'
<1> DEFINE hdl == CHOOSE h \in Handles : h \notin DOMAIN table
           new == [port |-> port_i, start |-> Start(index), end |-> thresholds[index + 1], qid |-> Qid(index)]
<1>1. /\ phase = "add" /\ phase' = "add" /\ index < Queues /\ index' = index + 1
      /\ table' = [h \in DOMAIN table \cup {hdl} |-> IF h = hdl THEN new ELSE table[h]]
      /\ new_hdls' = Append(new_hdls, hdl)
      /\ thresholds' = thresholds /\ hdls_save' = hdls_save /\ avgs' = avgs
      /\ port_i' = port_i /\ loop_time' = loop_time
  BY DEF AddRule
<1>2. hdl \in Handles /\ hdl \notin DOMAIN table
  BY TableFits
<1>. HIDE DEF hdl
<1>3. /\ RulesTypeOK /\ Inv /\ Ordered /\ Loops /\ Kept /\ Whole /\ Batch /\ Placed
      /\ index \in 0 .. Queues - 1 /\ Len(new_hdls) = index /\ new_hdls \in Seq(Handles)
      /\ Len(thresholds) = Queues /\ thresholds \in Seq(Nat)
      /\ \A k \in 1 .. Queues : thresholds[k] \in Nat
  <2>1. /\ RulesTypeOK /\ Inv /\ Ordered /\ Loops /\ Kept /\ Whole /\ Batch /\ Placed
        /\ thresholds \in Seq(Nat) /\ new_hdls \in Seq(Handles)
        /\ index \in 0 .. Queues /\ Len(thresholds) = Queues
    BY <1>1 DEF RulesInv, Inv, RulesTypeOK
  <2>2. Len(new_hdls) = index
    BY <2>1, <1>1 DEF Batch
  <2>. QED BY <2>1, <2>2, <1>1, ElementOfSeq, RuleConstants
<1>4. /\ DOMAIN table' = DOMAIN table \cup {hdl} /\ table'[hdl] = new
      /\ \A h \in DOMAIN table : h # hdl /\ table'[h] = table[h]
  BY <1>1, <1>2
<1>. HIDE DEF new
<1>5. new \in Rule
  <2>1. Start(index) \in Nat /\ Qid(index) \in Classes /\ thresholds[index + 1] \in Nat
    BY <1>3, RuleConstants DEF Start, Qid, Classes
  <2>2. port_i \in 1 .. Ports
    BY <1>3 DEF RulesTypeOK
  <2>. QED BY <2>1, <2>2 DEF new, Rule
<1>6. /\ new_hdls' \in Seq(Handles) /\ Len(new_hdls') = index + 1
      /\ \A k \in 1 .. index : new_hdls'[k] = new_hdls[k]
      /\ new_hdls'[index + 1] = hdl
  BY <1>1, <1>2, <1>3, AppendProperties
<1>7. RulesTypeOK'
  <2>1. \A h \in DOMAIN table' : table'[h] \in Rule
    BY <1>3, <1>4, <1>5 DEF RulesTypeOK
  <2>2. DOMAIN table' \subseteq Handles /\ index' \in 0 .. Queues + 1
    BY <1>1, <1>2, <1>3, <1>4, RuleConstants DEF RulesTypeOK
  <2>. QED BY <2>1, <2>2, <1>1, <1>3, <1>6 DEF RulesTypeOK
<1>8. Ordered' /\ Loops'
  BY <1>1, <1>3 DEF Ordered, Loops, Ruled
<1>9. \A p \in 1 .. Ports : Live(p)' = Live(p)
  BY <1>1 DEF Live, Ruled
<1>10. Kept'
  <2>1. hdls_save' = hdls_save
    BY <1>1
  <2>2. ASSUME NEW p \in 1 .. Ports, NEW k \in Live(p)
        PROVE  /\ hdls_save[p][k] \in DOMAIN table'
               /\ table'[hdls_save[p][k]].port = p
               /\ table'[hdls_save[p][k]].qid = Queues - k
    <3>1. /\ hdls_save[p][k] \in DOMAIN table
          /\ table[hdls_save[p][k]].port = p /\ table[hdls_save[p][k]].qid = Queues - k
      BY <1>3 DEF Kept
    <3>. QED BY <3>1, <1>4
  <2>. QED BY <2>1, <2>2, <1>9 DEF Kept
<1>11. Whole'
  <2>. SUFFICES ASSUME NEW p \in 1 .. Ports, Live(p) = 1 .. Queues PROVE Chain(p)'
    BY <1>9 DEF Whole
  <2>1. \A k \in 1 .. Queues : hdls_save[p][k] \in DOMAIN table
    BY <1>3 DEF Kept
  <2>2. \A k \in 1 .. Queues : table'[hdls_save'[p][k]] = table[hdls_save[p][k]]
    BY <2>1, <1>1, <1>4
  <2>3. Chain(p)
    BY <1>3 DEF Whole
  <2>4. /\ \A k \in 2 .. Queues : k \in 1 .. Queues /\ k - 1 \in 1 .. Queues
        /\ \A k \in 1 .. Queues - 1 : k \in 1 .. Queues
    BY RuleConstants
  <2>. QED BY <2>2, <2>3, <2>4, RuleConstants DEF Chain
<1>12. Batch'
  <2>. SUFFICES ASSUME NEW k \in 1 .. index + 1
                PROVE  /\ new_hdls'[k] \in DOMAIN table'
                       /\ table'[new_hdls'[k]] = [port |-> port_i, start |-> Start(k - 1),
                                                  end |-> thresholds[k], qid |-> Queues - k]
                       /\ \A j \in Live(port_i) : new_hdls'[k] # hdls_save[port_i][j]
    <3>1. Start(0)' = Start(0) /\ \A k \in 1 .. Queues : Start(k - 1)' = Start(k - 1)
      BY <1>1 DEF Start
    <3>2. index + 1 \in 1 .. Queues /\ port_i \in 1 .. Ports
      BY <1>3, RuleConstants DEF RulesTypeOK
    <3>3. thresholds[Queues] = Top
      BY <1>1, <1>3 DEF Batch
    <3>4. Live(port_i)' = Live(port_i)
      BY <3>2, <1>1, <1>9
    <3>5. /\ phase' = "add" /\ port_i' = port_i /\ index' = index + 1 /\ thresholds' = thresholds
          /\ hdls_save' = hdls_save /\ Len(new_hdls') = index + 1 /\ Len(thresholds) = Queues
      BY <1>1, <1>3, <1>6
    <3>6. \A j \in 1 .. index + 1 : j \in 1 .. Queues
      BY <1>3, RuleConstants
    <3>. QED BY <3>1, <3>3, <3>4, <3>5, <3>6 DEF Batch
  <2>1. CASE k \in 1 .. index
    <3>1. /\ new_hdls[k] \in DOMAIN table
          /\ table[new_hdls[k]] = [port |-> port_i, start |-> Start(k - 1),
                                   end |-> thresholds[k], qid |-> Queues - k]
          /\ \A j \in Live(port_i) : new_hdls[k] # hdls_save[port_i][j]
      BY <2>1, <1>1, <1>3 DEF Batch
    <3>. QED BY <3>1, <2>1, <1>4, <1>6
  <2>2. CASE k = index + 1
    <3>1. k - 1 = index /\ Qid(index) = Queues - k
      BY <2>2, <1>3, RuleConstants DEF Qid
    <3>2. \A j \in Live(port_i) : hdls_save[port_i][j] \in DOMAIN table
      BY <1>3 DEF Kept, RulesTypeOK
    <3>. QED BY <3>1, <3>2, <2>2, <1>2, <1>4, <1>6 DEF new
  <2>. QED BY <2>1, <2>2, <1>3
<1>13. Placed'
  <2>. SUFFICES ASSUME NEW h \in DOMAIN table'
                PROVE  \/ \E p \in 1 .. Ports : \E k \in Live(p) : h = hdls_save[p][k]
                       \/ \E k \in 1 .. index + 1 : h = new_hdls'[k]
    BY <1>1, <1>6, <1>9 DEF Placed
  <2>1. CASE h = hdl
    <3>1. index + 1 \in 1 .. index + 1
      BY <1>3
    <3>. QED BY <3>1, <2>1, <1>6
  <2>2. CASE h \in DOMAIN table
    <3>1. CASE \E p \in 1 .. Ports : \E k \in Live(p) : h = hdls_save[p][k]
      BY <3>1
    <3>2. CASE \E k \in 1 .. Len(new_hdls) : h = new_hdls[k]
      BY <3>2, <1>3, <1>6
    <3>. QED BY <3>1, <3>2, <2>2, <1>3 DEF Placed
  <2>. QED BY <2>1, <2>2, <1>4
<1>. QED BY <1>3, <1>7, <1>8, <1>10, <1>11, <1>12, <1>13, AddRuleStep DEF RulesInv

\* In the first loop no port before its turn has rules (qcluster.py:263).
LEMMA AddedKeeps == ASSUME RulesInv, Added PROVE RulesInv'
<1>1. /\ phase = "add" /\ index = Queues /\ index' = 1
      /\ phase' = (IF loop_time # 0 THEN "delete" ELSE "save")
      /\ table' = table /\ hdls_save' = hdls_save /\ new_hdls' = new_hdls
      /\ thresholds' = thresholds /\ avgs' = avgs /\ port_i' = port_i /\ loop_time' = loop_time
  BY DEF Added
<1>2. RulesTypeOK /\ Loops /\ Kept /\ Whole /\ Batch /\ Placed
  BY DEF RulesInv
<1>3. RulesTypeOK'
  BY <1>1, <1>2, RuleConstants DEF RulesTypeOK
<1>4. port_i \in 1 .. Ports /\ loop_time \in 0 .. 1
  BY <1>2 DEF RulesTypeOK
<1>5. \A p \in 1 .. Ports : Live(p)' = Live(p)
  <2>1. loop_time = 0 => ~Ruled(port_i)
    BY <1>2, <1>4, RuleConstants DEF Loops
  <2>. QED BY <2>1, <1>1, <1>4 DEF Live, Ruled
<1>6. Loops'
  BY <1>1, <1>2, <1>4, RuleConstants DEF Loops, Ruled
<1>7. Kept' /\ Placed'
  BY <1>1, <1>2, <1>5 DEF Kept, Placed
<1>8. Whole'
  BY <1>1, <1>2, <1>5 DEF Whole, Chain
<1>9. Batch'
  BY <1>1, <1>2, <1>4, <1>5 DEF Batch, Start
<1>10. Ordered'
  BY <1>1 DEF RulesInv, Ordered
<1>. QED BY <1>3, <1>6, <1>7, <1>8, <1>9, <1>10, OtherSteps DEF RulesInv

\* An old rule less: no other port, and no new rule, has its handle
\* (qcluster.py:262-266).
LEMMA DeleteKeeps == ASSUME RulesInv, DeleteOld PROVE RulesInv'
<1> DEFINE x == hdls_save[port_i][index]
<1>1. /\ phase = "delete" /\ phase' = "delete" /\ index <= Queues /\ index' = index + 1
      /\ table' = [h \in DOMAIN table \ {x} |-> table[h]]
      /\ hdls_save' = hdls_save /\ new_hdls' = new_hdls
      /\ thresholds' = thresholds /\ avgs' = avgs /\ port_i' = port_i /\ loop_time' = loop_time
  BY DEF DeleteOld
<1>2. /\ RulesTypeOK /\ Ordered /\ Loops /\ Kept /\ Whole /\ Batch /\ Placed
      /\ port_i \in 1 .. Ports /\ index \in 1 .. Queues /\ loop_time = 1
  BY <1>1, RuleConstants DEF RulesInv, RulesTypeOK, Loops
<1>3. \A p \in 1 .. Ports : p = port_i =>
         Live(p) = index .. Queues /\ Live(p)' = index + 1 .. Queues /\ index \in Live(p)
  <2>. SUFFICES ASSUME NEW p \in 1 .. Ports, p = port_i
                PROVE  Live(p) = index .. Queues /\ Live(p)' = index + 1 .. Queues /\ index \in index .. Queues
    OBVIOUS
  <2>1. Ruled(p) /\ Ruled(p)'
    BY <1>1, <1>2 DEF Loops, Ruled
  <2>. QED BY <2>1, <1>1, <1>2, RuleConstants DEF Live
<1>4. \A p \in 1 .. Ports : p # port_i => Live(p)' = Live(p)
  BY <1>1 DEF Live, Ruled
<1>5. x \in DOMAIN table /\ table[x].port = port_i /\ table[x].qid = Queues - index
  BY <1>2, <1>3 DEF Kept
<1>. HIDE DEF x
<1>6. /\ DOMAIN table' = DOMAIN table \ {x} /\ \A h \in DOMAIN table \ {x} : table'[h] = table[h]
  BY <1>1
<1>7. \A p \in 1 .. Ports : \A k \in Live(p)' : k \in Live(p) /\ hdls_save[p][k] # x
  <2>. SUFFICES ASSUME NEW p \in 1 .. Ports, NEW k \in Live(p)'
                PROVE  k \in Live(p) /\ hdls_save[p][k] # x
    OBVIOUS
  <2>1. CASE p = port_i
    <3>0. Live(p) = index .. Queues /\ Live(p)' = index + 1 .. Queues
      BY <2>1, <1>3
    <3>1. k \in index + 1 .. Queues /\ k \in Live(p)
      BY <3>0, <1>2, RuleConstants
    <3>2. table[hdls_save[p][k]].qid = Queues - k
      BY <3>1, <1>2 DEF Kept
    <3>. QED BY <3>1, <3>2, <1>2, <1>5, RuleConstants
  <2>2. CASE p # port_i
    <3>1. k \in Live(p) /\ table[hdls_save[p][k]].port = p
      BY <2>2, <1>2, <1>4 DEF Kept
    <3>. QED BY <3>1, <2>2, <1>5
  <2>. QED BY <2>1, <2>2
<1>8. RulesTypeOK'
  <2>1. DOMAIN table' \subseteq Handles /\ \A h \in DOMAIN table' : table'[h] \in Rule
    BY <1>2, <1>6 DEF RulesTypeOK
  <2>2. index' \in 0 .. Queues + 1
    BY <1>1, <1>2, RuleConstants
  <2>. QED BY <2>1, <2>2, <1>1, <1>2 DEF RulesTypeOK
<1>9. Ordered' /\ Loops'
  BY <1>1, <1>2, RuleConstants DEF Ordered, Loops, Ruled
<1>10. Kept'
  BY <1>1, <1>2, <1>6, <1>7 DEF Kept
<1>11. Whole'
  <2>. SUFFICES ASSUME NEW p \in 1 .. Ports, Live(p)' = 1 .. Queues PROVE Chain(p)'
    BY DEF Whole
  <2>1. p # port_i
    <3>1. 1 \in Live(p)' /\ 1 \notin index + 1 .. Queues
      BY <1>2, RuleConstants
    <3>. QED BY <3>1, <1>3
  <2>2. Live(p) = 1 .. Queues /\ Chain(p)
    BY <2>1, <1>2, <1>4 DEF Whole
  <2>3. \A k \in 1 .. Queues : hdls_save[p][k] \in DOMAIN table \ {x}
    BY <2>2, <1>2, <1>7 DEF Kept
  <2>4. \A k \in 1 .. Queues : table'[hdls_save'[p][k]] = table[hdls_save[p][k]]
    BY <2>3, <1>1, <1>6
  <2>5. /\ \A k \in 2 .. Queues : k \in 1 .. Queues /\ k - 1 \in 1 .. Queues
        /\ \A k \in 1 .. Queues - 1 : k \in 1 .. Queues
    BY RuleConstants
  <2>. QED BY <2>2, <2>4, <2>5, RuleConstants DEF Chain
<1>12. Batch'
  <2>1. \A k \in 1 .. Queues : Start(k - 1)' = Start(k - 1)
    BY <1>1 DEF Start
  <2>2. /\ Len(new_hdls) = Queues /\ Len(thresholds) = Queues /\ thresholds[Queues] = Top
        /\ \A k \in 1 .. Queues :
               /\ new_hdls[k] \in DOMAIN table \ {x}
               /\ table[new_hdls[k]] = [port |-> port_i, start |-> Start(k - 1),
                                        end |-> thresholds[k], qid |-> Queues - k]
               /\ \A j \in Live(port_i)' : new_hdls[k] # hdls_save[port_i][j]
    BY <1>1, <1>2, <1>3, <1>7 DEF Batch, x
  <2>. QED BY <2>1, <2>2, <1>1, <1>6 DEF Batch
<1>13. Placed'
  <2>. SUFFICES ASSUME NEW h \in DOMAIN table \ {x},
                       NEW p \in 1 .. Ports, NEW k \in Live(p), h = hdls_save[p][k]
                PROVE  k \in Live(p)'
    BY <1>1, <1>2, <1>6 DEF Placed
  <2>1. CASE p = port_i
    <3>1. k # index
      BY <2>1 DEF x
    <3>2. Live(p) = index .. Queues /\ Live(p)' = index + 1 .. Queues
      BY <2>1, <1>3
    <3>. QED BY <3>1, <3>2, <1>2, RuleConstants
  <2>. QED BY <2>1, <1>4
<1>. QED BY <1>8, <1>9, <1>10, <1>11, <1>12, <1>13, OtherSteps DEF RulesInv

\* No old rule is left in use (qcluster.py:262-266).
LEMMA DeletedKeeps == ASSUME RulesInv, Deleted PROVE RulesInv'
<1>1. /\ phase = "delete" /\ phase' = "save" /\ index = Queues + 1 /\ index' = index
      /\ table' = table /\ hdls_save' = hdls_save /\ new_hdls' = new_hdls
      /\ thresholds' = thresholds /\ avgs' = avgs /\ port_i' = port_i /\ loop_time' = loop_time
  BY DEF Deleted
<1>2. RulesTypeOK /\ Loops /\ Kept /\ Whole /\ Batch /\ Placed
  BY DEF RulesInv
<1>3. RulesTypeOK'
  BY <1>1, <1>2 DEF RulesTypeOK
<1>4. \A p \in 1 .. Ports : Live(p)' = Live(p)
  <2>1. index .. Queues = {}
    BY <1>1, RuleConstants
  <2>. QED BY <2>1, <1>1 DEF Live, Ruled
<1>5. Loops' /\ Kept' /\ Whole' /\ Placed'
  BY <1>1, <1>2, <1>4, RulesUntouched
<1>6. Batch'
  <2>1. port_i \in 1 .. Ports
    BY <1>2 DEF RulesTypeOK
  <2>. QED BY <2>1, <1>1, <1>2, <1>4 DEF Batch, Start
<1>7. Ordered'
  BY <1>1 DEF RulesInv, Ordered
<1>. QED BY <1>3, <1>5, <1>6, <1>7, OtherSteps DEF RulesInv

\* The new rules become the port's own (qcluster.py:266).
LEMMA SaveKeeps == ASSUME RulesInv, Save PROVE RulesInv'
<1>1. /\ phase = "save" /\ phase' = "measure" /\ index' = 0
      /\ hdls_save' = [hdls_save EXCEPT ![port_i] = new_hdls]
      /\ port_i' = (IF port_i = Ports THEN 1 ELSE port_i + 1)
      /\ loop_time' = (IF port_i = Ports THEN 1 ELSE loop_time)
      /\ avgs' = [k \in Classes |-> 0] /\ thresholds' = <<>> /\ new_hdls' = <<>>
      /\ table' = table
  BY DEF Save
<1>2. /\ RulesTypeOK /\ Ordered /\ Loops /\ Kept /\ Whole /\ Batch /\ Placed
      /\ port_i \in 1 .. Ports /\ loop_time \in 0 .. 1
  BY DEF RulesInv, RulesTypeOK
<1>3. /\ Len(new_hdls) = Queues /\ new_hdls \in [1 .. Queues -> Handles]
      /\ Len(thresholds) = Queues /\ thresholds[Queues] = Top
      /\ \A k \in 1 .. Queues :
            /\ new_hdls[k] \in DOMAIN table
            /\ table[new_hdls[k]] = [port |-> port_i, start |-> Start(k - 1),
                                     end |-> thresholds[k], qid |-> Queues - k]
  <2>1. Len(new_hdls) = Queues /\ new_hdls \in Seq(Handles)
    BY <1>1, <1>2 DEF Batch, RulesTypeOK
  <2>2. new_hdls \in [1 .. Queues -> Handles]
    BY <2>1, LenProperties
  <2>. QED BY <2>1, <2>2, <1>1, <1>2 DEF Batch
<1>4. /\ \A p \in 1 .. Ports : hdls_save'[p] = IF p = port_i THEN new_hdls ELSE hdls_save[p]
      /\ hdls_save' \in [1 .. Ports -> [1 .. Queues -> Handles \cup {0}]]
  BY <1>1, <1>2, <1>3 DEF RulesTypeOK
<1>5. RulesTypeOK'
  <2>1. <<>> \in Seq(Nat) /\ <<>> \in Seq(Handles)
    OBVIOUS
  <2>. QED BY <2>1, <1>1, <1>2, <1>4, RuleConstants DEF RulesTypeOK, Classes
<1>6. \A p \in 1 .. Ports : IF p = port_i THEN Ruled(p)' ELSE Ruled(p)' <=> Ruled(p)
  <2>1. new_hdls[1] # 0
    <3>1. new_hdls[1] \in Handles /\ 0 \notin Handles
      BY <1>3, RuleConstants DEF Handles
    <3>. QED BY <3>1
  <2>. QED BY <2>1, <1>2, <1>4 DEF Ruled
<1>7. Loops'
  <2>1. CASE port_i = Ports
    <3>1. \A p \in 1 .. Ports : Ruled(p)'
      BY <2>1, <1>2, <1>6 DEF Loops
    <3>. QED BY <3>1, <2>1, <1>1 DEF Loops
  <2>2. CASE port_i # Ports
    <3>1. \A p \in 1 .. Ports : Ruled(p)' <=> loop_time = 1 \/ p < port_i + 1
      BY <2>2, <1>2, <1>6, RuleConstants DEF Loops
    <3>. QED BY <3>1, <2>2, <1>1 DEF Loops
  <2>. QED BY <2>1, <2>2
<1>8. \A p \in 1 .. Ports : IF p = port_i THEN Live(p)' = 1 .. Queues /\ Live(p) = {}
                                            ELSE Live(p)' = Live(p)
  BY <1>1, <1>6 DEF Live
<1>9. Kept'
  <2>. SUFFICES ASSUME NEW p \in 1 .. Ports, NEW k \in Live(p)'
                PROVE  /\ hdls_save'[p][k] \in DOMAIN table
                       /\ table[hdls_save'[p][k]].port = p
                       /\ table[hdls_save'[p][k]].qid = Queues - k
    BY <1>1 DEF Kept
  <2>1. CASE p = port_i
    <3>1. k \in 1 .. Queues /\ hdls_save'[p] = new_hdls
      BY <2>1, <1>4, <1>8
    <3>2. /\ new_hdls[k] \in DOMAIN table
          /\ table[new_hdls[k]].port = port_i /\ table[new_hdls[k]].qid = Queues - k
      BY <3>1, <1>2, <1>3, BatchOf
    <3>. QED BY <3>1, <3>2, <2>1
  <2>2. CASE p # port_i
    BY <2>2, <1>2, <1>4, <1>8 DEF Kept
  <2>. QED BY <2>1, <2>2
<1>10. Whole'
  <2>. SUFFICES ASSUME NEW p \in 1 .. Ports, Live(p)' = 1 .. Queues PROVE Chain(p)'
    BY DEF Whole
  <2>1. CASE p = port_i
    <3>1. \A k \in 1 .. Queues : /\ table'[hdls_save'[p][k]].start = Start(k - 1)
                                 /\ table'[hdls_save'[p][k]].end = thresholds[k]
      <4>1. hdls_save'[p] = new_hdls /\ table' = table
        BY <2>1, <1>1, <1>4
      <4>. QED BY <4>1, <1>2, <1>3, BatchOf
    <3>2. table'[hdls_save'[p][1]].start = 0 /\ table'[hdls_save'[p][Queues]].end = Top
      BY <3>1, <1>3, RuleConstants DEF Start
    <3>3. ASSUME NEW k \in 2 .. Queues
          PROVE  table'[hdls_save'[p][k]].start = table'[hdls_save'[p][k - 1]].end + 1
      <4>1. k \in 1 .. Queues /\ k - 1 \in 1 .. Queues /\ k - 1 > 0
        BY RuleConstants
      <4>. QED BY <4>1, <3>1 DEF Start
    <3>4. ASSUME NEW a \in 1 .. Queues - 1, NEW b \in 1 .. Queues - 1, a < b
          PROVE  table'[hdls_save'[p][a]].end < table'[hdls_save'[p][b]].end
      <4>1. a \in 1 .. Queues /\ b \in 1 .. Queues /\ b <= Len(thresholds)
        BY <1>3, RuleConstants
      <4>2. thresholds[a] < thresholds[b]
        BY <4>1, <3>4, <1>2 DEF Ordered
      <4>. QED BY <4>1, <4>2, <3>1
    <3>. QED BY <3>2, <3>3, <3>4 DEF Chain
  <2>2. CASE p # port_i
    <3>1. Chain(p)
      BY <2>2, <1>2, <1>8 DEF Whole
    <3>. QED BY <3>1, <2>2, <1>1, <1>4 DEF Chain
  <2>. QED BY <2>1, <2>2
<1>11. Batch' /\ Ordered'
  BY <1>1 DEF Batch, Ordered
<1>12. Placed'
  <2>. SUFFICES ASSUME NEW h \in DOMAIN table
                PROVE  \E p \in 1 .. Ports : \E k \in Live(p)' : h = hdls_save'[p][k]
    BY <1>1 DEF Placed
  <2>1. CASE \E p \in 1 .. Ports : \E k \in Live(p) : h = hdls_save[p][k]
    <3>1. PICK p \in 1 .. Ports : \E k \in Live(p) : h = hdls_save[p][k]
      BY <2>1
    <3>2. p # port_i
      BY <3>1, <1>8
    <3>. QED BY <3>1, <3>2, <1>4, <1>8
  <2>2. CASE \E k \in 1 .. Len(new_hdls) : h = new_hdls[k]
    BY <2>2, <1>2, <1>3, <1>4, <1>8
  <2>. QED BY <2>1, <2>2, <1>2 DEF Placed
<1>. QED BY <1>5, <1>7, <1>9, <1>10, <1>11, <1>12, OtherSteps DEF RulesInv

\* What the data plane does leaves all of it alone.
LEMMA RulesStutter == ASSUME RulesInv, UNCHANGED rulesVars PROVE RulesInv'
<1>1. /\ phase' = phase /\ index' = index /\ table' = table /\ hdls_save' = hdls_save /\ new_hdls' = new_hdls
      /\ thresholds' = thresholds /\ avgs' = avgs /\ port_i' = port_i /\ loop_time' = loop_time
  BY DEF rulesVars, control
<1>2. \A p : Live(p)' = Live(p) /\ Chain(p)' = Chain(p)
  BY <1>1 DEF Live, Ruled, Chain
<1>3. RulesTypeOK' /\ Ordered' /\ Loops'
  BY <1>1 DEF RulesInv, RulesTypeOK, Ordered, Loops, Ruled
<1>4. Kept' /\ Placed' /\ Whole'
  BY <1>1, <1>2 DEF RulesInv, Kept, Placed, Whole
<1>5. Batch'
  BY <1>1, <1>2 DEF RulesInv, Batch, Start
<1>. QED BY <1>3, <1>4, <1>5, OtherSteps DEF RulesInv

\* The exchange keeps handles and rules together.
LEMMA RulesInvariant == RulesSpec => []RulesInv
<1>1. RulesInv /\ [RulesNext]_rulesVars => RulesInv'
  BY MeasureKeeps, RaiseKeeps, CloseKeeps, AddKeeps, AddedKeeps, DeleteKeeps, DeletedKeeps,
     SaveKeeps, RulesStutter DEF RulesNext
<1>. QED BY InitRulesInv, <1>1, PTL DEF RulesSpec

\* The handles the control plane holds are those of the rules in the table, which
\* never holds more than one exchange adds (qcluster.py:245-266).
THEOREM HandlesStayCurrent == RulesSpec => []HandlesCurrent
<1>1. RulesInv => HandlesCurrent
  <2>. SUFFICES ASSUME RulesInv PROVE HandlesCurrent
    OBVIOUS
  <2> DEFINE P == {p \in 1 .. Ports : Ruled(p)}
             H == UNION {{hdls_save[p][k] : k \in 1 .. Queues} : p \in P}
  <2>1. Cardinality(DOMAIN table) <= MaxRules
    BY TableFits
  <2>2. SUFFICES ASSUME phase = "measure" PROVE DOMAIN table = H
    BY <2>1 DEF HandlesCurrent
  <2>3. \A p \in P : Live(p) = 1 .. Queues
    BY <2>2 DEF Live
  <2>4. ASSUME NEW h \in DOMAIN table PROVE h \in H
    <3>1. PICK p \in 1 .. Ports : \E k \in Live(p) : h = hdls_save[p][k]
      BY <2>2 DEF RulesInv, Placed, Batch
    <3>2. p \in P
      BY <3>1 DEF Live
    <3>3. h \in {hdls_save[p][k] : k \in 1 .. Queues}
      BY <3>1, <3>2, <2>3
    <3>. QED BY <3>2, <3>3
  <2>5. ASSUME NEW h \in H PROVE h \in DOMAIN table
    <3>1. PICK p \in P, k \in 1 .. Queues : h = hdls_save[p][k]
      OBVIOUS
    <3>. QED BY <3>1, <2>3 DEF RulesInv, Kept
  <2>. QED BY <2>4, <2>5
<1>. QED BY RulesInvariant, <1>1, PTL

\* Of ranges that follow each other up to Top one holds the weight.
LEMMA RangeOf ==
    ASSUME NEW g \in [1 .. Queues -> Nat], g[Queues] = Top, NEW w \in 0 .. Top
    PROVE  \E k \in 1 .. Queues : w <= g[k] /\ (k > 1 => g[k - 1] < w)
<1> DEFINE S == {k \in 1 .. Queues : w <= g[k]}
<1>1. S \in SUBSET Nat /\ S # {}
  BY RuleConstants
<1>2. PICK k \in S : \A j \in S : k <= j
  BY <1>1, LeastNat
<1>3. k > 1 => g[k - 1] < w
  <2>. SUFFICES ASSUME k > 1 PROVE g[k - 1] < w
    OBVIOUS
  <2>1. k - 1 \in 1 .. Queues /\ k - 1 \notin S
    BY <1>2, RuleConstants
  <2>. QED BY <2>1, RuleConstants
<1>. QED BY <1>3

\* The rules of a port at rest are the kept ones.
LEMMA AtRestRules ==
    ASSUME RulesInv, NEW p \in 1 .. Ports, AtRest(p)
    PROVE  \A h \in RulesOf(p) : /\ Live(p) = 1 .. Queues
                                 /\ \E k \in 1 .. Queues : h = hdls_save[p][k]
<1>. SUFFICES ASSUME NEW h \in DOMAIN table, table[h].port = p
              PROVE  Live(p) = 1 .. Queues /\ \E k \in 1 .. Queues : h = hdls_save[p][k]
  BY DEF RulesOf
<1>1. RulesTypeOK /\ Kept /\ Batch /\ Placed /\ Loops
  BY DEF RulesInv
<1>2. ~\E k \in 1 .. Len(new_hdls) : h = new_hdls[k]
  <2>. SUFFICES ASSUME NEW k \in 1 .. Len(new_hdls), h = new_hdls[k] PROVE FALSE
    OBVIOUS
  <2>1. port_i = p /\ phase \in {"add", "delete", "save"}
    BY <1>1, BatchOf
  <2>. QED BY <2>1 DEF AtRest
<1>3. PICK q \in 1 .. Ports : \E k \in Live(q) : h = hdls_save[q][k]
  BY <1>1, <1>2 DEF Placed
<1>4. PICK k \in Live(q) : h = hdls_save[q][k]
  BY <1>3
<1>5. q = p
  BY <1>1, <1>4 DEF Kept
<1>6. Live(p) = 1 .. Queues
  BY <1>4, <1>5 DEF Live, AtRest
<1>. QED BY <1>4, <1>5, <1>6

\* From the first exchange on every weight finds a rule at every moment, and at
\* rest a lighter packet never goes below a heavier one (qcluster.py:235-269).
THEOREM RulesCoverEveryWeight == RulesSpec => []Covered
<1>1. RulesInv => Covered
  <2>. SUFFICES ASSUME RulesInv, NEW p \in 1 .. Ports
                PROVE  /\ Ruled(p) => \A w \in 0 .. Top : Matches(p, w) # {}
                       /\ AtRest(p) =>
                            \A w1 \in 0 .. Top : \A q1 \in Matches(p, w1), w2 \in 0 .. Top :
                                w1 <= w2 => \A q2 \in Matches(p, w2) : q1 >= q2
    BY DEF Covered
  <2>1. RulesTypeOK /\ Kept /\ Batch /\ Placed /\ Loops /\ Whole
        /\ \A h \in DOMAIN table : table[h].start \in Nat /\ table[h].end \in Nat
    BY DEF RulesInv, RulesTypeOK, Rule
  <2>2. ASSUME Ruled(p), NEW w \in 0 .. Top PROVE Matches(p, w) # {}
    <3>1. SUFFICES \E h \in DOMAIN table : /\ table[h].port = p
                                           /\ table[h].start <= w /\ w <= table[h].end
      BY DEF Matches, RulesOf
    <3>2. CASE p = port_i /\ phase \in {"delete", "save"}
      <4> DEFINE g == [k \in 1 .. Queues |-> thresholds[k]]
      <4>1. /\ Len(new_hdls) = Queues /\ Len(thresholds) = Queues /\ thresholds[Queues] = Top
            /\ \A k \in 1 .. Queues : /\ new_hdls[k] \in DOMAIN table
                                      /\ table[new_hdls[k]].port = p
                                      /\ table[new_hdls[k]].start = Start(k - 1)
                                      /\ table[new_hdls[k]].end = thresholds[k]
        <5>1. Len(new_hdls) = Queues /\ Len(thresholds) = Queues /\ thresholds[Queues] = Top
          BY <3>2, <2>1 DEF Batch
        <5>. QED BY <5>1, <3>2, <2>1, BatchOf
      <4>2. g \in [1 .. Queues -> Nat] /\ g[Queues] = Top
        BY <4>1, <2>1, ElementOfSeq, RuleConstants DEF RulesTypeOK
      <4>3. PICK k \in 1 .. Queues : w <= g[k] /\ (k > 1 => g[k - 1] < w)
        BY <4>2, RangeOf
      <4>4. Start(k - 1) <= w
        <5>1. CASE k = 1
          BY <5>1 DEF Start
        <5>2. CASE k > 1
          <6>1. k - 1 \in 1 .. Queues /\ g[k - 1] \in Nat
            BY <5>2, <4>2, RuleConstants
          <6>. QED BY <6>1, <5>2, <4>3 DEF Start
        <5>. QED BY <5>1, <5>2
      <4>. QED BY <4>1, <4>3, <4>4
    <3>3. CASE ~(p = port_i /\ phase \in {"delete", "save"})
      <4> DEFINE g == [k \in 1 .. Queues |-> table[hdls_save[p][k]].end]
      <4>1. Live(p) = 1 .. Queues
        BY <3>3, <2>2 DEF Live
      <4>2. /\ Chain(p)
            /\ \A k \in 1 .. Queues : /\ hdls_save[p][k] \in DOMAIN table
                                      /\ table[hdls_save[p][k]].port = p
        BY <4>1, <2>1 DEF Kept, Whole
      <4>3. g \in [1 .. Queues -> Nat] /\ g[Queues] = Top
        BY <4>2, <2>1, RuleConstants DEF Chain
      <4>4. PICK k \in 1 .. Queues : w <= g[k] /\ (k > 1 => g[k - 1] < w)
        BY <4>3, RangeOf
      <4>5. table[hdls_save[p][k]].start <= w
        <5>1. CASE k = 1
          BY <5>1, <4>2 DEF Chain
        <5>2. CASE k > 1
          <6>1. k - 1 \in 1 .. Queues /\ g[k - 1] \in Nat /\ k \in 2 .. Queues
            BY <5>2, <4>3, RuleConstants
          <6>. QED BY <6>1, <5>2, <4>2, <4>4 DEF Chain
        <5>. QED BY <5>1, <5>2
      <4>. QED BY <4>2, <4>4, <4>5
    <3>. QED BY <3>2, <3>3
  <2>3. ASSUME AtRest(p), NEW w1 \in 0 .. Top, NEW w2 \in 0 .. Top, w1 <= w2,
               NEW q1 \in Matches(p, w1), NEW q2 \in Matches(p, w2)
        PROVE  q1 >= q2
    <3>1. PICK h1 \in RulesOf(p) : table[h1].start <= w1 /\ w1 <= table[h1].end
                                   /\ q1 = table[h1].qid
      BY DEF Matches
    <3>2. PICK h2 \in RulesOf(p) : table[h2].start <= w2 /\ w2 <= table[h2].end
                                   /\ q2 = table[h2].qid
      BY DEF Matches
    <3>3. /\ Live(p) = 1 .. Queues
          /\ \E k \in 1 .. Queues : h1 = hdls_save[p][k]
          /\ \E k \in 1 .. Queues : h2 = hdls_save[p][k]
      BY <2>3, <3>1, <3>2, AtRestRules
    <3>4. PICK a \in 1 .. Queues : h1 = hdls_save[p][a]
      BY <3>3
    <3>5. PICK b \in 1 .. Queues : h2 = hdls_save[p][b]
      BY <3>3
    <3>6. q1 = Queues - a /\ q2 = Queues - b /\ Chain(p)
          /\ \A k \in 1 .. Queues : hdls_save[p][k] \in DOMAIN table
      BY <3>1, <3>2, <3>3, <3>4, <3>5, <2>1 DEF Kept, Whole
    <3>7. ~(b < a)
      <4>. SUFFICES ASSUME b < a PROVE FALSE
        OBVIOUS
      <4>1. /\ a \in 2 .. Queues /\ a - 1 \in 1 .. Queues - 1 /\ b \in 1 .. Queues - 1
            /\ a - 1 \in 1 .. Queues /\ b \in 1 .. Queues
        BY RuleConstants
      <4>2. table[h1].start = table[hdls_save[p][a - 1]].end + 1
        BY <4>1, <3>4, <3>6 DEF Chain
      <4>3. table[h2].end <= table[hdls_save[p][a - 1]].end
        <5>1. CASE b = a - 1
          <6>1. table[h2].end \in Nat
            BY <3>2, <2>1 DEF RulesOf
          <6>. QED BY <6>1, <5>1, <3>5
        <5>2. CASE b < a - 1
          <6>1. table[hdls_save[p][b]].end < table[hdls_save[p][a - 1]].end
            BY <5>2, <4>1, <3>6 DEF Chain
          <6>2. table[hdls_save[p][b]].end \in Nat /\ table[hdls_save[p][a - 1]].end \in Nat
            BY <4>1, <3>6, <2>1
          <6>. QED BY <6>1, <6>2, <3>5
        <5>. QED BY <5>1, <5>2, <4>1
      <4>4. table[hdls_save[p][a - 1]].end \in Nat /\ table[h2].end \in Nat
            /\ table[h1].start \in Nat
        BY <4>1, <3>1, <3>2, <3>6, <2>1 DEF RulesOf
      <4>. QED BY <4>2, <4>3, <4>4, <3>1, <3>2, <2>3
    <3>. QED BY <3>6, <3>7, RuleConstants
  <2>. QED BY <2>2, <2>3
<1>. QED BY RulesInvariant, <1>1, PTL

\* The state of the control plane and the table keep their shape; the driver
\* never runs out of handles.
THEOREM RulesTypeCorrect == RulesSpec => []RulesTypeOK
<1>1. RulesInv => RulesTypeOK
  BY DEF RulesInv
<1>. QED BY RulesInvariant, <1>1, PTL
==============================================================================
