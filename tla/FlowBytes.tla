------------------------------ MODULE FlowBytes ------------------------------
(***************************************************************************)
(* The byte count of ONE outgoing TCP flow: what qcluster_process_packet   *)
(* (endhost/main.c) and jtcp_sendmsg (endhost/jprobe.c) do to the          *)
(* PIAS_Flow_Info of the flow as its packets leave the host.  bytes_sent   *)
(* is the weight by which the flow is clustered, so it has to count each   *)
(* byte of the current message once, whatever TCP retransmits.             *)
(*                                                                         *)
(* The Linux TCP sender is the environment: stream offsets una <= nxt <=   *)
(* wr (acknowledged, sent, written), cut in segments it may retransmit in  *)
(* other pieces but never beyond nxt.  Packets of one socket reach the     *)
(* hook one at a time (socket lock), so a packet is one step here; the     *)
(* interleaving of hooks is the subject of FlowTable and QueueInfo.        *)
(***************************************************************************)
EXTENDS SeqNumber

CONSTANTS
    InitialSeqs,   \* initial sequence numbers TCP may choose
    Window,        \* bytes TCP keeps in flight
    MaxSegment,    \* largest payload of one packet seen by the hook
    MaxStream,     \* bound: bytes written to one connection
    NoInfo         \* the flow has no entry in the table

\* struct PIAS_Flow_Info, as far as the byte count needs it: copied stands for
\* last_copy_time # 0.
FlowInfo == [last_seq : U32, bytes_sent : Nat, copied : BOOLEAN]

ASSUME FlowAssumption ==
    /\ InitialSeqs \subseteq U32
    /\ Window \in Nat /\ MaxSegment \in Nat /\ MaxStream \in Nat
    /\ MaxSegment <= Window
    /\ NoInfo \notin FlowInfo

VARIABLES
    info,        \* PIAS_Flow.info, or NoInfo
    conn,        \* "closed", "open", or "closing" once a FIN has left
    isn,         \* initial sequence number of the connection
    una, nxt, wr,
    msgStart     \* history: stream offset at which the current message began

bytesVars == <<info, conn, isn, una, nxt, wr, msgStart>>
tcp  == <<conn, isn, una, nxt, wr>>

\* PIAS_Init_Info
InitInfo == [last_seq |-> 0, bytes_sent |-> 0, copied |-> FALSE]

\* sequence number of the byte at a stream offset (the SYN takes one)
SeqAt(offset) == (isn + 1 + offset) % SeqSpace

BytesInit ==
    /\ info = NoInfo
    /\ conn = "closed"
    /\ isn \in InitialSeqs
    /\ una = 0 /\ nxt = 0 /\ wr = 0
    /\ msgStart = 0

\* Mutant of Account: every packet counts, retransmissions too.
AccountAll(i, seq, payload_len) ==
    [i EXCEPT !.last_seq = LastByteSeq(seq, payload_len),
              !.bytes_sent = @ + payload_len]

(* What the hook does to an existing entry for a packet that is neither    *)
(* SYN, FIN nor RST: a packet whose last byte is not beyond last_seq is a  *)
(* retransmission and is not counted.                                      *)
Account(i, seq, payload_len) ==
    LET s == LastByteSeq(seq, payload_len)
    IN  IF SeqLarger(s, i.last_seq)
        THEN [i EXCEPT !.last_seq = s, !.bytes_sent = @ + payload_len]
        ELSE i

HookData(seq, payload_len) ==
    info' = IF info = NoInfo THEN NoInfo ELSE Account(info, seq, payload_len)

------------------------------------------------------------------------------

\* A SYN leaves: PIAS_Insert_Table makes or clears the entry; kmalloc may fail
\* (the entry, if there was none, is then missing for the whole connection).
SendSyn(i) ==
    /\ conn # "open" \/ (wr = 0 /\ i = isn)
    /\ info' = InitInfo \/ (info = NoInfo /\ info' = NoInfo)
    /\ conn' = "open"
    /\ isn' = i
    /\ una' = 0 /\ nxt' = 0 /\ wr' = 0
    /\ msgStart' = 0

\* tcp_sendmsg: the probe runs first.  An application that was idle for more
\* than PIAS_IDLE_TIME while TCP had nothing left to send starts a message.
SendMsg(n, idle) ==
    LET fresh == info # NoInfo /\ info.copied /\ nxt = wr /\ idle
    IN  /\ conn = "open"
        /\ wr + n <= MaxStream
        /\ info' = IF info = NoInfo THEN NoInfo
                   ELSE [info EXCEPT !.copied = TRUE,
                                     !.bytes_sent = IF fresh THEN 0 ELSE @]
        /\ msgStart' = IF fresh THEN wr ELSE msgStart
        /\ wr' = wr + n
        /\ UNCHANGED <<conn, isn, una, nxt>>

\* the next n bytes of the stream leave for the first time
Transmit(n) ==
    /\ conn = "open"
    /\ nxt + n <= wr
    /\ nxt + n - una <= Window
    /\ HookData(SeqAt(nxt), n)
    /\ nxt' = nxt + n
    /\ UNCHANGED <<conn, isn, una, wr, msgStart>>

\* n bytes from offset a leave again
Retransmit(a, n) ==
    /\ conn # "closed"
    /\ una <= a /\ a + n <= nxt
    /\ HookData(SeqAt(a), n)
    /\ UNCHANGED <<tcp, msgStart>>

\* an acknowledgement without payload leaves
SendAck ==
    /\ conn # "closed"
    /\ HookData(SeqAt(nxt), 0)
    /\ UNCHANGED <<tcp, msgStart>>

\* the peer acknowledges; incoming packets do not pass the hook
RecvAck(a) ==
    /\ conn # "closed"
    /\ una < a /\ a <= nxt
    /\ una' = a
    /\ UNCHANGED <<info, conn, isn, nxt, wr, msgStart>>

\* FIN (everything written has been sent) or RST: PIAS_Delete_Table
SendFin ==
    /\ conn # "closed"
    /\ nxt = wr
    /\ info' = NoInfo
    /\ conn' = "closing"
    /\ UNCHANGED <<isn, una, nxt, wr, msgStart>>

SendRst ==
    /\ conn # "closed"
    /\ info' = NoInfo
    /\ conn' = "closed"
    /\ UNCHANGED <<isn, una, nxt, wr, msgStart>>

BytesNext ==
    \/ \E i \in InitialSeqs : SendSyn(i)
    \/ \E n \in 1 .. MaxStream, idle \in BOOLEAN : SendMsg(n, idle)
    \/ \E n \in 1 .. MaxSegment : Transmit(n)
    \/ \E a \in una .. nxt, n \in 1 .. MaxSegment : Retransmit(a, n)
    \/ SendAck
    \/ \E a \in una .. nxt : RecvAck(a)
    \/ SendFin
    \/ SendRst

BytesSpec == BytesInit /\ [][BytesNext]_bytesVars

------------------------------------------------------------------------------

\* The shape of the state: the flow's record and the sender's window.
BytesTypeOK ==
    /\ info \in FlowInfo \cup {NoInfo}
    /\ conn \in {"closed", "open", "closing"}
    /\ isn \in U32
    /\ una \in Nat /\ nxt \in Nat /\ wr \in Nat /\ msgStart \in Nat
    /\ una <= nxt /\ nxt <= wr /\ nxt - una <= Window

\* The connection starts far enough below the wrap for its first packet to be
\* told apart from the last_seq = 0 of a fresh entry.
IsnBelowGap == isn + MaxSegment <= WrapGap

\* No byte is counted twice and none of an earlier message is counted: the
\* weight of the flow never exceeds what its current message has sent, through
\* retransmissions in any pieces, sequence-number wrap and message resets
\* (main.c:170-175, jprobe.c:45-57).
MessageBytes ==
    (info # NoInfo /\ IsnBelowGap) => info.bytes_sent <= nxt - msgStart

\* flow.h:16, "last_seq: the latest (largest) sequence number for outoging
\* traffic": once anything has left, last_seq is the last byte sent or, after a
\* bare acknowledgement, the byte after it; no retransmission takes it back and
\* no packet that wraps around is left out.
LastSeqIsLargest ==
    (info # NoInfo /\ IsnBelowGap) =>
        \/ info.last_seq \in {SeqAt(nxt - 1), SeqAt(nxt)}
        \/ info.last_seq = 0 /\ nxt = 0

==============================================================================
