------------------------------ MODULE SeqNumber ------------------------------
(***************************************************************************)
(* 32-bit TCP sequence numbers as the end-host module compares them        *)
(* (endhost/main.c, pias_is_seq_larger).  The code does not use the signed *)
(* difference; it compares the numbers as unsigned integers and treats a   *)
(* distance above a constant as a wrap-around.                             *)
(***************************************************************************)
EXTENDS Integers

CONSTANTS
    SeqSpace,   \* number of sequence numbers: 2^32
    WrapGap     \* distance from which a wrap is assumed: 4294900000

ASSUME SeqAssumption ==
    /\ SeqSpace \in Nat
    /\ WrapGap \in Nat
    /\ WrapGap < SeqSpace
    /\ SeqSpace - WrapGap <= WrapGap

U32 == 0 .. SeqSpace - 1

\* u32 addition
SeqAdd(s, n) == (s + n) % SeqSpace

\* Mutant of SeqLarger: no wrap-around.
SeqLargerPlain(seq1, seq2) == seq1 > seq2

\* "Determine whether seq1 is larger than seq2"
SeqLarger(seq1, seq2) ==
    \/ seq1 > seq2 /\ seq1 - seq2 <= WrapGap
    \/ seq1 < seq2 /\ seq2 - seq1 > WrapGap

\* The sequence number a packet is remembered by: that of its last byte, or
\* of the next byte to be sent when it carries none.
LastByteSeq(seq, payload_len) ==
    IF payload_len >= 1 THEN SeqAdd(seq, payload_len - 1) ELSE seq

==============================================================================
