----------------------------- MODULE MCFullTcp -----------------------------
(***************************************************************************)
(* FullTcp with two messages of one sender.  A segment of 11 bytes is more *)
(* than the 10 that Sack adds to the bytes that remain.                    *)
(***************************************************************************)
EXTENDS FullTcp

Send(len, flag) == [len |-> len, flag |-> flag]

\* After a message of one byte either one of two full segments and a short one,
\* the least with a hole between two reported blocks, or two segments and a FIN.
\* After one of two segments, which may be reported late, a segment with a FIN.
TwoMessages == {<<Send(1, "DAT_EOF"), Send(23, "DAT_EOF")>>,
                <<Send(1, "DAT_EOF"), Send(12, "MSG_EOF")>>,
                <<Send(22, "DAT_EOF"), Send(11, "MSG_EOF")>>}

\* A message that is longer than the window.
LongMessage == {<<Send(1, "DAT_EOF"), Send(35, "DAT_EOF")>>}
=============================================================================
