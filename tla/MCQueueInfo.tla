---------------------------- MODULE MCQueueInfo ----------------------------
(***************************************************************************)
(* QueueInfo on two queues that age beyond one packet, and two CPUs.       *)
(***************************************************************************)
EXTENDS QueueInfo
=============================================================================
