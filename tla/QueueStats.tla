----------------------------- MODULE QueueStats -----------------------------
(***************************************************************************)
(* What the queue table of the end-host module promises                    *)
(* (qcluster_queue_info, endhost/main.c): each full-size packet adds its   *)
(* flow's weight to one queue in one atomic step, and a queue that has     *)
(* counted more than MaxAging packets forgets half of them.                *)
(***************************************************************************)
EXTENDS Integers

CONSTANTS
    NumQueues,   \* 8
    MaxAging,    \* MAX_NUM_AGING, 2560
    Weights,     \* values of bytes_sent
    Counts       \* MTU-sized packets in one skb

VARIABLES bytes_cnt, flow_cnt

stats == <<bytes_cnt, flow_cnt>>

Queues == 0 .. NumQueues - 1

Halve(x) == x \div 2

\* The two counters of a queue once w was added for n packets.
AddedFlows(f, n) == IF f + n > MaxAging THEN Halve(f + n) ELSE f + n
AddedBytes(b, f, w, n) ==
    IF f + n > MaxAging THEN Halve(b + w * n) ELSE b + w * n

Init ==
    /\ bytes_cnt = [q \in Queues |-> 0]
    /\ flow_cnt  = [q \in Queues |-> 0]

Add(q, w, n) ==
    /\ bytes_cnt' = [bytes_cnt EXCEPT ![q] = AddedBytes(@, flow_cnt[q], w, n)]
    /\ flow_cnt'  = [flow_cnt EXCEPT ![q] = AddedFlows(@, n)]

Next == \E q \in Queues, w \in Weights, n \in Counts : Add(q, w, n)

Spec == Init /\ [][Next]_stats

=============================================================================
