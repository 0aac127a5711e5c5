------------------------------ MODULE QueueInfo ------------------------------
(***************************************************************************)
(* The shared queue table of the end-host module and the handlers that     *)
(* read and update it (endhost/main.c): get_priority walks the counters of *)
(* all queues without any lock, the update of one queue runs under that    *)
(* queue's spinlock.  Several CPUs run the netfilter hook at once, each    *)
(* for a packet of its own; one CPU's statement is one step, so that a     *)
(* reader sees every intermediate state of a writer.                       *)
(*                                                                         *)
(* A packet enters with the weight of its flow (bytes_sent).  The weight   *)
(* added to the queue is read again after the flow lock was released, when *)
(* other handlers, or the sendmsg probe, may have changed it: any weight.  *)
(***************************************************************************)
EXTENDS Integers

CONSTANTS
    CPU,
    NoCpu,         \* the owner of a free lock
    NumQueues,     \* 8
    MaxAging,      \* MAX_NUM_AGING, 2560
    Weights,       \* values of bytes_sent, a u64
    ByteSpace,     \* get_priority takes it as a u32: 2^32
    ProductSpace,  \* this_avg * next_avg is a u64: 2^64
    Payloads,      \* payload_len of the packets
    SmallPacket,   \* 1400
    Mtu            \* 1500

ASSUME QueueAssumption ==
    /\ NoCpu \notin CPU
    /\ NumQueues \in Nat /\ NumQueues > 0
    /\ MaxAging \in Nat /\ MaxAging > 0
    /\ Weights \subseteq Nat
    /\ ByteSpace \in Nat /\ ByteSpace > 0
    /\ ProductSpace \in Nat /\ ProductSpace > 0
    /\ Payloads \subseteq Nat
    /\ SmallPacket \in Nat /\ SmallPacket > 0
    /\ Mtu \in Nat /\ Mtu > 0

VARIABLES
    bytes_cnt, flow_cnt, lock,   \* qcluster_queue_info
    pc,        \* where the handler on a CPU is
    prio,      \* priority; inside get_priority, the queue under inspection
    arg,       \* bytes_sent as get_priority sees it
    this_avg,  \* average of the queue before
    cnt, sum,  \* flow_cnt and bytes_cnt of the inspected queue, as loaded
    div_pkt,   \* packets to account for; 0 for a small packet
    stale      \* history: some counter changed since get_priority began

table == <<bytes_cnt, flow_cnt, lock>>
local == <<prio, arg, this_avg, cnt, sum, div_pkt>>
vars  == <<table, pc, local, stale>>

Queues == 0 .. NumQueues - 1

\* packets of at most Mtu bytes in one skb, which TSO may have made larger
DivPkt(payload_len) ==
    (IF payload_len > 0 THEN 1 ELSE 0)
    + (IF payload_len > Mtu THEN (payload_len - 1) \div Mtu ELSE 0)

Halve(x) == x \div 2

LastQueue == NumQueues - 1

\* bytes_sent <= qcluster_int_sqrt64(this_avg * next_avg)
Fits(bytes_sent, avg1, avg2) ==
    bytes_sent * bytes_sent <= (avg1 * avg2) % ProductSpace

Init ==
    /\ bytes_cnt = [q \in Queues |-> 0]
    /\ flow_cnt  = [q \in Queues |-> 0]
    /\ lock      = [q \in Queues |-> NoCpu]
    /\ pc        = [c \in CPU |-> "idle"]
    /\ prio      = [c \in CPU |-> 0]
    /\ arg       = [c \in CPU |-> 0]
    /\ this_avg  = [c \in CPU |-> 0]
    /\ cnt       = [c \in CPU |-> 0]
    /\ sum       = [c \in CPU |-> 0]
    /\ div_pkt   = [c \in CPU |-> 0]
    /\ stale     = [c \in CPU |-> FALSE]

Goto(c, label) == pc' = [pc EXCEPT ![c] = label]

\* The locals of get_priority end with it.
Forget(c) ==
    /\ cnt' = [cnt EXCEPT ![c] = 0]
    /\ sum' = [sum EXCEPT ![c] = 0]

\* a counter of the table changes under every handler that is in get_priority
Reading == {"count", "bytes", "divide", "classified"}
Disturb == stale' = [d \in CPU |-> pc[d] \in Reading]

------------------------------------------------------------------------------
(* get_priority                                                            *)

Start(c, bytes_sent, payload_len) ==
    /\ pc[c] = "idle"
    /\ Goto(c, "count")
    /\ prio'     = [prio EXCEPT ![c] = 0]
    /\ arg'      = [arg EXCEPT ![c] = bytes_sent % ByteSpace]
    /\ this_avg' = [this_avg EXCEPT ![c] = 0]
    /\ div_pkt'  = [div_pkt EXCEPT ![c] =
                      IF payload_len < SmallPacket THEN 0 ELSE DivPkt(payload_len)]
    /\ stale'    = [stale EXCEPT ![c] = FALSE]
    /\ UNCHANGED <<table, cnt, sum>>

\* Mutant of CheckCount: the packet goes to the queue before the empty one.
CheckCountBefore(c) ==
    /\ pc[c] = "count"
    /\ cnt' = [cnt EXCEPT ![c] = flow_cnt[prio[c]]]
    /\ IF flow_cnt[prio[c]] = 0
       THEN /\ Goto(c, "classified")
            /\ this_avg' = [this_avg EXCEPT ![c] = 0]
            /\ prio' = [prio EXCEPT ![c] = IF @ > 0 THEN @ - 1 ELSE 0]
       ELSE Goto(c, "bytes") /\ UNCHANGED <<this_avg, prio>>
    /\ UNCHANGED <<table, arg, sum, div_pkt, stale>>

\* Mutant of CheckCount: the count is not tested for zero.
CheckCountNot(c) ==
    /\ pc[c] = "count"
    /\ cnt' = [cnt EXCEPT ![c] = flow_cnt[prio[c]]]
    /\ Goto(c, "bytes")
    /\ UNCHANGED <<table, prio, arg, this_avg, sum, div_pkt, stale>>

\* an empty queue takes the packet
CheckCount(c) ==
    /\ pc[c] = "count"
    /\ cnt' = [cnt EXCEPT ![c] = flow_cnt[prio[c]]]
    /\ IF flow_cnt[prio[c]] = 0
       THEN Goto(c, "classified") /\ this_avg' = [this_avg EXCEPT ![c] = 0]
       ELSE Goto(c, "bytes") /\ UNCHANGED this_avg
    /\ UNCHANGED <<table, prio, arg, sum, div_pkt, stale>>

LoadBytes(c) ==
    /\ pc[c] = "bytes"
    /\ sum' = [sum EXCEPT ![c] = bytes_cnt[prio[c]]]
    /\ Goto(c, "divide")
    /\ UNCHANGED <<table, prio, arg, this_avg, cnt, div_pkt, stale>>

Return(c, q) ==
    /\ Goto(c, "classified")
    /\ prio' = [prio EXCEPT ![c] = q]
    /\ this_avg' = [this_avg EXCEPT ![c] = 0]

\* The divisor is flow_cnt again: the build may load it a second time.
Divide(c, divisor) ==
    LET k        == prio[c]
        next_avg == sum[c] \div divisor
        rises    == next_avg > this_avg[c]
        below    == k > 0 /\ Fits(arg[c], this_avg[c], next_avg)
    IN  /\ pc[c] = "divide"
        /\ \/ ~rises /\ Return(c, k)
           \/ rises /\ below /\ Return(c, k - 1)
           \/ rises /\ ~below /\ k = LastQueue /\ Return(c, k)
           \/ /\ rises /\ ~below /\ k # LastQueue
              /\ Goto(c, "count")
              /\ prio' = [prio EXCEPT ![c] = k + 1]
              /\ this_avg' = [this_avg EXCEPT ![c] = next_avg]
        /\ Forget(c)
        /\ UNCHANGED <<table, arg, div_pkt, stale>>

------------------------------------------------------------------------------
(* the update of the queue                                                 *)

\* A small packet gets the best priority and is not counted.
SkipSmall(c) ==
    /\ pc[c] = "classified"
    /\ div_pkt[c] = 0
    /\ Goto(c, "idle")
    /\ prio' = [prio EXCEPT ![c] = 0]
    /\ arg' = [arg EXCEPT ![c] = 0]
    /\ stale' = [stale EXCEPT ![c] = FALSE]
    /\ UNCHANGED <<table, this_avg, cnt, sum, div_pkt>>

Lock(c) ==
    /\ pc[c] = "classified"
    /\ div_pkt[c] > 0
    /\ lock[prio[c]] = NoCpu
    /\ lock' = [lock EXCEPT ![prio[c]] = c]
    /\ Goto(c, "addflows")
    /\ arg' = [arg EXCEPT ![c] = 0]
    /\ stale' = [stale EXCEPT ![c] = FALSE]
    /\ UNCHANGED <<bytes_cnt, flow_cnt, prio, this_avg, cnt, sum, div_pkt>>

AddFlows(c) ==
    /\ pc[c] = "addflows"
    /\ flow_cnt' = [flow_cnt EXCEPT ![prio[c]] = @ + div_pkt[c]]
    /\ Goto(c, "addbytes")
    /\ Disturb
    /\ UNCHANGED <<bytes_cnt, lock, local>>

\* Mutant of AddBytes: a large skb adds its flow's weight once.
AddBytesOnce(c, bytes_sent) ==
    /\ pc[c] = "addbytes"
    /\ bytes_cnt' = [bytes_cnt EXCEPT ![prio[c]] = @ + bytes_sent]
    /\ Goto(c, IF flow_cnt[prio[c]] > MaxAging THEN "agebytes" ELSE "unlock")
    /\ Disturb
    /\ UNCHANGED <<flow_cnt, lock, local>>

AddBytes(c, bytes_sent) ==
    /\ pc[c] = "addbytes"
    /\ bytes_cnt' = [bytes_cnt EXCEPT ![prio[c]] = @ + bytes_sent * div_pkt[c]]
    /\ Goto(c, IF flow_cnt[prio[c]] > MaxAging THEN "agebytes" ELSE "unlock")
    /\ Disturb
    /\ UNCHANGED <<flow_cnt, lock, local>>

\* Mutant of AgeBytes: only flow_cnt ages.
AgeBytesNot(c) ==
    /\ pc[c] = "agebytes"
    /\ Goto(c, "ageflows")
    /\ UNCHANGED <<table, local, stale>>

AgeBytes(c) ==
    /\ pc[c] = "agebytes"
    /\ bytes_cnt' = [bytes_cnt EXCEPT ![prio[c]] = Halve(@)]
    /\ Goto(c, "ageflows")
    /\ Disturb
    /\ UNCHANGED <<flow_cnt, lock, local>>

AgeFlows(c) ==
    /\ pc[c] = "ageflows"
    /\ flow_cnt' = [flow_cnt EXCEPT ![prio[c]] = Halve(@)]
    /\ Goto(c, "unlock")
    /\ Disturb
    /\ UNCHANGED <<bytes_cnt, lock, local>>

\* Mutant of Unlock: the lock is kept.
UnlockNot(c) ==
    /\ pc[c] = "unlock"
    /\ Goto(c, "idle")
    /\ prio' = [prio EXCEPT ![c] = 0]
    /\ div_pkt' = [div_pkt EXCEPT ![c] = 0]
    /\ UNCHANGED <<table, arg, this_avg, cnt, sum, stale>>

Unlock(c) ==
    /\ pc[c] = "unlock"
    /\ lock' = [lock EXCEPT ![prio[c]] = NoCpu]
    /\ Goto(c, "idle")
    /\ prio' = [prio EXCEPT ![c] = 0]
    /\ div_pkt' = [div_pkt EXCEPT ![c] = 0]
    /\ UNCHANGED <<bytes_cnt, flow_cnt, arg, this_avg, cnt, sum, stale>>

------------------------------------------------------------------------------

Step(c) ==
    \/ CheckCount(c) \/ LoadBytes(c)
    \/ (\E d \in {cnt[c], flow_cnt[prio[c]]} : Divide(c, d))
    \/ SkipSmall(c) \/ Lock(c)
    \/ AddFlows(c) \/ (\E w \in Weights : AddBytes(c, w))
    \/ AgeBytes(c) \/ AgeFlows(c) \/ Unlock(c)

Arrive(c) == \E w \in Weights, p \in Payloads : Start(c, w, p)

Next == \E c \in CPU : Arrive(c) \/ Step(c)

Spec == Init /\ [][Next]_vars

\* A handler runs with preemption disabled, and spinlocks serve their waiters
\* in turn.  Packets need not arrive.
Fairness == \A c \in CPU : WF_vars(Step(c)) /\ SF_vars(Lock(c))

LiveSpec == Spec /\ Fairness
------------------------------------------------------------------------------
(* properties                                                              *)

Updating == {"addflows", "addbytes", "agebytes", "ageflows", "unlock"}
Labels == Reading \cup Updating \cup {"idle"}

\* The shape of the state.
TypeOK ==
    /\ bytes_cnt \in [Queues -> Nat] /\ flow_cnt \in [Queues -> Nat]
    /\ lock \in [Queues -> CPU \cup {NoCpu}]
    /\ pc \in [CPU -> Labels]
    /\ prio \in [CPU -> Queues]
    /\ arg \in [CPU -> 0 .. ByteSpace - 1]
    /\ this_avg \in [CPU -> Nat] /\ cnt \in [CPU -> Nat] /\ sum \in [CPU -> Nat]
    /\ div_pkt \in [CPU -> Nat]
    /\ stale \in [CPU -> BOOLEAN]

\* A queue is updated by the holder of its lock and by nobody else.
LockHeld ==
    \A c \in CPU, q \in Queues :
        lock[q] = c <=> (pc[c] \in Updating /\ prio[c] = q)

\* get_priority tests flow_cnt for zero and divides by it later, without the
\* lock: no other handler empties the queue in between (main.c:54-60).
NoZeroDivision ==
    \A c \in CPU : pc[c] \in {"bytes", "divide"} =>
        cnt[c] > 0 /\ flow_cnt[prio[c]] > 0

\* A queue that has counted a packet never looks empty again: ageing leaves at
\* least half of it at every intermediate statement (main.c:197-200).
NeverEmptiesAgain ==
    [][\A q \in Queues : flow_cnt[q] > 0 => flow_cnt'[q] > 0]_vars

IsMaxWeight(m) == m \in Nat /\ \A w \in Weights : w <= m

\* The average of a queue never drifts above the heaviest flow by more than the
\* remainder that ageing drops, however many times it has aged and whatever a
\* reader catches halfway (main.c:194-200).
AverageBounded ==
    \A m \in Weights : IsMaxWeight(m) =>
        \A q \in Queues : bytes_cnt[q] <= m * (flow_cnt[q] + 1)

(* The class of a weight in a table at rest: the first queue that is empty,  *)
(* or does not continue the increase of the averages, ends the classes; a    *)
(* weight belongs to the first class whose upper threshold it does not pass. *)
Avg(q) == bytes_cnt[q] \div flow_cnt[q]

EndsClasses(q) ==
    flow_cnt[q] = 0 \/ Avg(q) <= (IF q = 0 THEN 0 ELSE Avg(q - 1))

GetPriority(bytes_sent) ==
    LET Ends   == {q \in Queues : EndsClasses(q)}
        last   == IF Ends = {} THEN NumQueues - 1
                  ELSE CHOOSE q \in Ends : \A r \in Ends : q <= r
        Within == {q \in 0 .. last - 1 : q + 1 \notin Ends
                                       /\ Fits(bytes_sent, Avg(q), Avg(q + 1))}
    IN  IF Within = {} THEN last
        ELSE CHOOSE q \in Within : \A r \in Within : q <= r

\* A handler nobody disturbed has found the class of its weight (main.c:52-68).
UndisturbedIsExact ==
    \A c \in CPU :
        (pc[c] = "classified" /\ ~stale[c]) => prio[c] = GetPriority(arg[c])

\* Every handler that has started ends (main.c:189-201).
HandlerEnds == \A c \in CPU : pc[c] # "idle" ~> pc[c] = "idle"

------------------------------------------------------------------------------
(* The update is atomic for everybody who asks under the lock: the counters  *)
(* map to the state before the update until the bytes are added, and to the  *)
(* aged state from then on.                                                  *)

AtomicBytes ==
    [q \in Queues |-> IF lock[q] # NoCpu /\ pc[lock[q]] = "agebytes"
                      THEN Halve(bytes_cnt[q]) ELSE bytes_cnt[q]]

AtomicFlows ==
    [q \in Queues |->
        IF lock[q] = NoCpu THEN flow_cnt[q]
        ELSE CASE pc[lock[q]] = "addbytes" -> flow_cnt[q] - div_pkt[lock[q]]
               [] pc[lock[q]] \in {"agebytes", "ageflows"} -> Halve(flow_cnt[q])
               [] OTHER -> flow_cnt[q]]

Counts == {DivPkt(p) : p \in {p \in Payloads : p >= SmallPacket}}

Stats == INSTANCE QueueStats WITH bytes_cnt <- AtomicBytes, flow_cnt <- AtomicFlows

\* The statements of the update implement one atomic update of QueueStats.
ImplementsStats == Stats!Spec

==============================================================================
