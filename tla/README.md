# A TLA+ verification of QCluster

QCluster schedules flows by clustering packets of similar weight (bytes sent,
bytes left, deadline) into a few priority queues, with thresholds it adapts
itself.  The repository has it three times: as a Linux kernel module
(`src/endhost`), as a P4 program with a control plane (`src/p4`), and as queue
disciplines and TCP agents of the ns-2 simulator (`src/ns2`).  This directory
holds TLA+ models of its parts, the TLC configurations that check them on small
instances, and theorems with proofs for TLAPS.

Contents: [Inventory](#inventory) · [Modules](#modules) ·
[Runs](#runs-and-bounds) · [Fairness](#fairness) · [Proofs](#proofs) ·
[What the checks found](#what-the-checks-found) · [Not modelled](#not-modelled) ·
[Plan](#plan)

## Inventory

### End host (`src/endhost`)

| Component | State | Operations | Hard behaviour | What makes it correct |
|---|---|---|---|---|
| Flow byte accounting (`main.c` 98–182, `jprobe.c`) | `PIAS_Flow_Info`: `last_seq`, `bytes_sent`, `last_copy_time` | the hook on SYN, FIN/RST and data; the `tcp_sendmsg` probe | sequence numbers wrap, TCP resends in other pieces, bare acknowledgements, an idle application starts a new message | no byte counted twice, none of an old message; `last_seq` the largest number sent |
| Queue table (`main.c` 43–68, 184–202) | `qcluster_queue_info[8]`: `bytes_cnt`, `flow_cnt`, `lock` | `get_priority` (unlocked), update and ageing (locked) | several CPUs; readers without the lock; ageing with rounding | updates atomic; no division by zero; averages bounded by the weights; classification agrees with the thresholds |
| Flow table (`flow.c`) | 256 lists of entries with a lock each, `size` | search, insert, delete, exit | walks without the lock; entries freed and reused; failing `kmalloc` | a second entry of a flow at most after a disturbed search, nobody overlooked by another one, a hook writes and frees its own entry only, no leak, `size` covers the entries |
| Load and unload (`main.c` 216–283, `jprobe.c` 73–93) | registration of hook and probe | init, exit | handlers run before the queue table is cleared | nothing in use is cleared or freed |

The netfilter hook composes them: SYN inserts in the flow table; FIN or RST
deletes; every other segment searches, accounts the bytes under the flow's lock
(where it also calls `get_priority`), then updates one queue under that queue's
lock.  The probe searches the same table and resets the count of a message.
The four interact through shared memory only.

### Simulator (`src/ns2`)

ns-2 is a single-threaded event simulator: a port is an object whose `enque` and
`deque` are called in any order, and each call runs to its end.  Agents and ports share
packets only: an agent writes the message number (`connection`) and the priority,
a port reads them.

| Component | State | Operations | Hard behaviour | What makes it correct |
|---|---|---|---|---|
| FQ_QC (`fairqueuing/queue`) | FIFOs, message and count of each flow, flow table of each queue, allowances of the round | `enque`, `deque` | a flow sits in several queues; the allowance is older than the queue | the tables agree with the queues; no empty queue is asked; no queue starves |
| FQ_AFQ | FIFOs, current round `R`, count of each flow | `enque`, `deque` | rounds wrap modulo 8 | packets of a message leave in order, at most `BpR` of them in a round |
| FQ_Ideal | FIFOs, linked list of queues in service order | `enque`, `deque` | nodes are freed and appended | the list is a permutation; no queue is served twice while another waits |
| Priority, Known, Unknown, Appro_Unknown (`srpt_las_ddl/queue`) | FIFOs, `counting` and `distinct` of each queue, `last_update`; per-flow counts or the sketch | `enque`, `deque`, `Update` | thresholds from floating averages that may be equal or inverted | thresholds increase; classes come into use in order and stay; strict priority; a flow is not taken for longer than its message |
| Count-min sketch (`cm_sketch.h`) | `counter[]`, `arrive[]` | `Init`, `Query_count` | flows collide with each other and with themselves; positions expire | never below what a flow has sent; exact without collisions |
| FullTcp agents (`tcp/tcp-full.cc`) | a TCP connection with scoreboard, reassembly queue and timers; where the current message starts and ends; the priority of the last batch; `flow_remaining_` at the receiver | `advance_bytes`, `sendmsg`, `usrclosed`, `recv`, `timeout` | loss, reordering, early timeouts, recovery and probes across the boundary of messages | nothing counts as delivered that is not; priorities cover what is missing, or it is known by how much they do not; messages and closes complete |
| Window of an agent (`tcp/tcp.cc`, `tcp/tcp-full.cc`) | `cwnd_`, `ssthresh_`, `recover_`, `last_cwnd_action_`, `dupacks_`; the marked fraction `ecnhat_*` | `opencwnd`, `slowdown`, `dupack_action`, `timeout_action`, `ecn`, `update_ecnhat_alpha`, `advance_bytes`, `reset` | echoes, losses and timeouts in one window; estimates told apart by sequence numbers that a timeout moves back; agents used again | one cut in a window; the estimate follows the echoes; the window lets a segment out and keeps its limit |
| Timer of an agent (`tcp/tcp.cc`) | `t_srtt_`, `t_rttvar_`, `t_rtxcur_`, `t_backoff_`, `ecn_backoff_` | `rtt_update`, `rtt_backoff`, `rtt_timeout`, `set_rtx_timer`, `newack`, `ecn` | fixed point with rounding, a `short` difference, a backoff that discards the smoothed time | never below the last round-trip time, never out of range |

### Switch (`src/p4`)

| Component | State | Operations | Hard behaviour | What makes it correct |
|---|---|---|---|---|
| Data plane, sketch (`qcluster.p4` 93–208) | three registers of time stamp and count | ingress | 32-bit time stamps wrap, streams collide, weights have 20 bits | a weight is what the stream has sent since it was idle |
| Data plane, counters (`qcluster.p4` 222–278) | packet and weight registers per queue | ingress | clipped counts, carry of the weight register | the weight register counts what passed |
| Data plane, depths (`qcluster.p4` 280–350) | the depth of each queue, their sum | egress | two registers in different stages, resets under traffic | the sum is that of the depths |
| Control plane (`qcluster.py`) | last readings, aged counters, rule handles | one loop per interval | readings of different moments, overflow, exchange of rules under traffic | every weight matches one rule; thresholds increase |

Interaction: the control plane reads the registers of the data plane and writes
its range table; they share nothing else.

## Modules

| Module | Models | State and actions against the code |
|---|---|---|
| `SeqNumber` | `pias_is_seq_larger`, last byte of a segment | operators over a sequence space of any size, with the code's constant 4294900000 as `WrapGap` |
| `FlowBytes` | one flow's accounting under a TCP sender | `info` is the entry (`NoInfo`: none); `una`, `nxt`, `wr` are the sender's stream offsets, external. `Transmit`, `Retransmit`, `SendAck` run the data branch of the hook; `SendSyn`, `SendFin`, `SendRst` the others; `SendMsg` the probe |
| `QueueStats` | abstract: one queue's counters under an atomic addition with ageing | `Add(q, n, w)` |
| `QueueInfo` | the queue table on several CPUs | one action per access to shared memory: `CheckCount`, `LoadBytes`, `Divide` for `get_priority`, `Lock`, `AddFlows`, `AddBytes`, `AgeBytes`, `AgeFlows`, `Unlock` for the update |
| `FlowTable` | the hash table on several CPUs | `list` the cells in each bucket, `key` the 4-tuple in a cell; `cur` and `ahead` are `ptr` and `next` of a walk, cells or head_nodes. `Begin` loads the head, `Peek` the next pointer of the safe walk, `WalkOn` goes on (`Follow` is `list.next` of whatever lies at the pointer), `Found`/`NotFound` end the search, `Use` reads and writes the entry, `Alloc`, `AllocFails`, `Link`, `IncSize` insert, `Unlink`, `DecSize` delete, `Exit` unloads. `disturbed` and `doubtful` are history |
| `FairQC` | FQ_QC | `q`, `message_id`, `flow_count`, `current_flow`, `rr_times` as in the class; `Enque`, `Deque` |
| `CMSketch` | the sketch | `counter`, `arrive` as in the class; `Arrive` a full packet, `Tick` the simulator's clock |
| `StrictPriority` | abstract: packets with a class each, the first of the best class leaves | `Come`, `Leave` |
| `AdaptivePort` | Priority, Known, Unknown, Appro_Unknown, by `kind` | `q`, `counting`, `distinct`, `count_item`, `last_time` as in the classes, `since` for `last_update`; one action for each `enque`, `Deque`, and the clock. `Threshold`, `ClassOf`, `Learn` are the part three ports share. Implements `StrictPriority` |
| `AFQ` | FQ_AFQ | `q`, `R`, `message_id`, `flow_count` as in the class; `Enque`, `Deque` |
| `IdealFQ` | FQ_Ideal | `q`, the list nodes `next`, `qid`, and `tail`; `Enque`, `Deque` with `MoveToEnd` |
| `TcpOutput` | what an agent of FullTcp sends | an agent is a record of the class's fields; each operator is the method of its name and returns the agent it leaves, packets sent in `out`. `Round` is the body of the loop of `send_much`, which is a recursive function. `foutput` and `transmit` are the two halves of `foutput`, `set_prio` and `nxt_tseq` those of Sack |
| `FullTcp` | a connection between two agents | `tcp` the two agents, `net` the packets under way (a bag). `Start` is the script's `advance-bytes` with `signal_on_empty_`, or `sendmsg`; `Close`, `Receive`, `Timeout` call `usrclosed`, `recv`, `timeout` (that of MinTCP). `recv` is split at its labels: `step6`, `process_ACK`, `dropafterack`; `Lose` is the network's. `got` is history |
| `Congestion` | the window of six classes of agents | `w` the window and its recovery, `s` the sequence numbers (in segments), `e` the estimate. `RecvSynAck`, `RecvAck`, `CountDup`, `Recover`, `ExtraAck`, `OldAck` are `recv` by the case its acknowledgement falls into, `Timeout` the timer, `NewMessage` `advance_bytes`, `NewConnection` an agent that is closed, reset and used again; `Sends` is `send_much`. `h` is history |
| `RttTimer` | the retransmission timer | `rtt` the fields of `TcpAgent`, `timer` what it was set to. `SetTimer`, `Timed`, `Untimed`, `TimerOff` are a segment sent, an acknowledgement with and without a sample, and `reset_rtx_timer` after a timeout |
| `P4Sketch` | the ingress up to the weight | `tstamp_counter` the registers, `clock` the switch's clock; `Ingress` the three stateful ALUs, `minCount` the tables after them; `burst`, `latest` and `noticed` are history |
| `P4Depth` | the depths and their sum | `qdepth_i`, `qdepth_sum` the registers, `stages` the packets between them; `Egress`, `Sum`, `ClearDepths` (`--clear`) |
| `P4Counters` | the registers of one queue and their reading | `Packet` the two stateful ALUs; `Age`, `ReadPkt`, `ReadWeight`, `Account` the loop of `set_qcluster_threholds`, one register access per step; `unread`, `seen` and the like are history |
| `P4Rules` | the range table and its rewriting | `Measure`, `Raise`, `Close` compute averages and boundaries, `AddRule`, `DeleteOld`, `Save` exchange the rules, one operation of the driver per step; `QueueOf` is the table's lookup |
| `Arithmetic` | – | facts about `%` and `\div` for the proofs, least numbers, and induction over a set of numbers |
| `CountsProofs`, `QueueInfoProofs`, `FlowTableProofs`, `AdaptivePortProofs`, `FairPortsProofs`, `FullTcpProofs`, `CongestionProofs` | – | the theorems; `CountsProofs` is about what `MCCounts` combines (`FlowBytes`, `CMSketch`, `P4Counters`, `P4Sketch`, `P4Depth`, `P4Rules`), `FairPortsProofs` about `FairQC`, `AFQ` and `IdealFQ`, `CongestionProofs` about `Congestion` and `RttTimer` |
| `MCQueueInfo`, `MCFlowTable`, `MCCounts`, `MCAdaptivePort`, `MCFairPorts`, `MCFullTcp`, `MCCongestion` | – | the modules the runs load, with the constants a `.cfg` cannot write. `MCCounts`, `MCFairPorts` and `MCCongestion` hold several parts, of which one moves |

Abstractions worth knowing:

* `FlowBytes` has one packet per step.  Packets of one socket pass the hook one
  at a time, and both writers of an entry hold its lock.  That the flow's lock
  is not held while the entry is found is the subject of `FlowTable`.
* In `QueueInfo` a packet comes with any weight, and the weight that is added to
  the queue is chosen again: the code re-reads `bytes_sent` after it has released
  the flow's lock (`main.c` 195), when the probe or another handler may have
  changed it.  `arg` is the weight truncated to 32 bits, and the product under
  the square root is taken modulo `ProductSpace`.  The integer square root is
  modelled by `Fits`: `x <= isqrt(n)` is `x * x <= n`.  `queue_dist`, `new_flow`
  and `delta` (`main.c` 179–181) are computed and never used, and are left out.
* `FlowTable` has every schedule of its handlers, so walks stand on cells that others
  free.  `list_del` leaves a poisoned pointer in a freed cell, at which a walk faults:
  that handler stays where it is.  `kfree` overwrites the first words of the cell,
  where the 4-tuple is, so a freed cell equals no flow.  A cell may be allocated again
  at once, for an entry only, and its initialisation is one step; until it is linked
  its pointer is to itself, and a walk that stands on it goes round there.  A walk
  that a reused cell has led into another list does not see its own head_node any
  more, and may go round that list; what lies around a head_node is taken to equal no
  flow.  What is written into an entry is not in this module.
* The one thing `FlowTable` takes from the kernel is `SocketFree`: the packets of one
  socket pass the hook one at a time.  SYN/ACKs of one connection request are sent
  without the listener's lock and may overlap, and the probe runs before the socket is
  locked.  Resets that are sent without a socket, for a flow that is being handled
  elsewhere, are not covered.
* `FairQC` writes the thresholds of `enque` as the constants they are: `pkt_sum`
  is set to 0 by the constructor and never again (line 107 advances `pkt_num`
  where the sum was meant), so every average is 0, both `thre1` and `thre2` are
  1 before the previous threshold is added, and `Qthres[i]` is `i + 1`.
  `pkt_num` and `count_flow_in` then influence nothing and are not kept.
* `CMSketch` takes any hash function and discrete time.  `Arrive` is the call in
  `Appro_Unknown::enque` for a packet of 1460 bytes of payload or more.
* `AdaptivePort` counts sums, numbers of packets, averages and thresholds in units
  (`Unit` to one) and rounds down, where the code has doubles.  A packet of less
  than 1460 bytes has its own size for a value, as in the code, and is not
  counted.  What the sketch answers in Appro_Unknown is any member of `Estimates`;
  that the answer is right is the subject of `CMSketch`.  A port marks by its
  total (`PER_PORT_ECN`, the configured scheme).  Data packets are TCP; a packet of
  another type acts as one without data.
* `AFQ` has packets of one size and `queue_num_` above 1: with one queue
  `FQ_AFQ.cc` 46 never resets a count.  Its properties are about messages less than
  a turn of the queues ahead of `R`: the code puts a longer one back into the queue
  it wrapped to (`FQ_AFQ.cc` 59), or behind all others from round 16 on, and there
  packets do overtake earlier ones of their message.
* `IdealFQ` has nodes with addresses: `MoveToEnd` takes a free one before it frees
  the old one, and leaves anything in the new one's `next`.  `rand()` in `deque` is
  called for nothing and left out.
* `FullTcp` is the copy in `srpt_las_ddl`, as the scripts create it: MinTCP agents, no
  data on a SYN, `nodelay_` on, `segsperack_` 1 in effect (`need_send` ignores it), no
  header option that changes what is sent.  The congestion window is not kept: a
  method finds any window in `Windows`, which covers every reaction of `slowdown` and
  `opencwnd`; `ecnCut` says whether the last cut was for a mark. The scoreboard and
  the reassembly queue are sets of bytes, and an acknowledgement reports the whole set
  (three blocks in the program).  `pipe_` is kept while `pipectrl_` is on, `dupacks_`
  and `prob_count_` are cut off one above their thresholds, where all values act
  alike.  `MaxBurst` is `maxburst_`; for its default 0, which is no limit, it stands
  for any number of rounds that the loop of `send_much` does not reach, as each round
  with a payload fills more of the window.  No packet is duplicated.  PIAS tags,
  deadlines, priority classes (`prio_num_`, 0 in the scripts), `infinite_send_` and
  the delayed-ack timer (never pending, as `need_send` answers at once) are left out.
  `predict_ok` leaves out the test of ECN flags (1657), a change of the DCTCP marking
  state sends no acknowledgement of its own (1955), and `clear_on_timeout_`
  (3517–3520) is not modelled.  A close is called when nothing is outstanding, see
  below.  `twice` in an agent and in a packet is history: the bytes that the priority
  subtracts twice.
* `Congestion` takes the network as any sequence of acknowledgements, so that it needs
  no receiver; what is sent and whether it arrives is `FullTcp`'s.  Header prediction
  is not taken: it wants the window at `wnd_` or above, and the run's is below.  The
  window counts parts of a segment and the estimate parts of one (`Unit`, `One`),
  rounded down, where the code has doubles.  `pow` of a deadline's or message's
  exponent is any value between the powers for the exponents at the ends of its range.
  The options are those the scripts set or leave: `windowOption_` 0,
  `wnd_init_option_` 1, no Quick-Start, `decrease_num_` 1/2.  The three Booleans that
  runs may set stay constants.  Parts of the classes that only the other classes of
  ns-2 use (`opencwnd` of HighSpeed TCP and the like) are left out.
* `RttTimer` counts time in ticks and takes the deviation and the smoothed time in
  the code's fixed point (eighths and quarters).  `tcpTick_` and the conversion to
  seconds are a factor.  `use_rtt_` is for marked SYN/ACKs (`ecn_syn_`), which the
  scripts leave off.
* `P4Sketch` has packets that are not small: a small one takes part in nothing but
  the queue it gets (`set_small_packet`).  `clock` goes on and is cut to the time
  stamp, so that a wrap is a step like any other.  Packets are too few for a
  counter of 32 bits to wrap.  The least count is cut to 20 bits each time it is
  written, as in `getMinCount1` and `getMinCount2`.  `--clear` also resets these
  registers, which makes every stream look new, and is left out here.
* `P4Depth` has the packets between the two registers in order, as a pipeline
  keeps them.
* `P4Counters` has one queue: queues have registers of their own.  It ages in
  every loop, as `set_aging(1)` (`qcluster.py` 353) makes the program do.  A port
  lies in one pipe, so the sum over the pipes is that of the register.
* `P4Rules` takes any averages, in any order, as numbers with a fraction (`Unit`
  steps to one) instead of floats.  The batch of the driver is not assumed to be
  atomic: packets are classified between any two of its operations, whose order
  it keeps.  A range that ends before it begins matches nothing.  What is computed
  for one port and built anew for the next is cleared in `Save`.

## Runs and bounds

| Run | Shows | Bounds and why they are enough |
|---|---|---|
| `queue_info` | updates atomic, averages bounded, no division by zero, classification exact, handlers end | 2 CPUs (one disturbs the other), 2 queues (first and last), ageing above 1 so that it happens after every other packet, payloads of 1 and of 2 packets, weights 1 and 2. Counters need no bound: ageing keeps them finite |
| `flow_table` | on every schedule: a flow gets a second entry only after a disturbed search, an undisturbed search overlooks nobody, no leak, a hook writes and frees only its own flow's entry, handlers end | 2 CPUs, as one disturbs the other; 3 flows of which 2 share a bucket; 3 cells, so that a freed one is used again in the same and in the other bucket; no SYN begins at `MaxSize` = 2, and two at once still link a third entry. Second entries, faults and walks that end up in the other list all occur |
| `flow_table_walk` | a violation: a walk stands on a freed entry | 2 CPUs, 3 flows, 2 cells |
| `counts`, part `bytes` (`FlowBytes`) | every byte of a message counted at most once, `last_seq` the largest | sequence space 16 with a wrap constant 11 (so `SeqSpace - WrapGap` is 5, the window 4); initial numbers on both sides of the constant and next to the wrap; 9 bytes per connection, so each connection can wrap; segments up to 3 |
| – part `sketch` (`CMSketch`) | estimates never below the truth, exact for a flow with a position of its own | 4 flows on 4 positions with 2 hash functions: collisions between flows and of a flow with itself; 6 packets, 5 ticks, an interval of 1: several expiries. The packets are too few for a 32-bit counter to overflow, as the assumption says |
| – part `counters` (`P4Counters`) | packets counted exactly across the wrap, weights up to one packet for each carry, averages bounded | registers of 3 bits, a carry every 1 to 4 packets and up to `MaxHi` = 4 of them, a wrap every 8 packets; fewer than half of them between two readings (2^31 in the program); weights 1 and 3; counters are aged above 4, many times over |
| – part `ingress` (`P4Sketch`) | a weight is what the stream has sent since it was idle, and no less under collisions | 3 streams on 2 cells of 3 registers, so that some share one or two cells and none all three; time stamps that go around after 4 ticks, 7 ticks, an interval of 1: a stream comes back before and after the wrap, also at the very moment it looks fresh; 5 packets of 1 or 3, weights up to 5, so that counts pass the width |
| – part `egress` (`P4Depth`) | the sum is that of the depths, but for what is between the registers and what was reset | 3 queues, depths 0, 1 and 3, 2 packets between the registers, sums of 8 in words of 16 so that both wrap; resets of up to 6 in all |
| – part `rules` (`P4Rules`) | no weight without a rule, no class empty, handles neither lost nor used twice | 2 ports, 3 queues (first, middle, last), averages on both sides of the last boundary, equal, inverted and fractional ones; loops without end |
| `adaptive_port` | thresholds rise, classes come and stay in use in order, no flow taken for longer than it is, strict priority | 3 classes (first, middle, last), payloads none, small and full, priorities that are 0, equal and far apart, `MaxArrivals` = 6 packets of which the port holds 5 bytes; ageing above 2 packets, so that it happens; it stops there (no deadlock check) |
| `fair_ports` | FQ_QC: tables agree with queues, no empty queue asked, no byte stuck, no starvation; FQ_AFQ in order and within the share; FQ_Ideal's list a permutation, no queue served twice while another waits | 3 queues (first, middle, last); QC and AFQ: 2 flows, 2 messages (the code compares only with the last), 3 bytes in packets of 1 and 2, `flow_count` cut off above the last threshold or round, beyond which all values act alike; AFQ: 2 packets to a round, rounds up to 5 as 15 = 2 * 8 - 1, so `R` goes around and messages reach past the last round; Ideal: 4 nodes (one more than the list), 4 messages of which 2 share a queue; arrivals never end |
| `full_tcp` | nothing taken for delivered that has not arrived, priorities cover what is missing but for bytes that the code subtracts twice, the receiver's countdown is right, messages and closes complete | MinTCP with scheme 4 (a priority for a batch, the one with a memory) and a probe after the first timeout; a message of one byte, then either one of two full segments and a short one, which is the least with a hole between two reported blocks, and a close, or one of two segments with `MSG_EOF`; or a message of two segments, whose reports may come late, then one with `MSG_EOF`; segments of 11 bytes, above the 10 that Sack adds, which would otherwise hide every error of a priority; windows of 1 and 3 segments, and 6 rounds of `send_much` at most, more than a window holds; the duplicate-ack threshold scaled from 3 to 1, as the window holds 3 segments, so that fast retransmit, holes and probes all happen; any reordering and 1 fault (a loss or an early timeout; two faults exceed TLC); the agents stop when both are closed (no deadlock check) |
| `prio_stale` | a violation: a priority below what the message lacks, because the scoreboard still holds bytes that are acknowledged | scheme 2, the one of the scripts; the threshold of 3; a message longer than the window; reordering and no fault |
| `full_tcp_fair` | a violation: the fair-queuing copy's countdown of what remains goes wrong after a filled hole | as `full_tcp`, with the receiver of the other copy |
| `congestion`, part window (`Congestion`) | the window in range, one cut a window, the inflation taken back, the estimate of marks follows the echoes and is taken once a window | all six classes; windows up to 4 segments in halves, so that cuts round; the estimate in thirds; a threshold of 2 duplicates and one more; 4 segments, 2 connections of the agent; echoes, losses and timeouts in any order |
| – part timer (`RttTimer`) | the timer in range and not below the last round-trip time | MinTCP and the other agents with both rules of `rfc2988_`; samples 0, 2 and 6 around a difference of 8, times up to 100, backoff up to 256 (MinTCP's has no end) |
| `syn_echo` | a violation: the estimate rises without a mark | as `congestion` |
| `p4_las` | a violation: packets heavier than the last boundary go to the highest queue | as part `rules` of `counts` |

Deadlock is not checked where the instance ends: the parts of `counts` at their bounds
on packets and time, an agent of `congestion` when all is acknowledged and it is not
used again, and in the runs on the same instances that look for a violation; nor in
`flow_table`, where handlers on both CPUs may have faulted at freed memory.

The shape of the state is `TypeOK` in each module with theorems, where the
proofs establish it for every instance as part of the inductive invariant; the
runs spend their time on the other properties.

## Fairness

* `QueueInfo`: a CPU that has begun runs on (weak fairness of its steps); a
  spinlock is obtained by a handler that keeps trying while it is released again
  and again (strong fairness of `Lock`: the queued spinlocks of Linux are fair).
  Nothing makes a packet arrive.
* `FlowTable`: weak fairness of each CPU's handler, which runs on once it has begun. A
  handler under whose walk an entry was freed may never end, which `HandlerEnds`
  excepts.
* `MCFairPorts`: the link asks FQ_QC for a packet whenever it is idle (weak fairness
  of `MCDepart`, whichever queue it takes).  Nothing is assumed of arrivals.
* `FullTcp`: the scheduler of ns-2 executes every event it holds.  A packet under
  way arrives unless it is lost (weak fairness of arrivals); a timer that runs
  expires, whatever the network carries (strong fairness of each agent's timeout:
  an early one is a fault, so the budget of faults may disable it while packets
  are under way, and it is free when there are none).
* The other modules: safety only.  `Congestion` and `RttTimer` have the network act
  for itself and ask for nothing to happen.

## Proofs

All theorems are for every value of the constants, under the assumptions named
in the modules (`SeqAssumption`, `FlowAssumption`, `QueueAssumption`,
`TableAssumption`, `SketchAssumption`, `P4SketchAssumption`, `CounterAssumption`,
`P4DepthAssumption`, `RuleAssumption`, `PortAssumption`, `FairAssumption`,
`PortsAssumption`, `TcpOutputAssumption`, `FullTcpAssumption`, `CongestionAssumption`,
`RttTimerAssumption`), which the runs
evaluate: widths and limits are numbers, the CPUs and cells of the flow table and the
queues of the switch are finite sets, and names differ.  A theorem that assumes more says so below.

`CountsProofs`, part by part:

* The byte count of a flow: `SeqLargerIsTotal` (of two numbers exactly one is larger)
  and `SeqAheadIsLarger` (less than `SeqSpace - WrapGap` ahead is larger, across
  the wrap), which rest on `SeqAddStep`: adding wraps at most once.
  `CountIsRight` and `LastSeqIsRight`, under `SmallWindow`:
  fewer than `SeqSpace - WrapGap` bytes in flight (67296 for the code's
  constants).  The invariant is the conjunction of type, count and `last_seq`:
  `last_seq` alone decides what is counted, and the window bounds how far behind
  it a segment can be.  The bound is needed: `counts` with a window of 6
  violates `LastSeqIsLargest`.
* The sketches: `NeverUnder` and `OwnIsExact`.  `Query_count` is a least
  value; the inductive invariant `SketchInv` speaks of each position instead: it
  was hit no earlier than any of its flows sent, so it does not expire under
  them, and holds at least what each has sent.  `Counted` keeps the counters from
  overflowing.  `WeightIsRight` is the same question of the switch, for any number
  of streams and widths.  Its invariant `BurstInv` says
  of each cell of a stream that it was hit no earlier than the stream sent and counts
  at least what the stream has sent (`Hit`), and of a cell which a stream has for
  itself that it was hit just then and, unless the time stamp went around unseen
  (`noticed`), counts exactly that (`OwnHit`).  The arithmetic of the wrap is in
  `ModDifference` and `StaleAge`: a difference of remainders is the difference, and
  within the interval a cell is not stale.
* The registers of a queue: `EveryPacketOnce`, `WeightIsClose` and
  `AverageStaysBounded`.  The properties speak of the moment of the accounting;
  the invariant says at every step how far a register is ahead of its last
  reading (`PktInv`, modulo the wrap; `WeightInv`, up to the carries), and how
  much of the weight read belongs to packets not read yet (`LagInv`): without
  `lag` the averages have no bound that halving preserves.
* The sum of depths: `SumIsExact`, for any number of queues and of packets between
  the two registers.  The property looks at both ends only; `DepthInv` says of every
  packet on the way that the register, with what it and those before it will
  add (`Prefix`), comes to the sum it was told, modulo the word.  A packet that leaves
  then finds its sum in the register, and the sum of 20 bits is a remainder of
  that of 32 (`ModMod`).  Both folds, over the queues and over the packets, are sums over a finite
  set (`SumOver`), of which `SumSplit`, `SumAgree` and `SumChanges` are the laws.
* The rules of the switch: `EveryClassGetsWeights`.  Averages that are one apart have
  geometric means that are one apart (`RootsDiffer`), so that boundaries rise
  after rounding, too; the invariant keeps the last boundary together with the
  averages it comes from (`LastRoot`).  `HandlesStayCurrent`, `RulesCoverEveryWeight` and
  `RulesTypeCorrect` are about the exchange: `Live` says which of the kept handles
  are in use at each point of it, and the rules in the table are those, and the
  new ones (`Kept`, `Batch`, `Placed`).  The ranges of a port form a chain without gaps
  (`Chain`), the old one until the last new rule is in, and the new one from there
  on.  That there is always a free handle is a count (`TableFits`).

The other modules:

* `QueueInfoProofs`: `TableIsSafe` (exclusion, no division by zero),
  `QueueNeverEmpties`, `AverageIsBounded`, `UpdateIsAtomic` (`QueueInfo`
  implements `QueueStats`) and `WalkFindsClass`.  The checked invariants are not
  inductive: the
  strengthening says what a handler between two statements knows, that it
  accounts for at least one packet (`Busy`), that the count it has added is still
  in the counter (`HalfAdded`), and that a queue it ages is above the limit
  (`Overfull`).  For the averages `BytesInv` states the bound at each of the four
  statements of an update separately.  The refinement maps the counters to the
  state before the update until the bytes are added, and to the aged one after.
  For the class of a packet, `Knows` says of a handler that nobody has disturbed
  that no queue it has passed ends the classes or takes its weight, and that what
  it has loaded is still there; at its last queue that is the reference.
* `FlowTableProofs`: `HooksUseOwnEntry`, `OneEntryPerFlow`, `SearchIsComplete`,
  `NothingLeaks`, `TableTypeCorrect`, on every schedule.  Nothing can be said of where
  a disturbed walk leads, and `IInv` says nothing: what a hook does with an entry
  follows from the 4-tuple it compared (`Holding`), from the lists (`Lists`,
  `NoOrphan`), and from `OneSocket`, by which no other handler frees that entry in
  between. Of an undisturbed search an entry of its flow is at the pointer or behind
  it (`Search`), for the safe walk at the pointer it has loaded ahead; what it has not
  found is still missing when it links its own (`Missing`); so of two entries of a
  flow one was linked by a disturbed handler (`Unique`).  That `size` covers the
  entries (`Counted`) is shown on top of `IInv` by counting the handlers between the
  list and the counter.
* `AdaptivePortProofs`: `ServesByPriority` is the refinement of `StrictPriority` by all
  four ports; its `Order` says that the numbers of packets rise in a class.
  `MessagesNotOverestimated` and `ClassesStayUsed` hold without further assumptions.
  `AllClassesReachable` assumes that priorities, estimates and messages stay within
  `Jump` (2^25 bytes in the program): a greater value goes past the first class without
  packets, and the next one comes into use before it.  The run has messages beyond
  that, but too few packets to reach the case.  Thresholds are a recursive function:
  `ThresholdsExist` and `ThresholdsRise` are about its values.
* `FairPortsProofs`, about the composition `MCSpec`.  `QCIsFair`: types, tables and
  allowances are inductive together (`FairInv`); what is left is that a refill
  serves some queue, from the sum of the lengths.  `TurnsAreFair`: `InTurn` says
  where the properties say "twice" that only a queue *behind* a waiting one in the list
  has had a turn since, and one only, and `Listed` that the walk from the head visits one
  node for each queue and ends at the tail.  `RoundsAreFair`: the properties compare
  two packets; the invariant places each by its count.  A packet's
  round comes no later than its slot says (`Ahead`: rounds only come nearer), so that
  the next packet of the message, whose slot is counted from the current round,
  comes last; and packets that share a round share a slot, of which there are
  `BpR` (`InOrder`).
* `CongestionProofs`: `WindowStaysInRange` and `EstimateFollowsEchoes`.  A window is
  changed by a chain of operators; for each there is a lemma that it keeps `Good`
  (a segment at least, a threshold of 2, not above the limit unless the class
  inflates), and the step is a walk along the chain.  The estimate needs `Counts`:
  if some or not all of what is counted is marked, the window has had an echo or an
  acknowledgement without one.  So an average with a fraction of 0 cannot rise and one
  with a fraction of 1 cannot fall (`AverageBetween`, `Follows`), rounding included.
  `CutsOncePerWindow`, `EstimatesOncePerWindow` and `RecoveryDeflates` relate a step
  to earlier ones.  `HistoryInv` connects the history with what the agent itself
  remembers: the last cut is not past `recover_` (`CutNoted`), and the last estimate
  not past `ecnhat_recalc_seq`, but for what was sent before a timeout
  (`EstimateNoted`).
* `FullTcpProofs`: `DeliveredHolds`, `FlowRemainingHolds` and `PrioNearRemainingHolds`, from
  `FullInvHolds`, for any messages, segments, windows, `MaxBurst`, thresholds, probing and
  number of faults, and for either application closing.  `FlowRemaining` is false for the
  other copy of the agent (`full_tcp_fair`), and its theorem assumes `~FairCopy`;
  `PrioNearRemaining` is about the schemes that compute remaining sizes, and its theorem
  assumes `Measured`: scheme 2 or 4, not `FairCopy` and not `EnableKnown`, where
  priorities are something else.  The other two assume nothing of the scheme.
  An acknowledgement counts from the receiver's state at some earlier moment, so the
  invariant has to say of every number that may come back what it stands for: `Known`,
  that all bytes below it have arrived, holds of `rcv_nxt_`, of each acknowledgement under
  way, also when it arrives after later ones, and of `highest_ack_`.  The obstacle is the
  FIN, which uses a number that a later message would use for a byte: `IsOpen` says when a
  message may still come, and then no FIN is under way, none is queued, and `rcv_nxt_` is
  not past the last byte.  The countdown is `Left` of `rcv_nxt_`; that it starts right
  with a message is `Ready`: when `done_data` has been called the receiver has everything,
  as an acknowledgement of all bytes cannot be ahead of `rcv_nxt_` (`ToSender`).  The two
  agents' invariants (`SOk`, `ROk`) are proved method by method, from `sendpacket` up to
  `recv`, each in what it knows of the other agent; `send_much` is an induction over its
  rounds (`IsRounds`).  Then what one agent does is shown to leave the other's invariant
  (`SWeaker`, `RWeaker`) and the packets under way (`NetWeaker`), before the actions.
  Priorities are `SPrio` and `PrioNet`: `Near` the remaining size is what `last_prio_`
  holds and what each packet carries, and it stays so as bytes arrive (`NearMore`), which
  is why a priority computed once for a batch does not have to be told from a fresh one.
  That a fresh one is near needs two facts of the agent: what `set_prio` subtracts has
  arrived (`Known`, the scoreboard), and while there is data `highest_ack_` is past the
  message before the last, so nothing of an earlier message is subtracted.  The second
  holds as a message only follows when `done_data` has been called for the one before.
  The applications' closing must not disturb it: while the sender `Waits` (its bytes, or
  its SYN, are not acknowledged and it has sent no FIN) no FIN of the receiver can be
  under way, so that the sender takes none before its message is acknowledged.
* The timer: `TimerStaysInTime`.  `Sound` is the record's shape with
  `Backoff`, which bounds the doubling by the maximum that stops it, and, as long as
  a difference fits in a `short` (`Narrow`), `Smooth` and the property itself.
  `Smooth` leaves the smoothed time either 0, where the next sample begins anew, or
  bounded so that no difference wraps.  `SampleCovered` is the inequality of one
  sample.

What the proofs had to say that the runs did not: `OneCutPerWindow` once took for a cut
any step to a smaller window.  For other constants than the run's (four parts to a
segment and a limit of two segments, say) a window may lie above `maxcwnd_` by a
fraction, and an acknowledgement that only trims it looked like a second cut.  `Cut` now
compares with the limited window, and "half" is what rounding to a part leaves of it.

Recursive functions, folds and `CHOOSE` come with no theorems here.  A function is
given as an explicit set of pairs or by its values up to a number, and shown to satisfy the
recursion by induction over a set of numbers (`SetInduction` in
`Arithmetic`, which is `LeastNat` in another form) or of finite sets (`SubsetInduction`);
what `CHOOSE` picks is then shown to have that property.

Only model-checked: the liveness properties (`HandlerEnds` of `QueueInfo` and `FlowTable`,
`QCNoStarvation`, `RequestsComplete`), which TLAPS does not reach.

## What the checks found

* `main.c` 163 and `flow.h` 18, from the model: the comment promises the bytes sent.
  A one-byte segment that follows a bare acknowledgement is taken for a
  retransmission and not counted; `MessageBytes` is the half that holds.
* `main.c` 103: numbers more than 4294900000 above another count as smaller.  A
  connection that begins just below that number, or 67296 bytes in flight at the
  wrap, make an old segment pass for a new one; `IsnBelowGap` and `Window` keep
  the properties of `FlowBytes` to the other cases.
* `flow.c` 175 and 279: the lists have a lock "for this flow list" that walks do not
  take (`flow_table_walk`).  What the hook then writes or frees is its own flow's
  entry all the same (`UsesOwnEntry`); the probe may write into a freed one.
* `flow.c` 212–238, from the model: after a search under which an entry was freed, or
  beside another SYN/ACK of the same request, a flow gets a second entry, of which a
  FIN deletes the first only.  `NoDuplicateFlow` says that this is the only way.
* `flow.c` 259, by reading: `size` is reported as the number of flows (63) and
  counts a repeated SYN again; that it is never too small is part of `NoLeak`.
* `qcluster.py` 238, `qcluster.p4` 218: weights above 2^18 match no rule and get
  queue 7, the highest, where README.md 15 promises the least attained service
  first (`p4_las`).
* `FQ_QC.cc` 107: thresholds never adapt, although README.md 6 says so of
  QCluster; see the note on `FairQC`.
* `FQ_AFQ.cc` 59, by reading and from the model: a message 8 to 15 rounds ahead
  wraps into a queue that is served soon, and overtakes its own packets.
* `tcp-full.cc` 2707 and 2717 (`srpt_las_ddl`, as the following): "if our FIN is now
  acknowledged", says the comment; the test is for `maxseq_`, so after a close with
  data outstanding an acknowledgement of data alone leads to FIN_WAIT_2 before the
  FIN has left.  `Close` keeps to applications that wait for their data.
* `tcp-full.cc` 1508–1524: a message of one byte on an established, idle connection
  is not sent: `curseq_` counts as past the last byte here, and as the last byte in
  `foutput`.  The run has its one-byte message first.
* `tcp-full.cc` 422: a `MSG_EOF` that comes with the first message is cleared by the
  `reset` in `advance_bytes`, and no FIN follows.  With `MSG_EOF` and
  `signal_on_empty_` both set, `done_data` is never called.
* `tcp-full.cc` 2572–2587: a FIN without data counts as a duplicate
  acknowledgement, and from the threshold on is dropped before its FIN is looked
  at.  If both applications close at once, retransmitted FINs may go unread for
  ever at thresholds of 1 and 2; `Closers` has the sender only.
* `tcp-full.cc` 3545: `flags() & TH_FIN == 0` is `flags() & (TH_FIN == 0)`, so an
  illegal block is never noticed.  1684–1702: `need_send` promises an
  acknowledgement for every `segs_per_ack_` segments and sends one for each.
* `tcp-full.cc` 1937: header prediction advances `highest_ack_` and returns without
  clearing the scoreboard, and a late report puts acknowledged bytes back on it (3552).
  `set_prio` (3310) subtracts such bytes twice, so that packets leave with a priority
  below the remaining size, up to the highest while data is outstanding (`prio_stale`).
  `PrioNearRemaining` is the part that holds: the error is never more than those bytes.
* `fairqueuing/tcp/tcp-full.cc` 2823: the other copy counts a filled hole by the
  segment that filled it, and not by what was waiting behind it; its
  `flow_remaining_` stays above what is missing (`full_tcp_fair`).
* `tcp-full.cc` 1851 (with 1323–1326): the flag of the SYN/ACK that negotiates ECN is
  counted as a mark, so that `ecnhat_alpha_` begins at `ecnhat_g_` (`syn_echo`).
* `tcp.cc` 465–533: `reset` leaves the estimate's sequence numbers as they were.  An
  agent that is used again takes its next estimate when the new connection passes
  the numbers of the old one; until then the old estimate decides every cut.
  `EstimatePerWindow` speaks of first connections.
* `tcp-full.cc` 3024–3027: after a timeout `ecnhat_recalc_seq` goes back to
  `highest_ack_`, so that the next acknowledgement ends the window although less
  than a window was counted.
* `tcp-full.cc` 3379–3387: "Don't cut cwnd again" says the comment on duplicate
  acknowledgements in a window an echo has cut, and with `ecnhat_` the lines below
  halve it again (`SackDupack`).  `OneCutPerWindow` is about what acknowledgements
  of new data do, where the promise holds.
* `tcp.cc` 608, by reading: the difference is a `short`.  The scripts set `tcpTick_`
  to 1 µs, and from 32.8 ms on a jump of the round-trip time wraps; `Narrow` keeps
  `TimerCoversSample` to smaller ones.
* `tcp.cc` 632–640: MinTCP never reaches `maxrto_`, so `t_backoff_` doubles with every
  timeout until the `int` overflows; nothing uses the value.
* `qcluster.py` 292–303: `--clear` resets `qdepth_i` and not `qdepth_sum`.  What was in
  the queues at that moment stays in the sum for good (`cleared` in `P4Depth`).
* `qcluster.p4` 280–350 and `set_ecn` in `qcluster.py`: `qdepth_i` has one entry for a
  queue number of all ports together, so ports overwrite each other's depths; and the
  range of marked sums ends at 2^19 - 1, as "qdepth has 19 bits", though the sum has
  20: a sum beyond is not marked.
* `qcluster.p4` 190–208: the weight is cut to 20 bits, so a stream that has sent 1 MiB
  without a pause counts as new.  `WeightIsBurst` speaks of cells below that.
* `qcluster.py`, `set_small_packet`, by reading: the number of entries of the table is
  used as the handle of an entry.
* `main.c` 270, by reading: packets that are handled before the queue table is
  cleared lose their counts, and a clear between the test of a count and the
  division by it divides by zero.
* `FQ_QC.cc` 121–157, a behaviour rather than a flaw: rounds serve every queue, so
  packets of one message that are spread over two queues may leave out of order.

## Not modelled

`hash.h` (the sketch takes any hash), `pFabric.patch` (third-party), the Tcl and
Python scripts of the experiments, `ip.h`, `nf_wrapper.h`, `Makefile`, and the
functions that only print.  The values written into the DSCP field and the ECN
field of the end host are functions of the class and appear as the class.

## Plan

In this order, each with its run and proofs:

1. The composition of `P4Counters` and `P4Rules`, where ranges decide what the
   registers count and averages decide the ranges.
2. `Endhost`: loading, handlers and unloading composed; clearing the queue table
   under running handlers.
3. Two connections through a port of `AdaptivePort`, where priorities decide what
   is dropped, with the windows of `Congestion`.

A theorem to add: monotonicity of the class in the weight (`GetPriority`).  The number of
runs is kept small: each asks a separate question.
