--------------------------- MODULE QueueInfoProofs ---------------------------
(***************************************************************************)
(* The queue table is safe for any number of CPUs, queues, weights and any *)
(* ageing limit.  QueueInv adds to the checked invariants what a handler   *)
(* between two statements knows about the counters it is changing.         *)
(***************************************************************************)
EXTENDS QueueInfo, Arithmetic

Busy == \A c \in CPU : pc[c] \in Updating => div_pkt[c] > 0

HalfAdded ==
    \A c \in CPU : pc[c] = "addbytes" => flow_cnt[prio[c]] >= div_pkt[c]

Overfull ==
    \A c \in CPU : pc[c] \in {"agebytes", "ageflows"} => flow_cnt[prio[c]] > MaxAging

QueueInv == TypeOK /\ LockHeld /\ NoZeroDivision /\ Busy /\ HalfAdded /\ Overfull

\* An skb is at least no packet.
LEMMA DivPktNat ==
    ASSUME NEW p \in Nat
    PROVE  DivPkt(p) \in Nat
<1>1. p > Mtu => (p - 1) \div Mtu \in Nat
  BY DivNat, QueueAssumption
<1>. QED BY <1>1 DEF DivPkt

\* A cleared table with idle handlers satisfies the invariant (main.c:43-47).
LEMMA InitQueueInv == Init => QueueInv
BY QueueAssumption DEF Init, QueueInv, TypeOK, LockHeld, NoZeroDivision, Busy,
   HalfAdded, Overfull, Queues, Labels, Updating

\* A handler's jump to a label keeps pc in shape.
LEMMA GotoShape ==
    ASSUME TypeOK, NEW c \in CPU, NEW l \in Labels, Goto(c, l)
    PROVE  pc' \in [CPU -> Labels]
BY DEF TypeOK, Goto

\* The ghost stays Boolean.
LEMMA DisturbShape ==
    ASSUME Disturb
    PROVE  stale' \in [CPU -> BOOLEAN]
BY DEF Disturb

\* No statement of a handler spoils the shape of the state.
LEMMA TypeStep ==
    ASSUME TypeOK, NoZeroDivision, [Next]_vars
    PROVE  TypeOK'
<1>. USE QueueAssumption
<1>1. ASSUME NEW c \in CPU, NEW w \in Weights, NEW p \in Payloads, Start(c, w, p)
      PROVE  TypeOK'
  <2>1. w % ByteSpace \in 0 .. ByteSpace - 1
    BY ModRange
  <2>2. (IF p < SmallPacket THEN 0 ELSE DivPkt(p)) \in Nat
    BY DivPktNat
  <2>3. pc' \in [CPU -> Labels]
    BY <1>1, GotoShape DEF Start, Labels, Reading, Updating
  <2>4. 0 \in Queues
    BY DEF Queues
  <2>. QED BY <1>1, <2>1, <2>2, <2>3, <2>4 DEF Start, TypeOK, table
<1>2. ASSUME NEW c \in CPU, CheckCount(c)
      PROVE  TypeOK'
  <2>1. pc' \in [CPU -> Labels]
    BY <1>2, GotoShape DEF CheckCount, Labels, Reading, Updating
  <2>2. this_avg' \in [CPU -> Nat]
    BY <1>2 DEF CheckCount, TypeOK
  <2>. QED BY <1>2, <2>1, <2>2 DEF CheckCount, TypeOK, table
<1>3. ASSUME NEW c \in CPU, LoadBytes(c)
      PROVE  TypeOK'
  <2>1. pc' \in [CPU -> Labels]
    BY <1>3, GotoShape DEF LoadBytes, Labels, Reading, Updating
  <2>. QED BY <1>3, <2>1 DEF LoadBytes, TypeOK, table
<1>4. ASSUME NEW c \in CPU, NEW d \in {cnt[c], flow_cnt[prio[c]]}, Divide(c, d)
      PROVE  TypeOK'
  <2>1. pc[c] = "divide" /\ cnt[c] > 0 /\ flow_cnt[prio[c]] > 0
    BY <1>4 DEF NoZeroDivision, Divide
  <2>2. sum[c] \div d \in Nat
    BY <2>1, DivNat DEF TypeOK
  <2>3. /\ pc' \in [CPU -> Labels]
        /\ this_avg' \in [CPU -> Nat]
    BY <1>4, <2>2, GotoShape DEF Divide, Return, TypeOK, Labels, Reading, Updating
  <2>4. prio' \in [CPU -> Queues]
    <3>1. \A k \in Queues : /\ k > 0 => k - 1 \in Queues
                            /\ k # LastQueue => k + 1 \in Queues
      BY DEF Queues, LastQueue
    <3>2. \E q \in Queues : prio' = [prio EXCEPT ![c] = q]
      BY <1>4, <3>1 DEF Divide, Return, TypeOK
    <3>. QED BY <3>2 DEF TypeOK
  <2>. QED BY <1>4, <2>3, <2>4 DEF Divide, Forget, TypeOK, table
<1>5. ASSUME NEW c \in CPU, SkipSmall(c)
      PROVE  TypeOK'
  <2>1. pc' \in [CPU -> Labels]
    BY <1>5, GotoShape DEF SkipSmall, Labels, Reading, Updating
  <2>2. 0 \in Queues /\ 0 \in 0 .. ByteSpace - 1
    BY DEF Queues
  <2>. QED BY <1>5, <2>1, <2>2 DEF SkipSmall, TypeOK, table
<1>6. ASSUME NEW c \in CPU, Lock(c)
      PROVE  TypeOK'
  <2>1. pc' \in [CPU -> Labels]
    BY <1>6, GotoShape DEF Lock, Labels, Reading, Updating
  <2>2. 0 \in 0 .. ByteSpace - 1
    OBVIOUS
  <2>. QED BY <1>6, <2>1, <2>2 DEF Lock, TypeOK
<1>7. ASSUME NEW c \in CPU, AddFlows(c)
      PROVE  TypeOK'
  <2>1. pc' \in [CPU -> Labels]
    BY <1>7, GotoShape DEF AddFlows, Labels, Reading, Updating
  <2>. QED BY <1>7, <2>1, DisturbShape DEF AddFlows, TypeOK, local
<1>8. ASSUME NEW c \in CPU, NEW w \in Weights, AddBytes(c, w)
      PROVE  TypeOK'
  <2>1. pc' \in [CPU -> Labels]
    BY <1>8, GotoShape DEF AddBytes, Labels, Reading, Updating
  <2>2. w * div_pkt[c] \in Nat
    BY DEF TypeOK
  <2>. QED BY <1>8, <2>1, <2>2, DisturbShape DEF AddBytes, TypeOK, local
<1>9. ASSUME NEW c \in CPU, AgeBytes(c)
      PROVE  TypeOK'
  <2>1. pc' \in [CPU -> Labels]
    BY <1>9, GotoShape DEF AgeBytes, Labels, Reading, Updating
  <2>2. Halve(bytes_cnt[prio[c]]) \in Nat
    BY HalfBounds DEF TypeOK, Halve
  <2>. QED BY <1>9, <2>1, <2>2, DisturbShape DEF AgeBytes, TypeOK, local
<1>10. ASSUME NEW c \in CPU, AgeFlows(c)
      PROVE  TypeOK'
  <2>1. pc' \in [CPU -> Labels]
    BY <1>10, GotoShape DEF AgeFlows, Labels, Reading, Updating
  <2>2. Halve(flow_cnt[prio[c]]) \in Nat
    BY HalfBounds DEF TypeOK, Halve
  <2>. QED BY <1>10, <2>1, <2>2, DisturbShape DEF AgeFlows, TypeOK, local
<1>11. ASSUME NEW c \in CPU, Unlock(c)
      PROVE  TypeOK'
  <2>1. pc' \in [CPU -> Labels]
    BY <1>11, GotoShape DEF Unlock, Labels, Reading, Updating
  <2>2. 0 \in Queues
    BY DEF Queues
  <2>. QED BY <1>11, <2>1, <2>2 DEF Unlock, TypeOK
<1>12. ASSUME UNCHANGED vars
      PROVE  TypeOK'
  BY <1>12 DEF vars, table, local, TypeOK
<1>. QED
  BY <1>1, <1>2, <1>3, <1>4, <1>5, <1>6, <1>7, <1>8, <1>9, <1>10, <1>11, <1>12
     DEF Next, Arrive, Step
\* spin_lock_irqsave and spin_unlock_irqrestore (main.c:190, 201) are the only
\* statements that move the ownership of a queue, and a handler that updates owns it.
LEMMA LockHeldStep ==
    ASSUME TypeOK, LockHeld, [Next]_vars
    PROVE  LockHeld'
<1>. USE QueueAssumption DEF LockHeld, Goto, Updating, Reading, table, local, TypeOK
<1>1. ASSUME NEW c \in CPU, NEW w \in Weights, NEW p \in Payloads, Start(c, w, p)
      PROVE  LockHeld'
  BY <1>1 DEF Start
<1>2. ASSUME NEW c \in CPU, CheckCount(c) \/ LoadBytes(c)
      PROVE  LockHeld'
  BY <1>2 DEF CheckCount, LoadBytes
<1>4. ASSUME NEW c \in CPU, NEW d, Divide(c, d)
      PROVE  LockHeld'
  BY <1>4 DEF Divide, Return
<1>5. ASSUME NEW c \in CPU, SkipSmall(c)
      PROVE  LockHeld'
  BY <1>5 DEF SkipSmall
<1>6. ASSUME NEW c \in CPU, Lock(c)
      PROVE  LockHeld'
  BY <1>6 DEF Lock
<1>7. ASSUME NEW c \in CPU, AddFlows(c)
      PROVE  LockHeld'
  BY <1>7 DEF AddFlows
<1>8. ASSUME NEW c \in CPU, NEW w \in Weights, AddBytes(c, w)
      PROVE  LockHeld'
  BY <1>8 DEF AddBytes
<1>9. ASSUME NEW c \in CPU, AgeBytes(c) \/ AgeFlows(c)
      PROVE  LockHeld'
  BY <1>9 DEF AgeBytes, AgeFlows
<1>11. ASSUME NEW c \in CPU, Unlock(c)
      PROVE  LockHeld'
  BY <1>11 DEF Unlock
<1>12. ASSUME UNCHANGED vars
      PROVE  LockHeld'
  BY <1>12 DEF vars
<1>. QED
  BY <1>1, <1>2, <1>4, <1>5, <1>6, <1>7, <1>8, <1>9, <1>11, <1>12
     DEF Next, Arrive, Step
\* What a handler has computed so far survives the steps of the others.
Progress == Busy /\ HalfAdded /\ Overfull /\ NoZeroDivision

\* What a handler knows between two statements survives the statements of the
\* others: the counter a reader tested stays positive, the owner's sums stay its own.
LEMMA ProgressStep ==
    ASSUME TypeOK, LockHeld, Progress, [Next]_vars
    PROVE  Progress'
<1>. USE QueueAssumption
     DEF LockHeld, Goto, Updating, Reading, table, local, TypeOK,
         Progress, Busy, HalfAdded, Overfull, NoZeroDivision
<1>1. ASSUME NEW c \in CPU, NEW w \in Weights, NEW p \in Payloads, Start(c, w, p)
      PROVE  Progress'
  BY <1>1 DEF Start
<1>2. ASSUME NEW c \in CPU, CheckCount(c) \/ LoadBytes(c)
      PROVE  Progress'
  BY <1>2 DEF CheckCount, LoadBytes
<1>4. ASSUME NEW c \in CPU, NEW d, Divide(c, d)
      PROVE  Progress'
  BY <1>4 DEF Divide, Return, Forget
<1>5. ASSUME NEW c \in CPU, SkipSmall(c)
      PROVE  Progress'
  BY <1>5 DEF SkipSmall
<1>6. ASSUME NEW c \in CPU, Lock(c)
      PROVE  Progress'
  BY <1>6 DEF Lock
<1>7. ASSUME NEW c \in CPU, AddFlows(c)
      PROVE  Progress'
  BY <1>7 DEF AddFlows
<1>8. ASSUME NEW c \in CPU, NEW w \in Weights, AddBytes(c, w)
      PROVE  Progress'
  BY <1>8 DEF AddBytes
<1>9. ASSUME NEW c \in CPU, AgeBytes(c)
      PROVE  Progress'
  BY <1>9 DEF AgeBytes
<1>10. ASSUME NEW c \in CPU, AgeFlows(c)
      PROVE  Progress'
  <2>1. flow_cnt[prio[c]] > MaxAging
    BY <1>10 DEF AgeFlows
  <2>2. Halve(flow_cnt[prio[c]]) \in Nat /\ Halve(flow_cnt[prio[c]]) > 0
    BY <2>1, HalfBounds DEF Halve
  <2>3. \A q \in Queues : flow_cnt[q] > 0 => flow_cnt'[q] > 0
    BY <1>10, <2>2 DEF AgeFlows
  <2>4. \A d \in CPU : d # c /\ pc[d] \in Updating => prio[d] # prio[c]
    BY <1>10 DEF AgeFlows
  <2>5. \A d \in CPU : d # c /\ pc[d] \in Updating => flow_cnt'[prio[d]] = flow_cnt[prio[d]]
    BY <1>10, <2>4 DEF AgeFlows
  <2>6. /\ pc' = [pc EXCEPT ![c] = "unlock"]
        /\ prio' = prio /\ cnt' = cnt /\ div_pkt' = div_pkt
    BY <1>10 DEF AgeFlows
  <2>7. Busy' /\ NoZeroDivision'
    BY <2>3, <2>6, <1>10 DEF AgeFlows
  <2>8. HalfAdded' /\ Overfull'
    BY <2>5, <2>6
  <2>. QED BY <2>7, <2>8
<1>11. ASSUME NEW c \in CPU, Unlock(c)
      PROVE  Progress'
  BY <1>11 DEF Unlock
<1>12. ASSUME UNCHANGED vars
      PROVE  Progress'
  BY <1>12 DEF vars
<1>. QED
  BY <1>1, <1>2, <1>4, <1>5, <1>6, <1>7, <1>8, <1>9, <1>10, <1>11, <1>12
     DEF Next, Arrive, Step

\* QueueInv is inductive.
LEMMA QueueInvStep ==
    ASSUME QueueInv, [Next]_vars
    PROVE  QueueInv'
BY TypeStep, LockHeldStep, ProgressStep DEF QueueInv, Progress

\* The hook's table keeps its shape, an update runs under its queue's lock, and
\* get_priority never divides by zero although it reads without a lock
\* (main.c:52-68, main.c:190-201).
THEOREM TableIsSafe == Spec => [](TypeOK /\ LockHeld /\ NoZeroDivision)
<1>1. QueueInv => TypeOK /\ LockHeld /\ NoZeroDivision
  BY DEF QueueInv
<1>2. QueueInv /\ [Next]_vars => QueueInv'
  BY QueueInvStep
<1>. QED BY InitQueueInv, <1>1, <1>2, PTL DEF Spec
------------------------------------------------------------------------------
(* A queue that counted keeps counting.                                    *)

\* The count of a queue is only added to, or halved while it is above MaxAging
\* (main.c:194, 197-199).
LEMMA CountStaysPositive ==
    ASSUME QueueInv, [Next]_vars
    PROVE  \A q \in Queues : flow_cnt[q] > 0 => flow_cnt'[q] > 0
<1>. USE QueueAssumption DEF QueueInv, TypeOK, table, local
<1>1. ASSUME NEW c \in CPU, AddFlows(c)
      PROVE  \A q \in Queues : flow_cnt[q] > 0 => flow_cnt'[q] > 0
  BY <1>1 DEF AddFlows
<1>2. ASSUME NEW c \in CPU, AgeFlows(c)
      PROVE  \A q \in Queues : flow_cnt[q] > 0 => flow_cnt'[q] > 0
  <2>1. flow_cnt[prio[c]] > MaxAging
    BY <1>2 DEF AgeFlows, Overfull
  <2>2. Halve(flow_cnt[prio[c]]) > 0
    BY <2>1, HalfBounds DEF Halve
  <2>. QED BY <1>2, <2>2 DEF AgeFlows
<1>3. ASSUME UNCHANGED flow_cnt
      PROVE  \A q \in Queues : flow_cnt[q] > 0 => flow_cnt'[q] > 0
  BY <1>3
<1>4. \/ \E c \in CPU : AddFlows(c) \/ AgeFlows(c)
      \/ UNCHANGED flow_cnt
  BY DEF Next, Arrive, Step, Start, CheckCount, LoadBytes, Divide,
         SkipSmall, Lock, AddBytes, AgeBytes, Unlock, vars
<1>. QED BY <1>1, <1>2, <1>3, <1>4

\* No statement of any handler empties a queue that has counted a packet
\* (main.c:194-200), which is why an unlocked reader may divide.
THEOREM QueueNeverEmpties == Spec => NeverEmptiesAgain
<1>1. QueueInv /\ [Next]_vars => QueueInv'
  BY QueueInvStep
<1>2. QueueInv /\ [Next]_vars
        => [\A q \in Queues : flow_cnt[q] > 0 => flow_cnt'[q] > 0]_vars
  BY CountStaysPositive
<1>. QED BY InitQueueInv, <1>1, <1>2, PTL DEF Spec, NeverEmptiesAgain

------------------------------------------------------------------------------
(* The averages stay bounded.                                              *)

\* While an update is under way the bound is the one of the packets whose
\* bytes are in already, and a queue whose bytes are halved has room to spare.
BytesInv(m) ==
    /\ \A q \in Queues : bytes_cnt[q] <= m * (flow_cnt[q] + 1)
    /\ \A c \in CPU : pc[c] = "addbytes" =>
          bytes_cnt[prio[c]] <= m * (flow_cnt[prio[c]] - div_pkt[c] + 1)
    /\ \A c \in CPU : pc[c] = "ageflows" =>
          2 * bytes_cnt[prio[c]] <= m * (flow_cnt[prio[c]] + 1)

\* Two updates are never under way in one queue.
LEMMA OneUpdater ==
    ASSUME LockHeld, TypeOK, NEW c \in CPU, NEW d \in CPU, d # c,
           pc[c] \in Updating, pc[d] \in Updating
    PROVE  prio[d] # prio[c]
BY DEF LockHeld, TypeOK

\* A product with a natural number grows with its other factor.
LEMMA MulMono ==
    ASSUME NEW m \in Nat, NEW a \in Int, NEW b \in Int, a <= b
    PROVE  m * a <= m * b
OBVIOUS

\* Each statement of the update (main.c:194-200) keeps the bytes of a queue within
\* the heaviest weight times its count, rounding included.
LEMMA BytesInvStep ==
    ASSUME QueueInv, NEW m \in Nat, IsMaxWeight(m), BytesInv(m), [Next]_vars
    PROVE  BytesInv(m)'
<1>. USE QueueAssumption DEF QueueInv, TypeOK
<1>1. ASSUME NEW c \in CPU, AddFlows(c)
      PROVE  BytesInv(m)'
  <2> DEFINE q == prio[c]
             n == div_pkt[c]
             f == flow_cnt[prio[c]]
  <2>1. pc[c] \in Updating /\ n > 0
    BY <1>1 DEF AddFlows, Updating, Busy
  <2>2. /\ flow_cnt' = [flow_cnt EXCEPT ![q] = f + n] /\ bytes_cnt' = bytes_cnt
        /\ pc' = [pc EXCEPT ![c] = "addbytes"] /\ prio' = prio /\ div_pkt' = div_pkt
    BY <1>1 DEF AddFlows, Goto, local
  <2>3. m * (f + 1) <= m * (f + n + 1)
    BY <2>1, MulMono
  <2>4. f + n - n + 1 = f + 1
    OBVIOUS
  <2>5. \A d \in CPU : d # c /\ pc[d] \in Updating => flow_cnt'[prio[d]] = flow_cnt[prio[d]]
    BY <2>1, <2>2, OneUpdater
  <2>6. \A r \in Queues : bytes_cnt'[r] <= m * (flow_cnt'[r] + 1)
    BY <2>2, <2>3 DEF BytesInv
  <2>. QED BY <2>2, <2>4, <2>5, <2>6 DEF BytesInv, Updating
<1>2. ASSUME NEW c \in CPU, NEW w \in Weights, AddBytes(c, w)
      PROVE  BytesInv(m)'
  <2> DEFINE q == prio[c]
             n == div_pkt[c]
             b == bytes_cnt[prio[c]]
             f == flow_cnt[prio[c]]
  <2>1. pc[c] \in Updating /\ n > 0 /\ w \in Nat /\ w <= m
        /\ b <= m * (f - n + 1)
    BY <1>2 DEF AddBytes, Updating, Busy, IsMaxWeight, BytesInv
  <2>2. \E l \in {"agebytes", "unlock"} :
        /\ bytes_cnt' = [bytes_cnt EXCEPT ![q] = b + w * n] /\ flow_cnt' = flow_cnt
        /\ pc' = [pc EXCEPT ![c] = l] /\ prio' = prio /\ div_pkt' = div_pkt
    BY <1>2 DEF AddBytes, Goto, local
  <2>3. w * n <= m * n
    BY <2>1
  <2>4. m * (f - n + 1) + m * n = m * (f + 1)
    OBVIOUS
  <2>5. b + w * n <= m * (f + 1) /\ w * n \in Nat
    BY <2>1, <2>3, <2>4
  <2>6. \A d \in CPU : d # c /\ pc[d] \in Updating => bytes_cnt'[prio[d]] = bytes_cnt[prio[d]]
    BY <2>1, <2>2, OneUpdater
  <2>7. \A r \in Queues : bytes_cnt'[r] <= m * (flow_cnt'[r] + 1)
    BY <2>2, <2>5 DEF BytesInv
  <2>. QED BY <2>2, <2>6, <2>7 DEF BytesInv, Updating
<1>3. ASSUME NEW c \in CPU, AgeBytes(c)
      PROVE  BytesInv(m)'
  <2> DEFINE q == prio[c]
             b == bytes_cnt[prio[c]]
             f == flow_cnt[prio[c]]
             h == Halve(bytes_cnt[prio[c]])
  <2>1. pc[c] \in Updating
    BY <1>3 DEF AgeBytes, Updating
  <2>2. /\ bytes_cnt' = [bytes_cnt EXCEPT ![q] = h] /\ flow_cnt' = flow_cnt
        /\ pc' = [pc EXCEPT ![c] = "ageflows"] /\ prio' = prio /\ div_pkt' = div_pkt
    BY <1>3 DEF AgeBytes, Goto, local
  <2>3. h \in Nat /\ 2 * h <= b
    BY HalfBounds DEF Halve
  <2>4. 2 * h <= m * (f + 1) /\ h <= m * (f + 1)
    BY <2>3 DEF BytesInv
  <2>6. \A d \in CPU : d # c /\ pc[d] \in Updating => bytes_cnt'[prio[d]] = bytes_cnt[prio[d]]
    BY <2>1, <2>2, OneUpdater
  <2>7. \A r \in Queues : bytes_cnt'[r] <= m * (flow_cnt'[r] + 1)
    BY <2>2, <2>4 DEF BytesInv
  <2>. HIDE DEF h
  <2>. QED BY <2>2, <2>3, <2>4, <2>6, <2>7 DEF BytesInv, Updating
<1>4. ASSUME NEW c \in CPU, AgeFlows(c)
      PROVE  BytesInv(m)'
  <2> DEFINE q == prio[c]
             b == bytes_cnt[prio[c]]
             f == flow_cnt[prio[c]]
             h == Halve(flow_cnt[prio[c]])
  <2>1. pc[c] \in Updating /\ 2 * b <= m * (f + 1)
    BY <1>4 DEF AgeFlows, Updating, BytesInv
  <2>2. /\ flow_cnt' = [flow_cnt EXCEPT ![q] = h] /\ bytes_cnt' = bytes_cnt
        /\ pc' = [pc EXCEPT ![c] = "unlock"] /\ prio' = prio /\ div_pkt' = div_pkt
    BY <1>4 DEF AgeFlows, Goto, local
  <2>3. h \in Nat /\ f + 1 <= 2 * (h + 1)
    BY HalfBounds DEF Halve
  <2>. HIDE DEF h
  <2>4. m * (f + 1) <= m * (2 * (h + 1))
    BY <2>3, MulMono
  <2>5. m * (2 * (h + 1)) = 2 * (m * (h + 1))
    BY <2>3
  <2>6. b <= m * (h + 1)
    BY <2>1, <2>3, <2>4, <2>5
  <2>7. \A d \in CPU : d # c /\ pc[d] \in Updating => flow_cnt'[prio[d]] = flow_cnt[prio[d]]
    BY <2>1, <2>2, OneUpdater
  <2>8. \A r \in Queues : bytes_cnt'[r] <= m * (flow_cnt'[r] + 1)
    BY <2>2, <2>3, <2>6 DEF BytesInv
  <2>. QED BY <2>2, <2>7, <2>8 DEF BytesInv, Updating
<1>5. ASSUME UNCHANGED <<bytes_cnt, flow_cnt>>,
             \A c \in CPU : pc'[c] \in {"addbytes", "ageflows"} =>
                 pc[c] = pc'[c] /\ prio'[c] = prio[c] /\ div_pkt'[c] = div_pkt[c]
      PROVE  BytesInv(m)'
  BY <1>5 DEF BytesInv
<1>6. ASSUME NEW c \in CPU, Arrive(c)
      PROVE  BytesInv(m)'
  BY <1>5, <1>6 DEF Arrive, Start, Goto, table
<1>7. ASSUME NEW c \in CPU, CheckCount(c) \/ LoadBytes(c) \/ SkipSmall(c)
      PROVE  BytesInv(m)'
  BY <1>5, <1>7 DEF CheckCount, LoadBytes, SkipSmall, Goto, table
<1>8. ASSUME NEW c \in CPU, NEW d, Divide(c, d)
      PROVE  BytesInv(m)'
  BY <1>5, <1>8 DEF Divide, Return, Goto, table
<1>9. ASSUME NEW c \in CPU, Lock(c) \/ Unlock(c)
      PROVE  BytesInv(m)'
  BY <1>5, <1>9 DEF Lock, Unlock, Goto
<1>10. ASSUME UNCHANGED vars
      PROVE  BytesInv(m)'
  BY <1>5, <1>10 DEF vars, table, local
<1>. QED
  BY <1>1, <1>2, <1>3, <1>4, <1>6, <1>7, <1>8, <1>9, <1>10 DEF Next, Step

\* The average of a queue stays within one heaviest weight of its flows through
\* any number of concurrent updates and ageings (main.c:194-200).
THEOREM AverageIsBounded == Spec => []AverageBounded
<1> DEFINE I == \A m \in Weights : IsMaxWeight(m) => BytesInv(m)
<1>1. Init => I
  BY DEF Init, BytesInv, IsMaxWeight, Queues
<1>2. ASSUME QueueInv, I, [Next]_vars
      PROVE  I'
  <2>1. ASSUME NEW m \in Weights, IsMaxWeight(m)
        PROVE  BytesInv(m)'
    BY <1>2, <2>1, BytesInvStep DEF IsMaxWeight
  <2>. QED BY <2>1 DEF IsMaxWeight
<1>3. I => AverageBounded
  BY DEF AverageBounded, BytesInv
<1>4. QueueInv /\ [Next]_vars => QueueInv'
  BY QueueInvStep
<1>5. QueueInv /\ I /\ [Next]_vars => I'
  BY <1>2
<1>. HIDE DEF I
<1>. QED BY InitQueueInv, <1>1, <1>3, <1>4, <1>5, PTL DEF Spec

------------------------------------------------------------------------------
(* The update is atomic.                                                   *)

\* A handler that counts holds the count of some large packet.
CountsOK == \A c \in CPU : div_pkt[c] = 0 \/ div_pkt[c] \in Counts

\* A handler that updates a queue accounts for the packets of a full-sized payload
\* (main.c:186-193): div_pkt is set before the lock and kept until the end.
LEMMA CountsStep ==
    ASSUME TypeOK, CountsOK, [Next]_vars
    PROVE  CountsOK'
<1>1. ASSUME NEW c \in CPU, NEW w \in Weights, NEW p \in Payloads, Start(c, w, p)
      PROVE  CountsOK'
  <2>1. p >= SmallPacket => DivPkt(p) \in Counts
    BY DEF Counts
  <2>2. p < SmallPacket \/ p >= SmallPacket
    BY QueueAssumption
  <2>. QED BY <1>1, <2>1, <2>2 DEF Start, CountsOK, TypeOK
<1>2. ASSUME NEW c \in CPU, Unlock(c)
      PROVE  CountsOK'
  BY <1>2 DEF Unlock, CountsOK, TypeOK
<1>3. ASSUME UNCHANGED div_pkt
      PROVE  CountsOK'
  BY <1>3 DEF CountsOK
<1>. QED BY <1>1, <1>2, <1>3
         DEF Next, Arrive, Step, CheckCount, LoadBytes, Divide, SkipSmall, Lock,
             AddFlows, AddBytes, AgeBytes, AgeFlows, vars, local

\* A step that touches neither the counters nor a handler inside an update
\* changes nothing in the abstract table.
LEMMA StutterStep ==
    ASSUME QueueInv, [Next]_vars
    PROVE  \/ UNCHANGED <<AtomicBytes, AtomicFlows>>
           \/ \E c \in CPU, w \in Weights : AddBytes(c, w)
<1>. USE QueueAssumption DEF QueueInv, TypeOK
<1>1. ASSUME UNCHANGED <<bytes_cnt, flow_cnt, lock>>,
             \A c \in CPU : pc[c] \in Updating =>
                 pc'[c] = pc[c] /\ div_pkt'[c] = div_pkt[c]
      PROVE  UNCHANGED <<AtomicBytes, AtomicFlows>>
  <2>1. \A q \in Queues : lock[q] # NoCpu => lock[q] \in CPU /\ pc[lock[q]] \in Updating
    BY DEF LockHeld
  <2>. QED BY <1>1, <2>1 DEF AtomicBytes, AtomicFlows
<1>2. ASSUME NEW c \in CPU, Arrive(c)
      PROVE  UNCHANGED <<AtomicBytes, AtomicFlows>>
  BY <1>1, <1>2 DEF Arrive, Start, Goto, table, Updating
<1>3. ASSUME NEW c \in CPU, CheckCount(c) \/ LoadBytes(c) \/ SkipSmall(c)
      PROVE  UNCHANGED <<AtomicBytes, AtomicFlows>>
  BY <1>1, <1>3 DEF CheckCount, LoadBytes, SkipSmall, Goto, table, Updating
<1>4. ASSUME NEW c \in CPU, NEW d, Divide(c, d)
      PROVE  UNCHANGED <<AtomicBytes, AtomicFlows>>
  BY <1>1, <1>4 DEF Divide, Return, Goto, table, Updating
<1>5. ASSUME NEW c \in CPU, Lock(c)
      PROVE  UNCHANGED <<AtomicBytes, AtomicFlows>>
  <2>1. \A q \in Queues : lock[q] # NoCpu => lock[q] # c
    BY <1>5 DEF LockHeld, Lock, Updating
  <2>. QED BY <1>5, <2>1 DEF Lock, Goto, AtomicBytes, AtomicFlows
<1>6. ASSUME NEW c \in CPU, Unlock(c)
      PROVE  UNCHANGED <<AtomicBytes, AtomicFlows>>
  <2>1. \A q \in Queues : lock[q] = c <=> q = prio[c]
    BY <1>6 DEF LockHeld, Unlock, Updating
  <2>. QED BY <1>6, <2>1 DEF Unlock, Goto, AtomicBytes, AtomicFlows
<1>7. ASSUME NEW c \in CPU, AddFlows(c) \/ AgeBytes(c) \/ AgeFlows(c)
      PROVE  UNCHANGED <<AtomicBytes, AtomicFlows>>
  <2>1. \A q \in Queues : lock[q] = c <=> q = prio[c]
    BY <1>7 DEF LockHeld, AddFlows, AgeBytes, AgeFlows, Updating
  <2>2. c # NoCpu
    OBVIOUS
  <2>. QED BY <1>7, <2>1, <2>2
           DEF AddFlows, AgeBytes, AgeFlows, Goto, local, AtomicBytes, AtomicFlows
<1>8. ASSUME UNCHANGED vars
      PROVE  UNCHANGED <<AtomicBytes, AtomicFlows>>
  BY <1>1, <1>8 DEF vars, table, local
<1>. QED
  BY <1>2, <1>3, <1>4, <1>5, <1>6, <1>7, <1>8 DEF Next, Step

\* Adding the bytes is the atomic update of the abstract table.
LEMMA AddBytesIsAdd ==
    ASSUME QueueInv, CountsOK, NEW c \in CPU, NEW w \in Weights, AddBytes(c, w)
    PROVE  Stats!Add(prio[c], w, div_pkt[c])
<1>. USE QueueAssumption DEF QueueInv, TypeOK
<1> DEFINE q == prio[c]
           n == div_pkt[c]
<1>1. \A r \in Queues : lock[r] = c <=> r = q
  BY DEF LockHeld, AddBytes, Updating
<1>2. pc[c] = "addbytes" /\ n \in Nat /\ c # NoCpu /\ q \in Queues
  BY DEF AddBytes
<1>3. AtomicBytes[q] = bytes_cnt[q] /\ AtomicFlows[q] = flow_cnt[q] - n
  BY <1>1, <1>2 DEF AtomicBytes, AtomicFlows
<1>4. AtomicFlows[q] + n = flow_cnt[q]
  BY <1>2, <1>3
<1>5. /\ pc'[c] = IF flow_cnt[q] > MaxAging THEN "agebytes" ELSE "unlock"
      /\ \A d \in CPU : d # c => pc'[d] = pc[d]
      /\ lock' = lock /\ flow_cnt' = flow_cnt /\ div_pkt' = div_pkt
      /\ bytes_cnt' = [bytes_cnt EXCEPT ![q] = @ + w * n]
  BY DEF AddBytes, Goto, local
<1>6. AtomicBytes' = [AtomicBytes EXCEPT ![q] =
                        IF flow_cnt[q] > MaxAging THEN Halve(bytes_cnt[q] + w * n)
                        ELSE bytes_cnt[q] + w * n]
  BY <1>1, <1>2, <1>5 DEF AtomicBytes
<1>7. AtomicFlows' = [AtomicFlows EXCEPT ![q] =
                        IF flow_cnt[q] > MaxAging THEN Halve(flow_cnt[q]) ELSE flow_cnt[q]]
  BY <1>1, <1>2, <1>5 DEF AtomicFlows
<1>. QED BY <1>3, <1>4, <1>6, <1>7
         DEF Stats!Add, Stats!AddedBytes, Stats!AddedFlows, Stats!Halve, Halve

\* The statements under the spinlock implement one atomic addition with ageing
\* (main.c:190-201).
THEOREM UpdateIsAtomic == Spec => ImplementsStats
<1>1. Init => Stats!Init
  BY DEF Init, Stats!Init, AtomicBytes, AtomicFlows, Queues, Stats!Queues
<1>2. Init => CountsOK
  BY DEF Init, CountsOK
<1>3. ASSUME QueueInv, CountsOK, [Next]_vars
      PROVE  [Stats!Next]_(Stats!stats)
  <2>1. CASE UNCHANGED <<AtomicBytes, AtomicFlows>>
    BY <2>1 DEF Stats!stats
  <2>2. ASSUME NEW c \in CPU, NEW w \in Weights, AddBytes(c, w)
        PROVE  Stats!Next
    <3>1. prio[c] \in Stats!Queues
      BY <1>3 DEF QueueInv, TypeOK, Queues, Stats!Queues
    <3>2. div_pkt[c] \in Counts
      BY <1>3, <2>2 DEF QueueInv, Busy, CountsOK, AddBytes, Updating
    <3>3. Stats!Add(prio[c], w, div_pkt[c])
      BY <1>3, <2>2, AddBytesIsAdd
    <3>. QED BY <3>1, <3>2, <3>3 DEF Stats!Next
  <2>. QED BY <1>3, <2>1, <2>2, StutterStep
<1>4. QueueInv /\ [Next]_vars => QueueInv'
  BY QueueInvStep
<1>5. QueueInv /\ CountsOK /\ [Next]_vars => CountsOK'
  BY CountsStep DEF QueueInv
<1>6. QueueInv /\ CountsOK /\ [Next]_vars => [Stats!Next]_(Stats!stats)
  BY <1>3
<1>. QED BY InitQueueInv, <1>1, <1>2, <1>4, <1>5, <1>6, PTL
         DEF Spec, ImplementsStats, Stats!Spec

------------------------------------------------------------------------------
(* A handler that nobody disturbs finds the class.                         *)

\* The queues before k neither end the classes nor take weight a.
Past(a, k) ==
    \A r \in 0 .. k - 1 :
        ~EndsClasses(r) /\ (r > 0 => ~Fits(a, Avg(r - 1), Avg(r)))

\* What handler c has found out so far, about the table as it still is.
Knows(c) ==
    /\ pc[c] \in {"count", "bytes", "divide"} =>
         /\ Past(arg[c], prio[c])
         /\ this_avg[c] = IF prio[c] = 0 THEN 0 ELSE Avg(prio[c] - 1)
    /\ pc[c] \in {"bytes", "divide"} => cnt[c] = flow_cnt[prio[c]]
    /\ pc[c] = "divide" => sum[c] = bytes_cnt[prio[c]]
    /\ pc[c] = "classified" => prio[c] = GetPriority(arg[c])

Undisturbed == \A c \in CPU : ~stale[c] => Knows(c)

\* A set of queues has a least one, which CHOOSE finds.
LEMMA LeastQueue ==
    ASSUME NEW S \in SUBSET Nat, NEW k \in S, \A r \in S : k <= r
    PROVE  (CHOOSE q \in S : \A r \in S : q <= r) = k
<1> DEFINE P(q) == q \in S /\ \A r \in S : q <= r
<1>1. \A q \in S : P(q) => q = k
  <2>. TAKE q \in S
  <2>. QED BY q \in Nat /\ k \in Nat
<1>2. P(k)
  OBVIOUS
<1>3. P(CHOOSE q \in S : \A r \in S : q <= r)
  BY <1>2
<1>. QED BY <1>1, <1>3

\* The walk of get_priority ends in the class of the weight: at a queue that ends
\* the classes, or the last one (main.c:52-68),
LEMMA ClassAtEnd ==
    ASSUME NEW a, NEW k \in Queues, Past(a, k),
           \/ EndsClasses(k)
           \/ k = LastQueue /\ (k > 0 => ~Fits(a, Avg(k - 1), Avg(k)))
    PROVE  GetPriority(a) = k
<1>. USE QueueAssumption
<1> DEFINE Ends == {q \in Queues : EndsClasses(q)}
           last == IF Ends = {} THEN NumQueues - 1
                   ELSE CHOOSE q \in Ends : \A r \in Ends : q <= r
           Within == {q \in 0 .. last - 1 : q + 1 \notin Ends
                                          /\ Fits(a, Avg(q), Avg(q + 1))}
<1>1. Ends \in SUBSET Nat /\ k \in Nat /\ k <= LastQueue
  BY DEF Queues, LastQueue
<1>2. \A r \in Ends : k <= r
  <2>. TAKE r \in Ends
  <2>1. r \in Nat /\ r \notin 0 .. k - 1
    BY DEF Past, Queues
  <2>. QED BY <2>1, <1>1
<1>3. last = k
  <2>1. CASE EndsClasses(k)
    BY <2>1, <1>1, <1>2, LeastQueue
  <2>2. CASE ~EndsClasses(k)
    <3>1. k = LastQueue /\ k \notin Ends
      BY <2>2
    <3>2. Ends = {}
      BY <3>1, <1>2 DEF Queues, LastQueue
    <3>. QED BY <3>1, <3>2 DEF LastQueue
  <2>. QED BY <2>1, <2>2
<1>. HIDE DEF last
<1>4. Within = {}
  <2>. SUFFICES ASSUME NEW q \in 0 .. k - 1, q + 1 \notin Ends, Fits(a, Avg(q), Avg(q + 1))
                PROVE  FALSE
    BY <1>3
  <2>1. (q + 1) - 1 = q /\ q + 1 \in Nat /\ q + 1 > 0
    OBVIOUS
  <2>2. CASE q + 1 = k
    BY <2>1, <2>2 DEF Past
  <2>3. CASE q + 1 # k
    <3>1. q + 1 \in 0 .. k - 1
      BY <2>3, <1>1
    <3>. QED BY <3>1, <2>1 DEF Past
  <2>. QED BY <2>2, <2>3
<1>5. GetPriority(a) = IF Within = {} THEN last
                       ELSE CHOOSE q \in Within : \A r \in Within : q <= r
  BY DEF GetPriority, last
<1>. QED BY <1>3, <1>4, <1>5

\* or before the first queue whose lower threshold the weight does not reach.
LEMMA ClassBelow ==
    ASSUME NEW a, NEW k \in Queues, Past(a, k), k > 0, ~EndsClasses(k),
           Fits(a, Avg(k - 1), Avg(k))
    PROVE  GetPriority(a) = k - 1
<1>. USE QueueAssumption
<1> DEFINE Ends == {q \in Queues : EndsClasses(q)}
           last == IF Ends = {} THEN NumQueues - 1
                   ELSE CHOOSE q \in Ends : \A r \in Ends : q <= r
           Within == {q \in 0 .. last - 1 : q + 1 \notin Ends
                                          /\ Fits(a, Avg(q), Avg(q + 1))}
<1>1. Ends \in SUBSET Nat /\ k \in Nat /\ k <= NumQueues - 1
  BY DEF Queues
<1>2. \A r \in Ends : k < r
  <2>. TAKE r \in Ends
  <2>1. r \in Nat /\ r \notin 0 .. k - 1 /\ r # k
    BY DEF Past, Queues
  <2>. QED BY <2>1, <1>1
<1>3. last \in Nat /\ k <= last
  <2>1. CASE Ends = {}
    BY <2>1, <1>1
  <2>2. CASE Ends # {}
    <3>1. PICK l \in Ends : \A r \in Ends : l <= r
      BY <2>2, <1>1, LeastNat
    <3>2. last = CHOOSE q \in Ends : \A r \in Ends : q <= r
      BY <2>2
    <3>. HIDE DEF last, Ends
    <3>3. last = l
      BY <3>1, <3>2, <1>1, LeastQueue
    <3>. QED BY <3>1, <3>3, <1>1, <1>2
  <2>. QED BY <2>1, <2>2
<1>. HIDE DEF last
<1>4. k - 1 \in Within
  <2>1. (k - 1) + 1 = k /\ k - 1 \in 0 .. last - 1 /\ k \notin Ends
    BY <1>1, <1>3
  <2>. QED BY <2>1
<1>5. \A r \in Within : k - 1 <= r
  <2>. SUFFICES ASSUME NEW r \in 0 .. last - 1, Fits(a, Avg(r), Avg(r + 1)), r < k - 1
                PROVE  FALSE
    BY <1>1, <1>3
  <2>1. (r + 1) - 1 = r /\ r + 1 \in 0 .. k - 1 /\ r + 1 > 0
    BY <1>1, <1>3
  <2>. QED BY <2>1 DEF Past
<1>6. Within \in SUBSET Nat
  BY <1>3
<1>7. GetPriority(a) = IF Within = {} THEN last
                       ELSE CHOOSE q \in Within : \A r \in Within : q <= r
  BY DEF GetPriority, last
<1>. HIDE DEF Within
<1>. QED BY <1>4, <1>5, <1>6, <1>7, LeastQueue

\* While the counters stay as they are, so do the thresholds and the classes.
LEMMA ClassesStay ==
    ASSUME UNCHANGED <<bytes_cnt, flow_cnt>>, NEW a, NEW k
    PROVE  /\ Past(a, k)' <=> Past(a, k)
           /\ Avg(k)' = Avg(k)
           /\ GetPriority(a)' = GetPriority(a)
BY DEF Past, GetPriority, EndsClasses, Avg

\* What a handler knows stays true while it waits and nobody changes a counter.
LEMMA KnowsStays ==
    ASSUME UNCHANGED <<bytes_cnt, flow_cnt>>, NEW c \in CPU, Knows(c),
           pc'[c] = pc[c], prio'[c] = prio[c], arg'[c] = arg[c],
           this_avg'[c] = this_avg[c], cnt'[c] = cnt[c], sum'[c] = sum[c]
    PROVE  Knows(c)'
BY ClassesStay DEF Knows

\* The statements of get_priority keep what the handler knows.
LEMMA StartKnows ==
    ASSUME QueueInv, NEW c \in CPU, NEW w \in Weights, NEW p \in Payloads, Start(c, w, p)
    PROVE  Knows(c)'
<1>1. pc'[c] = "count" /\ prio'[c] = 0 /\ this_avg'[c] = 0
  BY DEF Start, Goto, QueueInv, TypeOK
<1>2. Past(arg[c], prio[c])'
  BY <1>1 DEF Past
<1>. QED BY <1>1, <1>2 DEF Knows

LEMMA CheckKnows ==
    ASSUME QueueInv, NEW c \in CPU, Knows(c), CheckCount(c)
    PROVE  Knows(c)'
<1>1. /\ pc[c] = "count" /\ prio'[c] = prio[c] /\ arg'[c] = arg[c] /\ prio[c] \in Queues
      /\ cnt'[c] = flow_cnt[prio[c]]
      /\ UNCHANGED <<bytes_cnt, flow_cnt>>
      /\ pc'[c] = IF flow_cnt[prio[c]] = 0 THEN "classified" ELSE "bytes"
      /\ flow_cnt[prio[c]] # 0 => this_avg'[c] = this_avg[c]
  BY DEF CheckCount, Goto, QueueInv, TypeOK, table
<1>2. /\ Past(arg[c], prio[c])
      /\ this_avg[c] = IF prio[c] = 0 THEN 0 ELSE Avg(prio[c] - 1)
  BY <1>1 DEF Knows
<1>3. CASE flow_cnt[prio[c]] = 0
  <2>1. EndsClasses(prio[c])
    BY <1>3 DEF EndsClasses
  <2>2. GetPriority(arg[c]) = prio[c]
    BY <1>1, <1>2, <2>1, ClassAtEnd
  <2>3. GetPriority(arg[c])' = GetPriority(arg[c])
    <3>1. PICK a : a = arg[c]
      OBVIOUS
    <3>2. GetPriority(a)' = GetPriority(a)
      BY <1>1, ClassesStay
    <3>. QED BY <1>1, <3>1, <3>2
  <2>. QED BY <1>1, <1>3, <2>2, <2>3 DEF Knows
<1>4. CASE flow_cnt[prio[c]] # 0
  <2>1. PICK a, k : a = arg[c] /\ k = prio[c]
    OBVIOUS
  <2>2. Past(a, k)' /\ Avg(k - 1)' = Avg(k - 1)
    BY <1>1, <1>2, <2>1, ClassesStay
  <2>. QED BY <1>1, <1>2, <1>4, <2>1, <2>2 DEF Knows
<1>. QED BY <1>3, <1>4

LEMMA LoadKnows ==
    ASSUME QueueInv, NEW c \in CPU, Knows(c), LoadBytes(c)
    PROVE  Knows(c)'
<1>1. /\ pc[c] = "bytes" /\ pc'[c] = "divide" /\ prio'[c] = prio[c] /\ arg'[c] = arg[c]
      /\ cnt'[c] = cnt[c] /\ this_avg'[c] = this_avg[c] /\ sum'[c] = bytes_cnt[prio[c]]
      /\ UNCHANGED <<bytes_cnt, flow_cnt>>
  BY DEF LoadBytes, Goto, QueueInv, TypeOK, table
<1>2. PICK a, k : a = arg[c] /\ k = prio[c]
  OBVIOUS
<1>3. Past(a, k)' /\ Avg(k - 1)' = Avg(k - 1)
  BY <1>1, <1>2, ClassesStay DEF Knows
<1>. QED BY <1>1, <1>2, <1>3 DEF Knows

LEMMA DivideKnows ==
    ASSUME QueueInv, NEW c \in CPU, Knows(c),
           NEW d \in {cnt[c], flow_cnt[prio[c]]}, Divide(c, d)
    PROVE  Knows(c)'
<1>. USE QueueAssumption
<1> DEFINE k == prio[c]
           a == arg[c]
           next_avg == sum[c] \div d
           rises == next_avg > this_avg[c]
           below == k > 0 /\ Fits(a, this_avg[c], next_avg)
<1>1. /\ pc[c] = "divide" /\ k \in Queues /\ arg'[c] = a
      /\ UNCHANGED <<bytes_cnt, flow_cnt>>
  BY DEF Divide, QueueInv, TypeOK, table
<1>2. /\ Past(a, k) /\ this_avg[c] = IF k = 0 THEN 0 ELSE Avg(k - 1)
      /\ next_avg = Avg(k) /\ flow_cnt[k] # 0
  <2>1. d = flow_cnt[k] /\ sum[c] = bytes_cnt[k] /\ flow_cnt[k] > 0
    BY <1>1 DEF Knows, QueueInv, NoZeroDivision
  <2>2. Past(a, k) /\ this_avg[c] = IF k = 0 THEN 0 ELSE Avg(k - 1)
    BY <1>1 DEF Knows
  <2>. QED BY <2>1, <2>2 DEF Avg
<1>3. Avg(k) \in Nat /\ this_avg[c] \in Nat
  <2>1. flow_cnt[k] > 0 /\ flow_cnt[k] \in Nat /\ bytes_cnt[k] \in Nat /\ this_avg[c] \in Nat
    BY <1>1 DEF QueueInv, NoZeroDivision, TypeOK
  <2>. QED BY <2>1, DivNat DEF Avg
<1>4. EndsClasses(k) <=> ~rises
  BY <1>2, <1>3 DEF EndsClasses
<1>5. k > 0 => this_avg[c] = Avg(k - 1)
  BY <1>2
<1>6. \/ /\ pc'[c] = "classified" /\ ~rises /\ prio'[c] = k
      \/ /\ pc'[c] = "classified" /\ rises /\ below /\ prio'[c] = k - 1
      \/ /\ pc'[c] = "classified" /\ rises /\ ~below /\ k = LastQueue /\ prio'[c] = k
      \/ /\ pc'[c] = "count" /\ rises /\ ~below /\ k # LastQueue /\ prio'[c] = k + 1
         /\ this_avg'[c] = next_avg
  <2>1. pc \in [CPU -> Labels] /\ prio \in [CPU -> Queues] /\ this_avg \in [CPU -> Nat]
    BY DEF QueueInv, TypeOK
  <2>2. \/ ~rises /\ Return(c, k)
        \/ rises /\ below /\ Return(c, k - 1)
        \/ rises /\ ~below /\ k = LastQueue /\ Return(c, k)
        \/ /\ rises /\ ~below /\ k # LastQueue
           /\ Goto(c, "count")
           /\ prio' = [prio EXCEPT ![c] = k + 1]
           /\ this_avg' = [this_avg EXCEPT ![c] = next_avg]
    BY DEF Divide
  <2>3. ASSUME NEW x, Return(c, x)
        PROVE  pc'[c] = "classified" /\ prio'[c] = x
    BY <2>1, <2>3 DEF Return, Goto
  <2>4. ASSUME Goto(c, "count"), prio' = [prio EXCEPT ![c] = k + 1],
               this_avg' = [this_avg EXCEPT ![c] = next_avg]
        PROVE  pc'[c] = "count" /\ prio'[c] = k + 1 /\ this_avg'[c] = next_avg
    BY <2>1, <2>4 DEF Goto
  <2>. HIDE DEF rises, below, k, next_avg
  <2>. QED BY <2>2, <2>3, <2>4
<1>. HIDE DEF next_avg
<1>7. CASE pc'[c] = "classified"
  <2>1. GetPriority(a) = prio'[c]
    <3>1. CASE ~rises
      BY <3>1, <1>1, <1>2, <1>4, <1>6, ClassAtEnd
    <3>2. CASE rises /\ below
      <4>1. k > 0 /\ Fits(a, Avg(k - 1), Avg(k)) /\ ~EndsClasses(k)
        BY <3>2, <1>2, <1>4, <1>5
      <4>2. GetPriority(a) = k - 1
        BY <4>1, <1>1, <1>2, ClassBelow
      <4>. QED BY <3>2, <4>2, <1>6, <1>7
    <3>3. CASE rises /\ ~below
      <4>1. k > 0 => ~Fits(a, Avg(k - 1), Avg(k))
        BY <3>3, <1>2, <1>5
      <4>2. k = LastQueue /\ prio'[c] = k
        BY <3>3, <1>6, <1>7
      <4>. QED BY <4>1, <4>2, <1>1, <1>2, ClassAtEnd
    <3>. QED BY <3>1, <3>2, <3>3
  <2>2. PICK x : x = a
    OBVIOUS
  <2>3. GetPriority(x)' = GetPriority(x)
    BY <1>1, ClassesStay
  <2>. HIDE DEF k, a, rises, below
  <2>4. GetPriority(arg[c])' = prio'[c]
    BY <2>1, <2>2, <2>3, <1>1
  <2>. QED BY <2>4, <1>7 DEF Knows
<1>8. CASE pc'[c] = "count"
  <2>1. rises /\ ~below /\ prio'[c] = k + 1 /\ this_avg'[c] = next_avg
    BY <1>6, <1>8
  <2>2. k \in Nat /\ ~EndsClasses(k) /\ (k > 0 => ~Fits(a, Avg(k - 1), Avg(k)))
    BY <2>1, <1>1, <1>2, <1>4, <1>5 DEF Queues
  <2>3. Past(a, k + 1)
    <3>1. \A r \in 0 .. (k + 1) - 1 : r \in 0 .. k - 1 \/ r = k
      BY <2>2
    <3>. QED BY <3>1, <2>2, <1>2 DEF Past
  <2>4. PICK x, y, z : x = a /\ y = k + 1 /\ z = k
    OBVIOUS
  <2>5. Past(x, y)' /\ Avg(z)' = Avg(z)
    BY <1>1, <2>3, <2>4, ClassesStay
  <2>6. y # 0 /\ y - 1 = z
    BY <2>2, <2>4
  <2>7. this_avg'[c] = Avg(z)
    BY <1>2, <2>1, <2>4
  <2>. HIDE DEF k, a, rises, below
  <2>8. Past(arg[c], prio[c])' /\ prio'[c] # 0 /\ this_avg'[c] = Avg(prio[c] - 1)'
    BY <1>1, <2>1, <2>4, <2>5, <2>6, <2>7
  <2>. QED BY <2>8, <1>8 DEF Knows
<1>. QED BY <1>6, <1>7, <1>8

\* A handler outside get_priority need not know anything.
LEMMA IdleKnows ==
    ASSUME NEW c \in CPU, pc'[c] \notin Reading
    PROVE  Knows(c)'
<1>1. pc'[c] # "count" /\ pc'[c] # "bytes" /\ pc'[c] # "divide" /\ pc'[c] # "classified"
  BY DEF Reading
<1>. QED BY <1>1 DEF Knows

\* Handler c has moved and changed no counter.
Quiet(c) ==
    /\ UNCHANGED <<bytes_cnt, flow_cnt>>
    /\ \A d \in CPU : d # c =>
          /\ pc'[d] = pc[d] /\ prio'[d] = prio[d] /\ arg'[d] = arg[d]
          /\ this_avg'[d] = this_avg[d] /\ cnt'[d] = cnt[d] /\ sum'[d] = sum[d]
          /\ stale'[d] = stale[d]

\* A statement that reads leaves what the others know,
LEMMA QuietStep ==
    ASSUME Undisturbed, NEW c \in CPU, Quiet(c), ~stale'[c] => Knows(c)'
    PROVE  Undisturbed'
<1>. SUFFICES ASSUME NEW d \in CPU, ~stale'[d] PROVE Knows(d)'
  BY DEF Undisturbed
<1>1. CASE d # c
  <2>1. ~stale[d]
    BY <1>1 DEF Quiet
  <2>2. Knows(d)
    BY <2>1 DEF Undisturbed
  <2>. QED BY <1>1, <2>2, KnowsStays DEF Quiet
<1>2. CASE d = c
  BY <1>2
<1>. QED BY <1>1, <1>2

\* and one that changes a counter marks all who read.
LEMMA DisturbStep ==
    ASSUME TypeOK, NEW c \in CPU, NEW l \in Updating, Goto(c, l), Disturb
    PROVE  Undisturbed'
<1>. SUFFICES ASSUME NEW d \in CPU, ~stale'[d] PROVE Knows(d)'
  BY DEF Undisturbed
<1>1. pc[d] \notin Reading
  BY DEF Disturb
<1>2. pc'[d] \notin Reading
  BY <1>1 DEF Goto, TypeOK, Reading, Updating
<1>. QED BY <1>2, IdleKnows

\* So no statement of any handler spoils what an undisturbed one knows.
LEMMA UndisturbedStep ==
    ASSUME QueueInv, Undisturbed, [Next]_vars
    PROVE  Undisturbed'
<1>. USE QueueAssumption
<1>0. TypeOK
  BY DEF QueueInv
<1>1. ASSUME NEW c \in CPU, NEW w \in Weights, NEW p \in Payloads, Start(c, w, p)
      PROVE  Undisturbed'
  <2>1. Quiet(c)
    BY <1>0, <1>1 DEF Start, Goto, Quiet, TypeOK, table
  <2>. QED BY <1>1, <2>1, StartKnows, QuietStep
<1>2. ASSUME NEW c \in CPU, CheckCount(c)
      PROVE  Undisturbed'
  <2>1. Quiet(c) /\ stale'[c] = stale[c]
    BY <1>0, <1>2 DEF CheckCount, Goto, Quiet, TypeOK, table
  <2>2. ~stale'[c] => Knows(c)'
    BY <1>2, <2>1, CheckKnows DEF Undisturbed
  <2>. QED BY <2>1, <2>2, QuietStep
<1>3. ASSUME NEW c \in CPU, LoadBytes(c)
      PROVE  Undisturbed'
  <2>1. Quiet(c) /\ stale'[c] = stale[c]
    BY <1>0, <1>3 DEF LoadBytes, Goto, Quiet, TypeOK, table
  <2>2. ~stale'[c] => Knows(c)'
    BY <1>3, <2>1, LoadKnows DEF Undisturbed
  <2>. QED BY <2>1, <2>2, QuietStep
<1>4. ASSUME NEW c \in CPU, NEW d \in {cnt[c], flow_cnt[prio[c]]}, Divide(c, d)
      PROVE  Undisturbed'
  <2>1. Quiet(c) /\ stale'[c] = stale[c]
    <3>1. /\ UNCHANGED <<table, arg, div_pkt, stale>> /\ Forget(c)
          /\ \A e \in CPU : e # c =>
                pc'[e] = pc[e] /\ prio'[e] = prio[e] /\ this_avg'[e] = this_avg[e]
      BY <1>0, <1>4 DEF Divide, Return, Goto, TypeOK
    <3>. QED BY <1>0, <3>1 DEF Forget, Quiet, TypeOK, table
  <2>2. ~stale'[c] => Knows(c)'
    BY <1>4, <2>1, DivideKnows DEF Undisturbed
  <2>. QED BY <2>1, <2>2, QuietStep
<1>5. ASSUME NEW c \in CPU, SkipSmall(c)
      PROVE  Undisturbed'
  <2>1. Quiet(c) /\ pc'[c] = "idle"
    BY <1>0, <1>5 DEF SkipSmall, Goto, Quiet, TypeOK, table
  <2>2. Knows(c)'
    BY <2>1, IdleKnows DEF Reading
  <2>. QED BY <2>1, <2>2, QuietStep
<1>6. ASSUME NEW c \in CPU, Lock(c)
      PROVE  Undisturbed'
  <2>1. Quiet(c) /\ pc'[c] = "addflows"
    BY <1>0, <1>6 DEF Lock, Goto, Quiet, TypeOK
  <2>2. Knows(c)'
    BY <2>1, IdleKnows DEF Reading
  <2>. QED BY <2>1, <2>2, QuietStep
<1>7. ASSUME NEW c \in CPU, AddFlows(c)
      PROVE  Undisturbed'
  BY <1>0, <1>7, DisturbStep DEF AddFlows, Updating
<1>8. ASSUME NEW c \in CPU, NEW w \in Weights, AddBytes(c, w)
      PROVE  Undisturbed'
  BY <1>0, <1>8, DisturbStep DEF AddBytes, Updating
<1>9. ASSUME NEW c \in CPU, AgeBytes(c)
      PROVE  Undisturbed'
  BY <1>0, <1>9, DisturbStep DEF AgeBytes, Updating
<1>10. ASSUME NEW c \in CPU, AgeFlows(c)
      PROVE  Undisturbed'
  BY <1>0, <1>10, DisturbStep DEF AgeFlows, Updating
<1>11. ASSUME NEW c \in CPU, Unlock(c)
      PROVE  Undisturbed'
  <2>1. Quiet(c) /\ pc'[c] = "idle"
    BY <1>0, <1>11 DEF Unlock, Goto, Quiet, TypeOK
  <2>2. Knows(c)'
    BY <2>1, IdleKnows DEF Reading
  <2>. QED BY <2>1, <2>2, QuietStep
<1>12. ASSUME UNCHANGED vars
      PROVE  Undisturbed'
  <2>. SUFFICES ASSUME NEW d \in CPU, ~stale'[d] PROVE Knows(d)'
    BY DEF Undisturbed
  <2>1. Knows(d)
    BY <1>12 DEF Undisturbed, vars
  <2>. QED BY <1>12, <2>1, KnowsStays DEF vars, table, local
<1>. QED
  BY <1>1, <1>2, <1>3, <1>4, <1>5, <1>6, <1>7, <1>8, <1>9, <1>10, <1>11, <1>12
     DEF Next, Arrive, Step

\* A handler that nobody disturbed has found the class of its weight (main.c:52-68):
\* the walk with one load per statement computes what the table at rest defines.
THEOREM WalkFindsClass == Spec => []UndisturbedIsExact
<1>1. Init => Undisturbed
  BY DEF Init, Undisturbed, Knows
<1>2. QueueInv /\ [Next]_vars => QueueInv'
  BY QueueInvStep
<1>3. QueueInv /\ Undisturbed /\ [Next]_vars => Undisturbed'
  BY UndisturbedStep
<1>4. Undisturbed => UndisturbedIsExact
  BY DEF Undisturbed, Knows, UndisturbedIsExact
<1>. QED BY InitQueueInv, <1>1, <1>2, <1>3, <1>4, PTL DEF Spec

==============================================================================
