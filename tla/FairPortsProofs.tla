--------------------------- MODULE FairPortsProofs ---------------------------
(***************************************************************************)
(* The ports for fair queuing, for any number of queues and flows.         *)
(*                                                                         *)
(* FQ_QC: its tables say what its queues hold, and its allowances ask for  *)
(* no more (FairInv).  FQ_Ideal: the walk from the head of the list meets  *)
(* each queue once (Listed), and only queues behind a waiting one have had *)
(* a turn since it came (InTurn).  FQ_AFQ: a packet is served no later     *)
(* than the round its count says (Ahead), so that the next packet of the   *)
(* message comes behind those before it, and packets that share a round    *)
(* share a slot (Ordered).                                                 *)
(***************************************************************************)
EXTENDS MCFairPorts, Arithmetic, FiniteSetTheorems, SequenceTheorems

------------------------------------------------------------------------------
(* FairQC: the lengths of the queues, which are folds                      *)

\* A set of numbers up to n has a largest one.
LEMMA MaxOf ==
    ASSUME NEW n \in Nat, NEW s \in SUBSET (1 .. n), s # {}
    PROVE  Max(s) \in s /\ \A y \in s : y <= Max(s)
<1> DEFINE T == {n - x : x \in s}
<1>1. T \in SUBSET Nat /\ T # {}
  <2>1. \A x \in s : x \in 1 .. n
    OBVIOUS
  <2>2. \A x \in s : n - x \in Nat
    BY <2>1
  <2>. QED BY <2>2
<1>2. PICK t \in T : \A u \in T : t <= u
  BY <1>1, LeastNat
<1>3. PICK x \in s : t = n - x
  BY <1>2
<1>4. \A y \in s : y <= x
  <2>. TAKE y \in s
  <2>1. t <= n - y
    BY <1>2
  <2>. QED BY <2>1, <1>3
<1>. QED BY <1>3, <1>4 DEF Max

\* An empty queue holds no bytes.
LEMMA NothingWeighsNothing == ByteLength(<<>>) = 0
<1> DEFINE Fix(g) == g = [s \in SUBSET {} |->
                            IF s = {} THEN 0
                            ELSE LET x == Max(s) IN g[s \ {x}] + <<>>[x].size]
<1>1. Fix([s \in SUBSET {} |-> 0])
  OBVIOUS
<1>2. \A g : Fix(g) => g[{}] = 0
  OBVIOUS
<1>3. ByteLength(<<>>) = (CHOOSE g : Fix(g))[{}]
  BY DEF ByteLength, FoldLeft, MapThenFoldSet, Max
<1>. QED BY <1>1, <1>2, <1>3

\* A port that holds bytes holds a packet.
LEMMA SomeQueueHolds ==
    ASSUME \A i \in Queues : q[i] = <<>>
    PROVE  TotalByteLength = 0
<1>. USE FairAssumption
<1> DEFINE seq == [i \in 1 .. NumQueues |-> i]
           Fix(g) == g = [s \in SUBSET (1 .. NumQueues) |->
                            IF s = {} THEN 0
                            ELSE LET x == Max(s)
                                 IN  g[s \ {x}] + ByteLength(q[seq[x] - 1])]
<1>1. TotalByteLength = (CHOOSE g : Fix(g))[1 .. NumQueues]
  BY DEF TotalByteLength, FoldLeft, MapThenFoldSet, Max
<1>2. \A x \in 1 .. NumQueues : ByteLength(q[seq[x] - 1]) = 0
  BY NothingWeighsNothing DEF Queues
<1>3. Fix([s \in SUBSET (1 .. NumQueues) |-> 0])
  <2> DEFINE z == [s \in SUBSET (1 .. NumQueues) |-> 0]
  <2>1. ASSUME NEW s \in SUBSET (1 .. NumQueues), s # {}
        PROVE  z[s \ {Max(s)}] + ByteLength(q[seq[Max(s)] - 1]) = 0
    <3>1. Max(s) \in s
      BY <2>1, MaxOf
    <3>2. ByteLength(q[seq[Max(s)] - 1]) = 0
      BY <3>1, <1>2
    <3>3. z[s \ {Max(s)}] = 0
      OBVIOUS
    <3>. QED BY <3>2, <3>3
  <2>. QED BY <2>1
<1>4. ASSUME NEW g, Fix(g)
      PROVE  g[1 .. NumQueues] = 0
  <2> DEFINE S == {k \in Nat : k <= NumQueues => g[1 .. k] = 0}
  <2>1. 0 \in S
    <3>1. 1 .. 0 = {}
      OBVIOUS
    <3>. QED BY <1>4, <3>1
  <2>2. ASSUME NEW k \in S, k + 1 <= NumQueues
        PROVE  g[1 .. k + 1] = 0
    <3>1. 1 .. k + 1 \in SUBSET (1 .. NumQueues) /\ 1 .. k + 1 # {}
      <4>1. \A y \in 1 .. k + 1 : y \in 1 .. NumQueues
        BY <2>2
      <4>2. 1 \in 1 .. k + 1
        BY <2>2
      <4>. QED BY <4>1, <4>2
    <3>2. Max(1 .. k + 1) = k + 1
      <4> DEFINE m == Max(1 .. k + 1)
      <4>1. m \in 1 .. k + 1 /\ \A y \in 1 .. k + 1 : y <= m
        BY <3>1, MaxOf
      <4>. HIDE DEF m
      <4>2. k + 1 \in 1 .. k + 1
        BY <2>2
      <4>3. m = k + 1
        BY <4>1, <4>2
      <4>. QED BY <4>3 DEF m
    <3>3. (1 .. k + 1) \ {k + 1} = 1 .. k
      OBVIOUS
    <3>4. g[1 .. k + 1] = g[1 .. k] + ByteLength(q[seq[k + 1] - 1])
      <4>1. g[1 .. k + 1] = LET x == Max(1 .. k + 1)
                            IN  g[(1 .. k + 1) \ {x}] + ByteLength(q[seq[x] - 1])
        BY <1>4, <3>1
      <4>. QED BY <4>1, <3>2, <3>3
    <3>5. ByteLength(q[seq[k + 1] - 1]) = 0 /\ g[1 .. k] = 0
      BY <2>2, <1>2
    <3>. QED BY <3>4, <3>5
  <2>. HIDE DEF Fix
  <2>3. S \in SUBSET Nat /\ \A k \in S : k + 1 \in S
    BY <2>2
  <2>. HIDE DEF S
  <2>4. NumQueues \in S
    BY <2>1, <2>3, SetInduction
  <2>. USE DEF S
  <2>. QED BY <2>4
<1>. HIDE DEF Fix
<1>. QED BY <1>1, <1>3, <1>4

------------------------------------------------------------------------------
(* FairQC: the queue of a packet and the flows in a queue                  *)

\* The thresholds of enque, which the recursion gives.
LEMMA ThresholdsAre ==
    ASSUME NEW i \in 0 .. NumQueues - 2
    PROVE  Qthres[i] = i + 1
<1>. USE FairAssumption
<1> DEFINE Fix(g) == g = [j \in 0 .. NumQueues - 2 |->
                            1 + (IF j > 0 THEN g[j - 1] ELSE 0)]
<1>1. Fix([j \in 0 .. NumQueues - 2 |-> j + 1])
  OBVIOUS
<1>2. Qthres = CHOOSE g : Fix(g)
  BY DEF Qthres
<1>3. Fix(Qthres)
  <2>. HIDE DEF Fix
  <2>. QED BY <1>1, <1>2
<1> DEFINE S == {k \in Nat : k <= NumQueues - 2 => Qthres[k] = k + 1}
<1>4. 0 \in S
  BY <1>3
<1>5. ASSUME NEW k \in S PROVE k + 1 \in S
  <2>. SUFFICES ASSUME k + 1 <= NumQueues - 2 PROVE Qthres[k + 1] = k + 2
    OBVIOUS
  <2>1. k \in Nat /\ k + 1 \in 0 .. NumQueues - 2 /\ Qthres[k] = k + 1
    OBVIOUS
  <2>2. Qthres[k + 1] = 1 + Qthres[k]
    BY <2>1, <1>3
  <2>. QED BY <2>1, <2>2
<1>6. S \in SUBSET Nat /\ i \in Nat
  OBVIOUS
<1>. HIDE DEF S
<1>7. i \in S
  BY <1>4, <1>5, <1>6, SetInduction
<1>. QED BY <1>7 DEF S

\* Every packet has a queue.
LEMMA QueueForExists ==
    ASSUME NEW p \in Nat
    PROVE  QueueFor(p) \in Queues
<1>. USE FairAssumption
<1> DEFINE S == {i \in Queues : i = NumQueues - 1 \/ p <= Qthres[i] + 1}
<1>1. S \in SUBSET Nat /\ NumQueues - 1 \in S
  BY DEF Queues
<1>2. PICK i \in S : \A j \in S : i <= j
  BY <1>1, LeastNat
<1>3. ASSUME NEW j \in 0 .. i - 1
      PROVE  p > Qthres[j] + 1
  <2>1. j \in Queues /\ j # NumQueues - 1 /\ j < i /\ j \in 0 .. NumQueues - 2
    BY DEF Queues
  <2>2. j \notin S
    BY <1>2, <2>1
  <2>3. Qthres[j] = j + 1
    BY <2>1, ThresholdsAre
  <2>. QED BY <2>1, <2>2, <2>3
<1>4. i \in Queues /\ (i = NumQueues - 1 \/ p <= Qthres[i] + 1)
  OBVIOUS
<1>. QED BY <1>3, <1>4 DEF QueueFor

\* The places of a flow's packets in a queue.
Positions(s, f) == {k \in DOMAIN s : s[k].flow = f}

\* They are finitely many.
LEMMA PositionsFinite ==
    ASSUME NEW s \in Seq(Packet), NEW f
    PROVE  /\ IsFiniteSet(Positions(s, f))
           /\ Cardinality(Positions(s, f)) \in Nat
<1>1. Len(s) \in Nat /\ DOMAIN s = 1 .. Len(s)
  BY LenProperties
<1>2. IsFiniteSet(1 .. Len(s))
  BY <1>1, FS_Interval
<1>3. Positions(s, f) \in SUBSET (1 .. Len(s))
  BY <1>1 DEF Positions
<1>4. IsFiniteSet(Positions(s, f))
  BY <1>2, <1>3, FS_Subset
<1>. QED BY <1>4, FS_CardinalityType

\* A packet that joins a queue is one more of its flow.
LEMMA PositionsAppend ==
    ASSUME NEW s \in Seq(Packet), NEW p \in Packet, NEW f
    PROVE  Cardinality(Positions(Append(s, p), f)) =
             Cardinality(Positions(s, f)) + (IF p.flow = f THEN 1 ELSE 0)
<1> DEFINE n == Len(s)
           t == Append(s, p)
<1>1. n \in Nat /\ DOMAIN s = 1 .. n
  BY LenProperties
<1>2. /\ DOMAIN t = 1 .. n + 1
      /\ \A k \in 1 .. n : t[k] = s[k]
      /\ t[n + 1] = p
  BY AppendProperties, LenProperties
<1>3. n + 1 \notin Positions(s, f)
  BY <1>1 DEF Positions
<1>4. IsFiniteSet(Positions(s, f)) /\ Cardinality(Positions(s, f)) \in Nat
  BY PositionsFinite
<1>. HIDE DEF n, t
<1>5. CASE p.flow = f
  <2>1. Positions(t, f) = Positions(s, f) \cup {n + 1}
    BY <1>1, <1>2, <1>5 DEF Positions
  <2>. QED BY <2>1, <1>3, <1>4, <1>5, FS_AddElement DEF t
<1>6. CASE p.flow # f
  <2>1. Positions(t, f) = Positions(s, f)
    BY <1>1, <1>2, <1>6 DEF Positions
  <2>. QED BY <2>1, <1>4, <1>6 DEF t
<1>. QED BY <1>5, <1>6

\* A packet that leaves is one less.
LEMMA PositionsTail ==
    ASSUME NEW s \in Seq(Packet), s # <<>>, NEW f
    PROVE  Cardinality(Positions(s, f)) =
             Cardinality(Positions(Tail(s), f)) + (IF Head(s).flow = f THEN 1 ELSE 0)
<1> DEFINE n == Len(s)
           t == Tail(s)
<1>1. n \in Nat \ {0} /\ DOMAIN s = 1 .. n /\ Head(s) = s[1]
  BY LenProperties, EmptySeq
<1>2. t \in Seq(Packet) /\ DOMAIN t = 1 .. n - 1 /\ \A k \in 1 .. n - 1 : t[k] = s[k + 1]
  BY HeadTailProperties, LenProperties
<1>. HIDE DEF n, t
<1> DEFINE S == Positions(t, f)
           T == Positions(s, f) \ {1}
           g == [k \in S |-> k + 1]
<1>3. IsFiniteSet(S) /\ IsFiniteSet(Positions(s, f))
      /\ Cardinality(Positions(s, f)) \in Nat /\ Cardinality(S) \in Nat
  BY <1>2, PositionsFinite
<1>4. \A k \in S : k \in 1 .. n - 1 /\ s[k + 1].flow = f
  BY <1>2 DEF Positions
<1>5. \A k \in S : k + 1 \in T
  BY <1>1, <1>4 DEF Positions
<1>6. ASSUME NEW l \in T PROVE l - 1 \in S /\ g[l - 1] = l
  <2>1. l \in 2 .. n /\ s[l].flow = f
    BY <1>1 DEF Positions
  <2>2. l - 1 \in 1 .. n - 1 /\ (l - 1) + 1 = l
    BY <2>1, <1>1
  <2>. QED BY <2>1, <2>2, <1>2 DEF Positions
<1>7. g \in Bijection(S, T)
  <2>1. g \in [S -> T]
    BY <1>5
  <2>2. \A a, b \in S : g[a] = g[b] => a = b
    BY <1>4
  <2>. HIDE DEF g, S, T
  <2>. QED BY <2>1, <2>2, <1>6 DEF Bijection, Injection, Surjection, IsInjective
<1>8. Cardinality(T) = Cardinality(S)
  BY <1>3, <1>7, FS_Bijection DEF ExistsBijection
<1>9. Cardinality(T) = IF 1 \in Positions(s, f) THEN Cardinality(Positions(s, f)) - 1
                       ELSE Cardinality(Positions(s, f))
  BY <1>3, FS_RemoveElement
<1>10. 1 \in Positions(s, f) <=> Head(s).flow = f
  BY <1>1 DEF Positions
<1>. HIDE DEF S, T, g
<1>11. Cardinality(Positions(s, f)) = Cardinality(S) + (IF Head(s).flow = f THEN 1 ELSE 0)
  BY <1>3, <1>8, <1>9, <1>10
<1>. QED BY <1>11 DEF S, t

\* A queue has no more flows than packets, and one at least if it has packets.
LEMMA FlowsFit ==
    ASSUME NEW s \in Seq(Packet), NEW c \in [Flow -> Nat],
           \A f \in Flow : c[f] = Cardinality(Positions(s, f))
    PROVE  LET T == {f \in Flow : c[f] > 0}
           IN  /\ Cardinality(T) \in Nat /\ Cardinality(T) <= Len(s)
               /\ s # <<>> => Cardinality(T) > 0
<1> DEFINE n == Len(s)
           T == {f \in Flow : c[f] > 0}
           g == [k \in 1 .. n |-> s[k].flow]
<1>1. n \in Nat /\ DOMAIN s = 1 .. n /\ \A k \in 1 .. n : s[k] \in Packet
  BY LenProperties, ElementOfSeq
<1>2. \A f \in Flow : f \in T <=> Positions(s, f) # {}
  BY PositionsFinite, FS_EmptySet
<1>3. \A k \in 1 .. n : g[k] \in T
  <2>. TAKE k \in 1 .. n
  <2>1. s[k].flow \in Flow /\ k \in Positions(s, s[k].flow)
    BY <1>1 DEF Packet, Positions
  <2>. QED BY <2>1, <1>2
<1>4. \A f \in T : \E k \in 1 .. n : g[k] = f
  BY <1>1, <1>2 DEF Positions
<1>5. g \in Surjection(1 .. n, T)
  BY <1>3, <1>4 DEF Surjection
<1>6. IsFiniteSet(1 .. n) /\ Cardinality(1 .. n) = n
  BY <1>1, FS_Interval
<1>7. IsFiniteSet(T) /\ Cardinality(T) <= n
  BY <1>5, <1>6, FS_Surjection
<1>8. Cardinality(T) \in Nat
  BY <1>7, FS_CardinalityType
<1>9. ASSUME s # <<>> PROVE Cardinality(T) > 0
  <2>1. 1 \in 1 .. n
    BY <1>1, <1>9, EmptySeq
  <2>2. T # {}
    BY <2>1, <1>3
  <2>3. Cardinality(T) # 0
    BY <2>2, <1>7, FS_EmptySet
  <2>. QED BY <2>3, <1>8
<1>. QED BY <1>7, <1>8, <1>9

------------------------------------------------------------------------------
(* FairQC: its invariant                                                   *)

\* What holds in FQ_QC between two calls.
FairInv == TypeOK /\ FlowsAreContents /\ RoundFits

\* The allowances in force ask no queue for more than it holds.
LEMMA RoundServes ==
    ASSUME FairInv
    PROVE  /\ Round \in [Queues -> Nat]
           /\ \A i \in Queues : Round[i] <= Len(q[i])
<1>1. ASSUME NEW i \in Queues
      PROVE  /\ FlowsIn(i) \in Nat /\ FlowsIn(i) <= Len(q[i])
             /\ rr_times[i] \in Nat /\ rr_times[i] <= Len(q[i])
  <2>1. q[i] \in Seq(Packet) /\ current_flow[i] \in [Flow -> Nat]
    BY DEF FairInv, TypeOK
  <2>2. \A f \in Flow : current_flow[i][f] = Cardinality(Positions(q[i], f))
    BY DEF FairInv, FlowsAreContents, PacketsOf, Positions
  <2>3. FlowsIn(i) \in Nat /\ FlowsIn(i) <= Len(q[i])
    BY <2>1, <2>2, FlowsFit DEF FlowsIn
  <2>. QED BY <2>3 DEF FairInv, TypeOK, RoundFits
<1>2. rr_times \in [Queues -> Nat]
  BY DEF FairInv, TypeOK
<1>. QED BY <1>1, <1>2 DEF Round

\* The port begins empty.
LEMMA FairInit == Init => FairInv
<1>. SUFFICES ASSUME Init PROVE FairInv
  OBVIOUS
<1>. USE FairAssumption
<1>1. TypeOK
  BY EmptySeq DEF Init, TypeOK, Queues
<1>2. ASSUME NEW i \in Queues, NEW f \in Flow
      PROVE  current_flow[i][f] = Cardinality(PacketsOf(f, i)) /\ rr_times[i] <= Len(q[i])
  <2>1. q[i] = <<>> /\ DOMAIN q[i] = {} /\ current_flow[i][f] = 0 /\ rr_times[i] = 0
    BY EmptySeq DEF Init
  <2>2. PacketsOf(f, i) = {}
    BY <2>1 DEF PacketsOf
  <2>. QED BY <2>1, <2>2, FS_EmptySet, EmptySeq
<1>3. \A i \in Queues : rr_times[i] <= Len(q[i])
  BY EmptySeq DEF Init
<1>. QED BY <1>1, <1>2, <1>3 DEF FairInv, FlowsAreContents, RoundFits

\* A packet that comes keeps the invariant.
LEMMA FairEnque ==
    ASSUME FairInv, NEW f \in Flow, NEW m \in Message, NEW size \in Sizes,
           NEW ect \in BOOLEAN, Enque(f, m, size, ect)
    PROVE  FairInv'
<1>. USE FairAssumption
<1> DEFINE i == QueueFor(Count(f, m))
           p == [flow |-> f, size |-> size, ce |-> ect /\ TotalByteLength + size > MarkAbove]
<1>1. Count(f, m) \in 0 .. MaxCount
  BY DEF Count, FairInv, TypeOK
<1>2. i \in Queues
  BY <1>1, QueueForExists
<1>3. p \in Packet
  BY DEF Packet
<1>4. /\ q' = [q EXCEPT ![i] = Append(@, p)]
      /\ current_flow' = [current_flow EXCEPT ![i][f] = @ + 1]
      /\ rr_times' = rr_times
  BY DEF Enque
<1>5. flow_count' \in [Flow -> 0 .. MaxCount] /\ message_id' \in [Flow -> Message \cup {NoMessage}]
  <2>1. flow_count \in [Flow -> 0 .. MaxCount] /\ message_id \in [Flow -> Message \cup {NoMessage}]
    BY DEF FairInv, TypeOK
  <2>2. CASE NumQueues > 1
    <3>1. /\ flow_count' = [flow_count EXCEPT ![f] =
                 IF Count(f, m) < MaxCount THEN Count(f, m) + 1 ELSE MaxCount]
          /\ message_id' = [message_id EXCEPT ![f] = m]
      BY <2>2 DEF Enque
    <3>2. (IF Count(f, m) < MaxCount THEN Count(f, m) + 1 ELSE MaxCount) \in 0 .. MaxCount
      BY <1>1
    <3>. QED BY <2>1, <3>1, <3>2
  <2>3. CASE ~(NumQueues > 1)
    BY <2>1, <2>3 DEF Enque
  <2>. QED BY <2>2, <2>3
<1>. HIDE DEF i, p
<1>6. ASSUME NEW j \in Queues
      PROVE  /\ q[j] \in Seq(Packet) /\ Len(q[j]) \in Nat
             /\ rr_times[j] \in Nat /\ rr_times[j] <= Len(q[j])
             /\ current_flow[j] \in [Flow -> Nat]
             /\ \A g \in Flow : current_flow[j][g] = Cardinality(Positions(q[j], g))
  BY LenProperties DEF FairInv, TypeOK, RoundFits, FlowsAreContents, PacketsOf, Positions
<1>7. q \in [Queues -> Seq(Packet)] /\ current_flow \in [Queues -> [Flow -> Nat]]
      /\ rr_times \in [Queues -> Nat]
  BY DEF FairInv, TypeOK
<1>8. Append(q[i], p) \in Seq(Packet) /\ Len(Append(q[i], p)) = Len(q[i]) + 1
  BY <1>2, <1>3, <1>6, AppendProperties
<1>9. TypeOK'
  <2>1. q' \in [Queues -> Seq(Packet)]
    BY <1>2, <1>4, <1>7, <1>8
  <2>2. [current_flow[i] EXCEPT ![f] = @ + 1] \in [Flow -> Nat]
    BY <1>2, <1>6
  <2>3. current_flow' \in [Queues -> [Flow -> Nat]]
    BY <1>2, <1>4, <1>7, <2>2
  <2>. QED BY <2>1, <2>3, <1>4, <1>5, <1>7 DEF TypeOK, Queues
<1>10. ASSUME NEW j \in Queues, NEW g \in Flow
       PROVE  current_flow'[j][g] = Cardinality(Positions(q'[j], g))
  <2>1. CASE j = i
    <3>1. q'[j] = Append(q[i], p) /\ p.flow = f
      BY <1>4, <1>7, <2>1 DEF p
    <3>2. current_flow'[j][g] = current_flow[i][g] + (IF f = g THEN 1 ELSE 0)
      BY <1>4, <1>7, <1>6, <2>1
    <3>3. Cardinality(Positions(Append(q[i], p), g)) =
             Cardinality(Positions(q[i], g)) + (IF p.flow = g THEN 1 ELSE 0)
      BY <1>2, <1>3, <1>6, PositionsAppend
    <3>. QED BY <3>1, <3>2, <3>3, <1>6, <1>2
  <2>2. CASE j # i
    BY <2>2, <1>4, <1>6, <1>7
  <2>. QED BY <2>1, <2>2
<1>11. FlowsAreContents'
  BY <1>10 DEF FlowsAreContents, PacketsOf, Positions, Queues
<1>12. ASSUME NEW j \in Queues PROVE rr_times'[j] <= Len(q'[j])
  BY <1>2, <1>4, <1>6, <1>7, <1>8
<1>13. RoundFits'
  BY <1>12 DEF RoundFits, Queues
<1>. QED BY <1>9, <1>11, <1>13 DEF FairInv

\* A packet that leaves keeps it.
LEMMA FairDeque ==
    ASSUME FairInv, NEW i \in Queues, Deque(i)
    PROVE  FairInv'
<1>. USE FairAssumption
<1> DEFINE f == Head(q[i]).flow
<1>1. /\ q' = [q EXCEPT ![i] = Tail(@)]
      /\ current_flow' = [current_flow EXCEPT ![i][f] = @ - 1]
      /\ rr_times' = [Round EXCEPT ![i] = @ - 1]
      /\ Round[i] # 0
      /\ UNCHANGED <<message_id, flow_count>>
  BY DEF Deque, Serves
<1>2. ASSUME NEW j \in Queues
      PROVE  /\ q[j] \in Seq(Packet) /\ Len(q[j]) \in Nat
             /\ current_flow[j] \in [Flow -> Nat]
             /\ \A g \in Flow : current_flow[j][g] = Cardinality(Positions(q[j], g))
  BY LenProperties DEF FairInv, TypeOK, FlowsAreContents, PacketsOf, Positions
<1>3. q \in [Queues -> Seq(Packet)] /\ current_flow \in [Queues -> [Flow -> Nat]]
  BY DEF FairInv, TypeOK
<1>4. Round \in [Queues -> Nat] /\ \A j \in Queues : Round[j] <= Len(q[j])
  BY RoundServes
<1>5. q[i] # <<>> /\ Round[i] - 1 \in Nat
  BY <1>1, <1>2, <1>4, EmptySeq
<1>6. Tail(q[i]) \in Seq(Packet) /\ Len(Tail(q[i])) = Len(q[i]) - 1
  BY <1>2, <1>5, HeadTailProperties
<1>7. f \in Flow
  <2>1. Head(q[i]) \in Packet
    BY <1>2, <1>5, HeadTailProperties
  <2>. QED BY <2>1 DEF Packet
<1>. HIDE DEF f
<1>8. ASSUME NEW j \in Queues, NEW g \in Flow
      PROVE  /\ current_flow'[j][g] = Cardinality(Positions(q'[j], g))
             /\ current_flow'[j][g] \in Nat
  <2>1. CASE j = i
    <3>1. q'[j] = Tail(q[i])
      BY <1>1, <1>3, <2>1
    <3>2. current_flow'[j][g] = current_flow[i][g] - (IF f = g THEN 1 ELSE 0)
      BY <1>1, <1>2, <1>3, <2>1
    <3>3. Cardinality(Positions(q[i], g)) =
             Cardinality(Positions(Tail(q[i]), g)) + (IF f = g THEN 1 ELSE 0)
      BY <1>2, <1>5, PositionsTail DEF f
    <3>4. Cardinality(Positions(Tail(q[i]), g)) \in Nat
      BY <1>6, PositionsFinite
    <3>. QED BY <3>1, <3>2, <3>3, <3>4, <1>2
  <2>2. CASE j # i
    BY <2>2, <1>1, <1>2, <1>3
  <2>. QED BY <2>1, <2>2
<1>9. TypeOK'
  <2>1. q' \in [Queues -> Seq(Packet)] /\ rr_times' \in [Queues -> Nat]
    BY <1>1, <1>3, <1>4, <1>5, <1>6
  <2>2. \A j \in Queues : current_flow'[j] = [g \in Flow |-> current_flow'[j][g]]
    BY <1>1, <1>2, <1>3
  <2>3. current_flow' \in [Queues -> [Flow -> Nat]]
    BY <2>2, <1>1, <1>3, <1>8
  <2>. QED BY <2>1, <2>3, <1>1 DEF FairInv, TypeOK, Queues
<1>10. FlowsAreContents'
  BY <1>8 DEF FlowsAreContents, PacketsOf, Positions, Queues
<1>11. ASSUME NEW j \in Queues PROVE rr_times'[j] <= Len(q'[j])
  BY <1>1, <1>2, <1>3, <1>4, <1>6
<1>12. RoundFits'
  BY <1>11 DEF RoundFits, Queues
<1>. QED BY <1>9, <1>10, <1>12 DEF FairInv

\* A port that holds a packet has a queue to serve.
LEMMA FairServes == FairInv => WorkConserving
<1>. SUFFICES ASSUME FairInv, TotalByteLength > 0
              PROVE  \E i \in Queues : Serves(i)
  BY DEF WorkConserving
<1>1. PICK i \in Queues : q[i] # <<>>
  BY SomeQueueHolds
<1>2. FlowsIn(i) > 0
  <2>1. q[i] \in Seq(Packet) /\ current_flow[i] \in [Flow -> Nat]
    BY DEF FairInv, TypeOK
  <2>2. \A f \in Flow : current_flow[i][f] = Cardinality(Positions(q[i], f))
    BY DEF FairInv, FlowsAreContents, PacketsOf, Positions
  <2>. QED BY <2>1, <2>2, <1>1, FlowsFit DEF FlowsIn
<1>3. \E j \in Queues : Round[j] # 0
  <2>1. CASE \E j \in Queues : rr_times[j] # 0
    BY <2>1 DEF Round
  <2>2. CASE ~\E j \in Queues : rr_times[j] # 0
    BY <2>2, <1>2 DEF Round
  <2>. QED BY <2>1, <2>2
<1> DEFINE S == {j \in Queues : Round[j] # 0}
<1>4. S \in SUBSET Nat /\ S # {}
  BY <1>3, FairAssumption DEF Queues
<1>5. PICK j \in S : \A k \in S : j <= k
  BY <1>4, LeastNat
<1>6. ASSUME NEW k \in 0 .. j - 1 PROVE Round[k] = 0
  <2>1. k \in Queues /\ k < j
    BY FairAssumption DEF Queues
  <2>. QED BY <2>1, <1>4, <1>5
<1>. QED BY <1>5, <1>6 DEF Serves

------------------------------------------------------------------------------
(* IdealFQ: the walk                                                       *)

\* What is assumed of the constants.
LEMMA IdealConstants ==
    /\ NumQueues \in Nat \ {0} /\ Queues = 0 .. NumQueues - 1
    /\ \A m \in DOMAIN Hash : Hash[m] \in Queues
    /\ ListHead \notin Node
BY PortsAssumption, FairAssumption DEF Ideal!IdealAssumption, Queues

\* g is a walk of n links nx.
WalkTo(g, nx, n) == g = [k \in 0 .. n |-> IF k = 0 THEN ListHead ELSE nx[g[k - 1]]]

\* The walk along the links nx.
WalkOf(nx) == CHOOSE g : WalkTo(g, nx, NumQueues)

\* A walk can be as long as it likes.
LEMMA WalksExist == ASSUME NEW nx PROVE \A n \in Nat : \E g : WalkTo(g, nx, n)
<1> DEFINE S == {n \in Nat : \E g : WalkTo(g, nx, n)}
<1>1. 0 \in S
  <2>1. WalkTo([k \in 0 .. 0 |-> ListHead], nx, 0)
    BY DEF WalkTo
  <2>. QED BY <2>1
<1>2. ASSUME NEW n \in S PROVE n + 1 \in S
  <2>1. n \in Nat
    OBVIOUS
  <2>2. PICK g : WalkTo(g, nx, n)
    OBVIOUS
  <2> DEFINE h == [k \in 0 .. n + 1 |-> IF k <= n THEN g[k] ELSE nx[g[n]]]
  <2>3. ASSUME NEW k \in 0 .. n + 1
        PROVE  h[k] = IF k = 0 THEN ListHead ELSE nx[h[k - 1]]
    <3>1. CASE k = 0
      BY <2>1, <2>2, <3>1 DEF WalkTo
    <3>2. CASE k \in 1 .. n
      <4>1. k \in 0 .. n /\ k # 0 /\ k - 1 \in 0 .. n
        BY <2>1, <3>2
      <4>2. g[k] = nx[g[k - 1]]
        BY <2>2, <4>1 DEF WalkTo
      <4>. QED BY <4>1, <4>2, <2>1
    <3>3. CASE k = n + 1
      BY <2>1, <3>3
    <3>. QED BY <2>1, <3>1, <3>2, <3>3
  <2>4. WalkTo(h, nx, n + 1)
    BY <2>3 DEF WalkTo
  <2>. QED BY <2>1, <2>4
<1>3. S \in SUBSET Nat
  OBVIOUS
<1>. HIDE DEF S
<1>4. \A n \in Nat : n \in S
  BY <1>1, <1>2, <1>3, SetInduction
<1>. QED BY <1>4 DEF S

\* The walk starts at the head and follows the links.
LEMMA WalkSteps ==
    ASSUME NEW nx
    PROVE  /\ WalkOf(nx)[0] = ListHead
           /\ \A k \in 1 .. NumQueues : WalkOf(nx)[k] = nx[WalkOf(nx)[k - 1]]
<1>1. NumQueues \in Nat
  BY IdealConstants
<1>2. WalkTo(WalkOf(nx), nx, NumQueues)
  BY <1>1, WalksExist DEF WalkOf
<1>3. 0 \in 0 .. NumQueues /\ \A k \in 1 .. NumQueues : k \in 0 .. NumQueues /\ k # 0
  BY <1>1
<1>. QED BY <1>2, <1>3 DEF WalkTo

\* Nothing else does.
LEMMA WalkUnique ==
    ASSUME NEW nx, NEW g, g[0] = ListHead, \A k \in 1 .. NumQueues : g[k] = nx[g[k - 1]]
    PROVE  \A k \in 0 .. NumQueues : WalkOf(nx)[k] = g[k]
<1> DEFINE S == {k \in Nat : k <= NumQueues => WalkOf(nx)[k] = g[k]}
<1>1. 0 \in S
  BY WalkSteps
<1>2. ASSUME NEW k \in S PROVE k + 1 \in S
  <2>. SUFFICES ASSUME k + 1 <= NumQueues PROVE WalkOf(nx)[k + 1] = g[k + 1]
    OBVIOUS
  <2>1. k + 1 \in 1 .. NumQueues /\ (k + 1) - 1 = k /\ WalkOf(nx)[k] = g[k]
    BY IdealConstants
  <2>. QED BY <2>1, WalkSteps
<1>3. S \in SUBSET Nat
  OBVIOUS
<1>. HIDE DEF S
<1>4. \A k \in Nat : k \in S
  BY <1>1, <1>2, <1>3, SetInduction
<1>. QED BY <1>4, IdealConstants DEF S

\* The walk of deque is this one, before and after a step.
LEMMA WalkIs ==
    /\ Ideal!Walk = WalkOf(next)
    /\ Ideal!Walk' = WalkOf(next')
BY DEF Ideal!Walk, WalkOf, WalkTo

------------------------------------------------------------------------------
(* IdealFQ: its invariant                                                  *)

\* W is a list of one node for each queue, and ends at the tail t.
Listed(W, d, t) ==
    /\ W[0] = ListHead /\ W[NumQueues] = t
    /\ \A k \in 1 .. NumQueues : W[k] \in Node
    /\ \A k, l \in 1 .. NumQueues : d[W[k]] = d[W[l]] => k = l
    /\ \A i \in Queues : \E k \in 1 .. NumQueues : d[W[k]] = i

\* While a queue waits, only queues behind it have had their turn, and one only.
InTurn(W, d, Q, T) ==
    /\ \A i, j \in Queues : Q[i] = <<>> => T[i][j] = 0
    /\ \A k, l \in 1 .. NumQueues :
          LET n == T[d[W[k]]][d[W[l]]] IN n <= 1 /\ (n = 1 => k < l)

\* What holds in FQ_Ideal between two calls.
IdealInv ==
    /\ Ideal!TypeOK
    /\ Listed(WalkOf(next), qid, tail)
    /\ InTurn(WalkOf(next), qid, q, turns)

\* It says what the run checks.
LEMMA IdealChecked == IdealInv => Ideal!ListIsPermutation /\ Ideal!FairTurn
<1>. SUFFICES ASSUME IdealInv PROVE Ideal!ListIsPermutation /\ Ideal!FairTurn
  OBVIOUS
<1>. USE IdealConstants
<1>1. Ideal!ListIsPermutation
  BY WalkIs DEF IdealInv, Listed, Ideal!ListIsPermutation, Ideal!Queues
<1>2. ASSUME NEW i \in Queues, NEW j \in Queues
      PROVE  turns[i][j] <= 1
  <2>1. PICK k \in 1 .. NumQueues : qid[WalkOf(next)[k]] = i
    BY DEF IdealInv, Listed
  <2>2. PICK l \in 1 .. NumQueues : qid[WalkOf(next)[l]] = j
    BY DEF IdealInv, Listed
  <2>. QED BY <2>1, <2>2 DEF IdealInv, InTurn
<1>. QED BY <1>1, <1>2 DEF Ideal!FairTurn, Ideal!Queues

\* The constructor links the queues in the order of their numbers.
LEMMA IdealInit == Ideal!Init => IdealInv
<1>. SUFFICES ASSUME Ideal!Init PROVE IdealInv
  OBVIOUS
<1>. USE IdealConstants
<1>1. PICK s \in [Queues -> Node] :
         /\ next \in [Node \cup {ListHead} -> Node]
         /\ next[ListHead] = s[0]
         /\ \A i \in 1 .. NumQueues - 1 : next[s[i - 1]] = s[i]
         /\ qid \in [Node -> Queues]
         /\ \A i \in Queues : qid[s[i]] = i
         /\ tail = s[NumQueues - 1]
  BY DEF Ideal!Init, Ideal!Queues
<1>2. q = [i \in Queues |-> <<>>] /\ turns = [i \in Queues |-> [j \in Queues |-> 0]]
  BY DEF Ideal!Init, Ideal!Queues
<1>3. Ideal!TypeOK
  <2>1. tail \in Node
    BY <1>1
  <2>2. turns \in [Queues -> [Queues -> Nat]] /\ q \in [Queues -> Seq(Ideal!Packet)]
    BY <1>2
  <2>. QED BY <1>1, <2>1, <2>2 DEF Ideal!TypeOK, Ideal!Queues
<1> DEFINE g == [k \in 0 .. NumQueues |-> IF k = 0 THEN ListHead ELSE s[k - 1]]
           W == WalkOf(next)
<1>4. \A k \in 1 .. NumQueues : g[k] = next[g[k - 1]]
  <2>. TAKE k \in 1 .. NumQueues
  <2>1. CASE k = 1
    BY <2>1, <1>1
  <2>2. CASE k # 1
    <3>1. k - 1 \in 1 .. NumQueues - 1 /\ k - 1 \in 0 .. NumQueues /\ k - 1 # 0
          /\ k \in 0 .. NumQueues
      BY <2>2
    <3>2. g[k] = s[k - 1] /\ g[k - 1] = s[(k - 1) - 1]
      BY <3>1
    <3>. QED BY <1>1, <3>1, <3>2
  <2>. QED BY <2>1, <2>2
<1>5. g[0] = ListHead
  OBVIOUS
<1>. HIDE DEF g
<1>6. \A k \in 0 .. NumQueues : W[k] = g[k]
  BY <1>4, <1>5, WalkUnique
<1>7. \A k \in 1 .. NumQueues : W[k] = s[k - 1] /\ k - 1 \in Queues
  BY <1>6 DEF g
<1>8. \A k \in 1 .. NumQueues : W[k] \in Node /\ qid[W[k]] = k - 1
  BY <1>1, <1>7
<1>9. W[0] = ListHead /\ W[NumQueues] = tail
  BY <1>1, <1>7, WalkSteps
<1>10. \A i \in Queues : i + 1 \in 1 .. NumQueues /\ qid[W[i + 1]] = i
  <2>. TAKE i \in Queues
  <2>1. i + 1 \in 1 .. NumQueues /\ (i + 1) - 1 = i
    OBVIOUS
  <2>. QED BY <2>1, <1>8
<1>. HIDE DEF W
<1>11. Listed(W, qid, tail)
  <2>1. \A k, l \in 1 .. NumQueues : qid[W[k]] = qid[W[l]] => k = l
    <3>. TAKE k, l \in 1 .. NumQueues
    <3>. QED BY <1>8
  <2>. QED BY <1>8, <1>9, <1>10, <2>1 DEF Listed
<1>12. InTurn(W, qid, q, turns)
  <2>1. \A i, j \in Queues : turns[i][j] = 0
    BY <1>2
  <2>2. \A k \in 1 .. NumQueues : qid[W[k]] \in Queues
    BY <1>7, <1>8
  <2>. QED BY <2>1, <2>2 DEF InTurn
<1>. QED BY <1>3, <1>11, <1>12 DEF IdealInv, W

\* A packet that comes moves no queue; a queue that had none has seen no turn.
LEMMA IdealEnque ==
    ASSUME IdealInv, NEW m \in DOMAIN Hash, Ideal!Enque(m)
    PROVE  IdealInv'
<1>. USE IdealConstants
<1> DEFINE p == [message |-> m, ce |-> Ideal!TotalLength + 1 > MarkAbove]
<1>1. q' = [q EXCEPT ![Hash[m]] = Append(@, p)] /\ UNCHANGED <<next, qid, tail, turns>>
  BY DEF Ideal!Enque
<1>2. q \in [Queues -> Seq(Ideal!Packet)] /\ p \in Ideal!Packet
  <2>1. q \in [Queues -> Seq(Ideal!Packet)]
    BY DEF IdealInv, Ideal!TypeOK, Ideal!Queues
  <2>2. p \in Ideal!Packet
    BY DEF Ideal!Packet
  <2>. QED BY <2>1, <2>2
<1>. HIDE DEF p
<1>3. q' \in [Queues -> Seq(Ideal!Packet)]
  BY <1>1, <1>2, AppendProperties
<1>4. \A i \in Queues : q'[i] = <<>> => q[i] = <<>>
  <2>. TAKE i \in Queues
  <2>1. q[i] \in Seq(Ideal!Packet) /\ p \in Ideal!Packet
    BY <1>2
  <2>2. Append(q[i], p) # <<>>
    BY ONLY <2>1, AppendProperties
  <2>3. q'[i] = q[i] \/ q'[i] = Append(q[i], p)
    BY <1>1, <1>2
  <2>. QED BY <2>2, <2>3
<1>5. Ideal!TypeOK'
  BY <1>1, <1>3 DEF IdealInv, Ideal!TypeOK, Ideal!Queues
<1>6. Listed(WalkOf(next), qid, tail)'
  BY <1>1 DEF IdealInv
<1>7. InTurn(WalkOf(next'), qid', q', turns')
  BY <1>1, <1>4 DEF IdealInv, InTurn
<1>. QED BY <1>5, <1>6, <1>7 DEF IdealInv

\* Where the queue at place x of the list was before the one at k went to the end.
Before(k, x) == IF x < k THEN x ELSE IF x < NumQueues THEN x + 1 ELSE k

\* What deque makes of the turns T when it serves queue i: those of D do not wait.
After(T, D, i) == [j \in Queues |-> IF j \in D THEN [l \in Queues |-> 0]
                               ELSE [T[j] EXCEPT ![i] = @ + 1]]

\* U is T after a turn of queue i, for all but those of D.
TurnOf(T, D, i, U) ==
    \A j, l \in Queues :
        /\ j \in D => U[j][l] = 0
        /\ j \notin D /\ l # i => U[j][l] = T[j][l]
        /\ j \notin D /\ l = i => U[j][l] = T[j][l] + 1

\* Those who wait have seen one turn more of queue i.
LEMMA TurnsAfter ==
    ASSUME NEW T \in [Queues -> [Queues -> Nat]], NEW D, NEW i \in Queues
    PROVE  TurnOf(T, D, i, After(T, D, i))
<1> DEFINE U == [j \in Queues |->
                   IF j \in D THEN [l \in Queues |-> 0]
                   ELSE [T[j] EXCEPT ![i] = @ + 1]]
<1>1. ASSUME NEW j \in Queues
      PROVE  /\ U[j] \in [Queues -> Nat]
             /\ \A l \in Queues :
                  U[j][l] = IF j \in D THEN 0
                            ELSE T[j][l] + (IF l = i THEN 1 ELSE 0)
  <2>1. T[j] \in [Queues -> Nat] /\ T[j][i] + 1 \in Nat
    OBVIOUS
  <2>2. CASE j \in D
    <3>1. U[j] = [l \in Queues |-> 0]
      BY <2>2
    <3>. QED BY <2>2, <3>1
  <2>3. CASE j \notin D
    <3>1. U[j] = [T[j] EXCEPT ![i] = @ + 1]
      BY <2>3
    <3>. QED BY <2>1, <2>3, <3>1
  <2>. QED BY <2>2, <2>3
<1>. HIDE DEF U
<1>2. \A j, l \in Queues :
          /\ j \in D => U[j][l] = 0
          /\ j \notin D /\ l # i => U[j][l] = T[j][l]
          /\ j \notin D /\ l = i => U[j][l] = T[j][l] + 1
  BY <1>1
<1>. QED BY <1>2 DEF U, After, TurnOf

\* They are turns again.
LEMMA TurnsType ==
    ASSUME NEW T \in [Queues -> [Queues -> Nat]], NEW D, NEW i \in Queues
    PROVE  After(T, D, i) \in [Queues -> [Queues -> Nat]]
<1>1. ASSUME NEW j \in Queues
      PROVE  (IF j \in D THEN [l \in Queues |-> 0] ELSE [T[j] EXCEPT ![i] = @ + 1])
                \in [Queues -> Nat]
  <2>1. T[j] \in [Queues -> Nat] /\ T[j][i] + 1 \in Nat
    OBVIOUS
  <2>. QED BY <2>1
<1>. QED BY <1>1 DEF After

\* It is a place.
LEMMA BeforeIn ==
    ASSUME NEW k \in 1 .. NumQueues, NEW x \in 1 .. NumQueues
    PROVE  /\ Before(k, x) \in 1 .. NumQueues
           /\ Before(k, x) = k <=> x = NumQueues
BY IdealConstants DEF Before

\* No two queues come from the same place, and those but the moved one keep their order.
LEMMA BeforeOrder ==
    ASSUME NEW k \in 1 .. NumQueues, NEW x \in 1 .. NumQueues, NEW y \in 1 .. NumQueues
    PROVE  /\ Before(k, x) = Before(k, y) => x = y
           /\ Before(k, x) < Before(k, y) /\ Before(k, x) # k => x < y \/ Before(k, y) = k
BY IdealConstants DEF Before

\* Every place has gone somewhere.
LEMMA BeforeOnto ==
    ASSUME NEW k \in 1 .. NumQueues, NEW y \in 1 .. NumQueues
    PROVE  \E x \in 1 .. NumQueues : Before(k, x) = y
<1>. USE IdealConstants
<1>1. CASE y < k
  BY <1>1 DEF Before
<1>2. CASE y = k
  <2>1. NumQueues \in 1 .. NumQueues /\ Before(k, NumQueues) = y
    BY <1>2 DEF Before
  <2>. QED BY <2>1
<1>3. CASE y > k
  <2>1. y - 1 \in 1 .. NumQueues /\ Before(k, y - 1) = y
    BY <1>3 DEF Before
  <2>. QED BY <2>1
<1>. QED BY <1>1, <1>2, <1>3

\* Q serves queue i, the first of the list with packets, which is at place k; those of
\* D do not wait.
Served(W, d, k, i, Q, D) ==
    /\ d[W[k]] = i /\ Q[i] # <<>>
    /\ \A l \in 1 .. k - 1 : d[W[l]] \in D
    /\ \A j \in Queues : j \in D <=> j = i \/ Q[j] = <<>>

\* The list V is W with place k moved to the end.
Moved(W, d, k, V, e) == \A x \in 1 .. NumQueues : e[V[x]] = d[W[Before(k, x)]]

\* Every place has a queue.
Placed(W, d) == \A x \in 1 .. NumQueues : d[W[x]] \in Queues

\* A queue that is served and goes to the end leaves the list in turn: those who
\* wait were behind it, and had not seen its turn.
LEMMA TurnTaken ==
    ASSUME NEW W, NEW d, NEW t, Listed(W, d, t), Placed(W, d),
           NEW q0 \in [Queues -> Seq(Ideal!Packet)], NEW T0 \in [Queues -> [Queues -> Nat]],
           InTurn(W, d, q0, T0),
           NEW k \in 1 .. NumQueues, NEW i \in Queues, NEW D, Served(W, d, k, i, q0, D),
           NEW V, NEW e, Moved(W, d, k, V, e),
           NEW T \in [Queues -> [Queues -> Nat]], TurnOf(T0, D, i, T)
    PROVE  InTurn(V, e, [q0 EXCEPT ![i] = Tail(@)], T)
<1>1. ASSUME NEW x \in 1 .. NumQueues, NEW y \in 1 .. NumQueues
      PROVE  LET n == T[e[V[x]]][e[V[y]]] IN n <= 1 /\ (n = 1 => x < y)
  <2> DEFINE u == Before(k, x)
             v == Before(k, y)
             j == d[W[u]]
             l == d[W[v]]
  <2>0. NumQueues \in Nat
    BY IdealConstants
  <2>1. u \in 1 .. NumQueues /\ v \in 1 .. NumQueues
    BY BeforeIn
  <2>2. j \in Queues /\ l \in Queues /\ e[V[x]] = j /\ e[V[y]] = l
    BY <2>1 DEF Placed, Moved
  <2>3. (u < k => j \in D) /\ (u = k => j \in D)
    <3>1. ASSUME u < k PROVE j \in D
      <4>1. u \in 1 .. k - 1
        BY <2>0, <2>1, <3>1
      <4>. QED BY <4>1 DEF Served
    <3>2. ASSUME u = k PROVE j \in D
      BY <3>2 DEF Served
    <3>. QED BY <3>1, <3>2
  <2>4. l = i <=> v = k
    BY <2>1 DEF Served, Listed
  <2>5. /\ u = k <=> x = NumQueues
        /\ v = k <=> y = NumQueues
        /\ u < v /\ u # k => x < y \/ v = k
    BY BeforeIn, BeforeOrder
  <2>6. T0[j][l] <= 1 /\ (T0[j][l] = 1 => u < v)
    BY <2>1 DEF InTurn
  <2>7. T0[j][l] \in Nat
    <3>. HIDE DEF j, l
    <3>1. T0[j] \in [Queues -> Nat]
      BY <2>2
    <3>. QED BY <3>1, <2>2
  <2>. HIDE DEF u, v, j, l
  <2>8. CASE j \in D
    <3>1. T[j][l] = 0
      BY <2>2, <2>8 DEF TurnOf
    <3>2. T[e[V[x]]][e[V[y]]] = 0
      BY <3>1, <2>2
    <3>. QED BY <3>2
  <2>9. CASE j \notin D /\ l = i
    <3>1. T[j][l] = T0[j][l] + 1
      BY <2>2, <2>9 DEF TurnOf
    <3>2. u > k /\ v = k /\ x # NumQueues /\ y = NumQueues
      BY <2>1, <2>3, <2>4, <2>5, <2>9
    <3>3. T0[j][l] = 0
      <4>1. u \in Int /\ v \in Int
        BY <2>0, <2>1
      <4>2. ~(u < v)
        BY <4>1, <3>2
      <4> DEFINE c == T0[j][l]
      <4>3. c \in Nat /\ c <= 1 /\ c # 1
        BY <4>2, <2>6, <2>7
      <4>. HIDE DEF c
      <4>5. c = 0
        BY <4>3
      <4>. QED BY <4>5 DEF c
    <3>. QED BY <3>1, <3>2, <3>3, <2>2
  <2>10. CASE j \notin D /\ l # i
    <3>1. T[j][l] = T0[j][l]
      BY <2>2, <2>10 DEF TurnOf
    <3>2. u # k /\ v # k
      BY <2>3, <2>4, <2>10
    <3>. QED BY <3>1, <3>2, <2>2, <2>5, <2>6
  <2>. QED BY <2>8, <2>9, <2>10
<1>2. ASSUME NEW j \in Queues, NEW l \in Queues, [q0 EXCEPT ![i] = Tail(@)][j] = <<>>
      PROVE  T[j][l] = 0
  <2>1. j \in D
    BY <1>2 DEF Served
  <2>. QED BY <2>1 DEF TurnOf
<1>. QED BY <1>1, <1>2 DEF InTurn

\* The list is one again.
LEMMA ListMoved ==
    ASSUME NEW W, NEW d, NEW t, Listed(W, d, t),
           NEW k \in 1 .. NumQueues, NEW V, NEW e, Moved(W, d, k, V, e)
    PROVE  /\ \A x, y \in 1 .. NumQueues : e[V[x]] = e[V[y]] => x = y
           /\ \A j \in Queues : \E x \in 1 .. NumQueues : e[V[x]] = j
<1>1. ASSUME NEW x \in 1 .. NumQueues, NEW y \in 1 .. NumQueues, e[V[x]] = e[V[y]]
      PROVE  x = y
  <2>1. /\ Before(k, x) \in 1 .. NumQueues /\ Before(k, y) \in 1 .. NumQueues
        /\ Before(k, x) = Before(k, y) => x = y
    BY BeforeIn, BeforeOrder
  <2>2. d[W[Before(k, x)]] = d[W[Before(k, y)]]
    BY <1>1 DEF Moved
  <2>. QED BY <2>1, <2>2 DEF Listed
<1>2. ASSUME NEW j \in Queues
      PROVE  \E x \in 1 .. NumQueues : e[V[x]] = j
  <2>1. PICK y \in 1 .. NumQueues : d[W[y]] = j
    BY DEF Listed
  <2>2. PICK x \in 1 .. NumQueues : Before(k, x) = y
    BY BeforeOnto
  <2>. QED BY <2>1, <2>2 DEF Moved
<1>. QED BY <1>1, <1>2

\* A packet that leaves keeps the list and the turns.
LEMMA IdealDeque ==
    ASSUME IdealInv, NEW k \in 1 .. NumQueues, Ideal!Deque(k)
    PROVE  IdealInv'
<1>. USE IdealConstants
<1> DEFINE W == WalkOf(next)
           V == WalkOf(next')
           n == W[k]
           p == W[k - 1]
           i == qid[n]
<1>1. /\ q[i] # <<>> /\ \A l \in 1 .. k - 1 : q[qid[W[l]]] = <<>>
      /\ q' = [q EXCEPT ![i] = Tail(@)]
      /\ Ideal!MoveToEnd(p, n)
      /\ turns' = [j \in Queues |->
                     IF j = i \/ q[j] = <<>> THEN [l \in Queues |-> 0]
                     ELSE [turns[j] EXCEPT ![i] = @ + 1]]
  BY WalkIs DEF Ideal!Deque, Ideal!Queues
<1>2. /\ next \in [Node \cup {ListHead} -> Node] /\ qid \in [Node -> Queues] /\ tail \in Node
      /\ Ideal!TypeOK
  BY DEF IdealInv, Ideal!TypeOK, Ideal!Queues
<1>3. Listed(W, qid, tail) /\ InTurn(W, qid, q, turns)
  BY DEF IdealInv
<1>4. /\ W[0] = ListHead /\ \A x \in 1 .. NumQueues : W[x] = next[W[x - 1]]
      /\ V[0] = ListHead /\ \A x \in 1 .. NumQueues : V[x] = next'[V[x - 1]]
  BY WalkSteps
<1>. HIDE DEF W, V
<1>5. /\ \A x \in 1 .. NumQueues : W[x] \in Node /\ qid[W[x]] \in Queues
      /\ \A x, y \in 0 .. NumQueues : W[x] = W[y] => x = y
      /\ W[NumQueues] = tail
  <2>1. \A x \in 1 .. NumQueues : W[x] \in Node /\ qid[W[x]] \in Queues
    BY <1>2, <1>3 DEF Listed
  <2>2. \A x, y \in 1 .. NumQueues : W[x] = W[y] => x = y
    BY <1>3 DEF Listed
  <2>3. \A x \in 0 .. NumQueues : x = 0 \/ x \in 1 .. NumQueues
    OBVIOUS
  <2>. QED BY <2>1, <2>2, <2>3, <1>3 DEF Listed
<1>6. /\ next' \in [Node \cup {ListHead} -> Node] /\ qid' \in [Node -> Queues]
      /\ tail' \in Node /\ V[NumQueues] = tail'
      /\ \A x \in 1 .. NumQueues : V[x] \in Node /\ qid'[V[x]] = qid[W[Before(k, x)]]
  <2>1. CASE n = tail
    <3>1. next' = next /\ qid' = qid /\ tail' = tail /\ V = W
      BY <1>1, <2>1 DEF Ideal!MoveToEnd, W, V
    <3>2. k = NumQueues
      BY <2>1, <1>5
    <3>3. \A x \in 1 .. NumQueues : Before(k, x) = x
      BY <3>2 DEF Before
    <3>. QED BY <3>1, <3>3, <1>2, <1>5
  <2>2. CASE n # tail
    <3>1. PICK new \in Node :
            /\ ~Ideal!InList(new)
            /\ \E garbage \in Node :
                  next' = [next EXCEPT ![p] = next[n], ![tail] = new, ![new] = garbage]
            /\ qid' = [qid EXCEPT ![new] = qid[n]]
            /\ tail' = new
      BY <1>1, <2>2 DEF Ideal!MoveToEnd
    <3>2. PICK garbage \in Node :
            next' = [next EXCEPT ![p] = next[n], ![tail] = new, ![new] = garbage]
      BY <3>1
    <3>3. \A x \in 0 .. NumQueues : W[x] # new
      BY <3>1, <1>4, WalkIs DEF Ideal!InList, W
    <3>4. k < NumQueues /\ n \in Node /\ p \in Node \cup {ListHead} /\ p # tail /\ p # new
      <4>1. k \in 0 .. NumQueues /\ k - 1 \in 0 .. NumQueues /\ NumQueues \in 0 .. NumQueues
            /\ k - 1 # NumQueues
        OBVIOUS
      <4>2. k # NumQueues
        BY <2>2, <1>5
      <4>3. p \in Node \cup {ListHead}
        BY <4>1, <1>4, <1>5
      <4>. QED BY <4>1, <4>2, <4>3, <1>5, <3>3
    <3>5. next' \in [Node \cup {ListHead} -> Node] /\ qid' \in [Node -> Queues] /\ tail' \in Node
      <4>1. next[n] \in Node
        BY <3>4, <1>2
      <4>2. next' \in [Node \cup {ListHead} -> Node]
        BY ONLY <4>1, <3>2, <1>2
      <4>3. qid[n] \in Queues
        BY <3>4, <1>2
      <4>4. qid' \in [Node -> Queues]
        BY ONLY <4>3, <3>1, <1>2
      <4>5. tail' \in Node
        BY ONLY <3>1
      <4>. QED BY <4>2, <4>4, <4>5
    <3>6. /\ next'[p] = W[k + 1] /\ next'[tail] = new
          /\ \A x \in 0 .. NumQueues : x # k - 1 /\ x # NumQueues => next'[W[x]] = next[W[x]]
      <4>1. next[n] = W[k + 1]
        <5>1. k + 1 \in 1 .. NumQueues /\ (k + 1) - 1 = k
          BY <3>4
        <5>. QED BY <5>1, <1>4
      <4>2. next'[p] = W[k + 1]
        BY <3>2, <3>4, <4>1, <1>2
      <4>3. tail # new
        BY <3>3, <1>5
      <4>4. next'[tail] = new
        BY <3>2, <3>4, <4>3, <1>2
      <4>5. ASSUME NEW x \in 0 .. NumQueues, x # k - 1, x # NumQueues
            PROVE  next'[W[x]] = next[W[x]]
        <5>1. k - 1 \in 0 .. NumQueues /\ NumQueues \in 0 .. NumQueues
          OBVIOUS
        <5>2. W[x] # p /\ W[x] # tail /\ W[x] # new
          BY <4>5, <5>1, <1>5, <3>3
        <5>3. W[x] \in Node \cup {ListHead}
          BY <1>4, <1>5
        <5>. QED BY <5>2, <5>3, <3>2, <1>2
      <4>. QED BY <4>2, <4>4, <4>5
    <3> DEFINE g == [x \in 0 .. NumQueues |->
                       IF x < k THEN W[x] ELSE IF x < NumQueues THEN W[x + 1] ELSE new]
    <3>7. g[0] = ListHead
      BY <1>4
    <3>8. ASSUME NEW x \in 1 .. NumQueues
          PROVE  g[x] = next'[g[x - 1]]
      <4>0. x \in 0 .. NumQueues /\ x - 1 \in 0 .. NumQueues
        OBVIOUS
      <4>1. CASE x < k
        <5>1. g[x] = W[x] /\ g[x - 1] = W[x - 1] /\ W[x] = next[W[x - 1]]
          BY <4>0, <4>1, <1>4
        <5>. QED BY <4>0, <4>1, <5>1, <3>4, <3>6
      <4>2. CASE x = k
        <5>1. g[x] = W[k + 1] /\ g[x - 1] = p
          BY <4>0, <4>2, <3>4
        <5>. QED BY <5>1, <3>6
      <4>3. CASE x > k /\ x < NumQueues
        <5>1. g[x] = W[x + 1] /\ g[x - 1] = W[x]
          BY <4>0, <4>3
        <5>2. x + 1 \in 1 .. NumQueues /\ (x + 1) - 1 = x
          BY <4>3
        <5>3. W[x + 1] = next[W[x]]
          BY <5>2, <1>4
        <5>. QED BY <4>0, <4>3, <5>1, <5>3, <3>6
      <4>4. CASE x = NumQueues /\ x > k
        <5>1. g[x] = new /\ g[x - 1] = W[NumQueues]
          BY <4>0, <4>4
        <5>. QED BY <5>1, <3>6, <1>5
      <4>. QED BY <4>1, <4>2, <4>3, <4>4, <3>4
    <3>. HIDE DEF g
    <3>9. \A x \in 0 .. NumQueues : V[x] = g[x]
      BY <3>7, <3>8, WalkUnique DEF V
    <3>10. V[NumQueues] = tail'
      BY <3>9, <3>1, <3>4 DEF g
    <3>11. ASSUME NEW x \in 1 .. NumQueues
           PROVE  V[x] \in Node /\ qid'[V[x]] = qid[W[Before(k, x)]]
      <4>1. CASE x < k
        <5>1. V[x] = W[x] /\ Before(k, x) = x
          BY <3>9, <4>1 DEF g, Before
        <5>. QED BY <5>1, <1>2, <1>5, <3>1, <3>3
      <4>2. CASE ~(x < k) /\ x < NumQueues
        <5>1. V[x] = W[x + 1] /\ Before(k, x) = x + 1 /\ x + 1 \in 1 .. NumQueues
          BY <3>9, <4>2 DEF g, Before
        <5>. QED BY <5>1, <1>2, <1>5, <3>1, <3>3
      <4>3. CASE x = NumQueues
        <5>1. V[x] = new /\ Before(k, x) = k
          BY <3>9, <3>4, <4>3 DEF g, Before
        <5>. QED BY <5>1, <1>2, <3>1
      <4>. QED BY <4>1, <4>2, <4>3
    <3>. QED BY <3>5, <3>10, <3>11
  <2>. QED BY <2>1, <2>2
<1>7. Moved(W, qid, k, V, qid')
  BY <1>6 DEF Moved
<1>8. /\ q \in [Queues -> Seq(Ideal!Packet)] /\ turns \in [Queues -> [Queues -> Nat]]
      /\ i \in Queues
  BY <1>2, <1>5 DEF Ideal!TypeOK, Ideal!Queues
<1> DEFINE D == {j \in Queues : j = i \/ q[j] = <<>>}
<1>9. Served(W, qid, k, i, q, D)
  <2>1. \A l \in 1 .. k - 1 : l \in 1 .. NumQueues
    OBVIOUS
  <2>2. \A l \in 1 .. k - 1 : qid[W[l]] \in D
    BY <2>1, <1>1, <1>5
  <2>. QED BY <2>2, <1>1 DEF Served
<1>10. turns' = After(turns, D, i)
  BY <1>1 DEF After
<1>11. Placed(W, qid)
  BY <1>5 DEF Placed
<1>12. q' = [q EXCEPT ![i] = Tail(@)]
  BY <1>1
<1>13. q' \in [Queues -> Seq(Ideal!Packet)]
  <2>1. Tail(q[i]) \in Seq(Ideal!Packet)
    BY <1>1, <1>8, HeadTailProperties
  <2>. QED BY <1>8, <1>12, <2>1
<1>. HIDE DEF D, i, n, p
<1>14. turns' \in [Queues -> [Queues -> Nat]] /\ TurnOf(turns, D, i, turns')
  <2>1. After(turns, D, i) \in [Queues -> [Queues -> Nat]]
    BY <1>8, TurnsType
  <2>2. TurnOf(turns, D, i, After(turns, D, i))
    BY <1>8, TurnsAfter
  <2>. QED BY <2>1, <2>2, <1>10
<1>15. InTurn(V, qid', [q EXCEPT ![i] = Tail(@)], turns')
  BY <1>3, <1>7, <1>8, <1>9, <1>11, <1>14, TurnTaken
<1>16. Listed(V, qid', tail')
  <2>1. /\ \A x, y \in 1 .. NumQueues : qid'[V[x]] = qid'[V[y]] => x = y
        /\ \A j \in Queues : \E x \in 1 .. NumQueues : qid'[V[x]] = j
    BY <1>3, <1>7, ListMoved
  <2>. QED BY <2>1, <1>4, <1>6 DEF Listed
<1>17. Ideal!TypeOK'
  BY <1>6, <1>13, <1>14 DEF Ideal!TypeOK, Ideal!Queues
<1>. QED BY <1>12, <1>15, <1>16, <1>17 DEF IdealInv, V

------------------------------------------------------------------------------
(* AFQ: rounds and distances                                               *)

\* What is assumed of the constants.
LEMMA AFQConstants ==
    /\ NumQueues \in Nat /\ NumQueues > 1 /\ Queues = 0 .. NumQueues - 1
    /\ BpR \in Nat \ {0} /\ LastRound = 2 * NumQueues - 1
    /\ MaxAFQCount \in Nat /\ MaxAFQCount >= NumQueues * BpR /\ NumQueues * BpR \in Nat
    /\ NoMessage \notin Message
<1>1. /\ NumQueues \in Nat /\ NumQueues > 1 /\ BpR \in Nat \ {0}
      /\ LastRound = 2 * NumQueues - 1
      /\ MaxAFQCount \in Nat /\ MaxAFQCount >= (LastRound + 1) * BpR
      /\ NoMessage \notin Message
  BY PortsAssumption DEF Approximate!AFQAssumption
<1>2. (LastRound + 1) * BpR = NumQueues * BpR + NumQueues * BpR
  BY <1>1
<1>3. NumQueues * BpR \in Nat
  BY <1>1
<1>. QED BY <1>1, <1>2, <1>3 DEF Queues

\* How many rounds queue i is ahead of round r, and the queue that is n ahead.
Dist(i, r) == IF i >= r THEN i - r ELSE i - r + NumQueues
Plus(r, n) == IF r + n < NumQueues THEN r + n ELSE r + n - NumQueues

\* That is what the remainders compute.
LEMMA DistIs ==
    ASSUME NEW i \in Queues, NEW r \in Queues
    PROVE  (i - r) % NumQueues = Dist(i, r) /\ (r + i) % NumQueues = Plus(r, i)
<1>. USE AFQConstants
<1>1. ASSUME i >= r
      PROVE  (i - r) % NumQueues = Dist(i, r)
  <2> DEFINE x == i - r
  <2>1. x \in 0 .. NumQueues - 1 /\ i - r = 0 * NumQueues + x
    BY <1>1
  <2>. HIDE DEF x
  <2>2. (0 * NumQueues + x) % NumQueues = x
    BY <2>1, ModUnique
  <2>. QED BY <2>1, <2>2, <1>1 DEF Dist, x
<1>2. ASSUME ~(i >= r)
      PROVE  (i - r) % NumQueues = Dist(i, r)
  <2> DEFINE x == i - r + NumQueues
  <2>1. x \in 0 .. NumQueues - 1 /\ i - r = (-1) * NumQueues + x /\ -1 \in Int
    BY <1>2
  <2>. HIDE DEF x
  <2>2. ((-1) * NumQueues + x) % NumQueues = x
    BY <2>1, ModUnique
  <2>. QED BY <2>1, <2>2, <1>2 DEF Dist, x
<1>3. ASSUME r + i < NumQueues
      PROVE  (r + i) % NumQueues = Plus(r, i)
  <2> DEFINE x == r + i
  <2>1. x \in 0 .. NumQueues - 1 /\ r + i = 0 * NumQueues + x
    BY <1>3
  <2>. HIDE DEF x
  <2>2. (0 * NumQueues + x) % NumQueues = x
    BY <2>1, ModUnique
  <2>. QED BY <2>1, <2>2, <1>3 DEF Plus, x
<1>4. ASSUME ~(r + i < NumQueues)
      PROVE  (r + i) % NumQueues = Plus(r, i)
  <2> DEFINE x == r + i - NumQueues
  <2>1. x \in 0 .. NumQueues - 1 /\ r + i = 1 * NumQueues + x
    BY <1>4
  <2>. HIDE DEF x
  <2>2. (1 * NumQueues + x) % NumQueues = x
    BY <2>1, ModUnique
  <2>. QED BY <2>1, <2>2, <1>4 DEF Plus, x
<1>5. (i - r) % NumQueues = Dist(i, r)
  BY <1>1, <1>2
<1>6. (r + i) % NumQueues = Plus(r, i)
  BY <1>3, <1>4
<1>. QED BY <1>5, <1>6

\* Queues and distances determine each other.
LEMMA DistPlus ==
    ASSUME NEW r \in Queues, NEW i \in Queues
    PROVE  /\ Dist(i, r) \in Queues /\ Plus(r, i) \in Queues
           /\ Plus(r, Dist(i, r)) = i /\ Dist(Plus(r, i), r) = i
BY AFQConstants DEF Dist, Plus

\* When the round moves on by n, what is no nearer than that is n nearer.
LEMMA DistMoves ==
    ASSUME NEW r \in Queues, NEW n \in Queues, NEW i \in Queues, Dist(i, r) >= n
    PROVE  Dist(i, Plus(r, n)) = Dist(i, r) - n
BY AFQConstants DEF Dist, Plus

\* The round of the packet with this count, from the current one on.
Slot(c) == (c + 1) \div BpR

\* Slots are numbers and grow with the count; those less than a turn ahead are of
\* small counts.
LEMMA SlotGrows ==
    ASSUME NEW c \in Nat, NEW d \in Nat, c <= d
    PROVE  Slot(c) \in Nat /\ Slot(d) \in Nat /\ Slot(c) <= Slot(d)
<1>1. c + 1 \in Nat /\ d + 1 \in Nat /\ c + 1 <= d + 1 /\ BpR \in Nat \ {0}
  BY AFQConstants
<1>. QED BY <1>1, DivNat, DivMonotone DEF Slot

\* A slot has BpR counts.
LEMMA SlotBounds ==
    ASSUME NEW c \in Nat
    PROVE  Slot(c) * BpR <= c + 1 /\ c + 1 <= Slot(c) * BpR + BpR - 1 /\ Slot(c) * BpR \in Nat
<1>1. c + 1 \in Nat /\ BpR \in Nat \ {0}
  BY AFQConstants
<1> DEFINE s == (c + 1) \div BpR
           r == (c + 1) % BpR
<1>2. s \in Nat /\ r \in 0 .. BpR - 1 /\ c + 1 = s * BpR + r
  BY <1>1
<1>. HIDE DEF s, r
<1>3. s * BpR \in Nat
  BY <1>1, <1>2
<1>4. s * BpR <= c + 1 /\ c + 1 <= s * BpR + BpR - 1
  BY <1>1, <1>2, <1>3
<1>. QED BY <1>3, <1>4 DEF s, Slot

\* A count whose slot is less than a turn ahead is below the last one that is kept.
LEMMA SlotNear ==
    ASSUME NEW c \in Nat, Slot(c) < NumQueues
    PROVE  c < NumQueues * BpR /\ c < MaxAFQCount
<1>1. Slot(c) \in Nat /\ NumQueues \in Nat /\ BpR \in Nat /\ Slot(c) + 1 <= NumQueues
  BY SlotGrows, AFQConstants
<1>2. BpR * (Slot(c) + 1) <= BpR * NumQueues
  BY <1>1, TimesMonotone
<1>3. BpR * (Slot(c) + 1) = Slot(c) * BpR + BpR /\ BpR * NumQueues = NumQueues * BpR
  BY <1>1
<1>4. c + 1 <= Slot(c) * BpR + BpR - 1 /\ Slot(c) * BpR \in Nat
  BY SlotBounds
<1>. QED BY <1>1, <1>2, <1>3, <1>4, AFQConstants

\* The round of a packet, and its queue.
LEMMA RoundIs ==
    ASSUME NEW c \in Nat, R \in Queues
    PROVE  /\ Approximate!RoundOf(Approximate!Bid(c)) = R + Slot(c)
           /\ Approximate!QueueFor(R + Slot(c)) \in Queues
           /\ Slot(c) < NumQueues =>
                Slot(c) \in Queues /\ Approximate!QueueFor(R + Slot(c)) = Plus(R, Slot(c))
<1>1. /\ R \in Nat /\ c + 1 \in Nat /\ BpR \in Nat \ {0} /\ Slot(c) \in Nat
      /\ NumQueues \in Nat /\ NumQueues > 1 /\ LastRound = 2 * NumQueues - 1
      /\ Queues = 0 .. NumQueues - 1
  BY AFQConstants, SlotGrows
<1>2. Approximate!RoundOf(Approximate!Bid(c)) = R + Slot(c)
  <2>1. ((c + 1) + R * BpR) \div BpR = R + ((c + 1) \div BpR)
    BY <1>1, DivShift
  <2>2. (c + 1) + R * BpR = c + R * BpR + 1
    BY <1>1
  <2>. QED BY <2>1, <2>2 DEF Approximate!RoundOf, Approximate!Bid, Slot
<1>3. Approximate!QueueFor(R + Slot(c)) \in Queues
  <2>1. (R + NumQueues - 1) % NumQueues \in 0 .. NumQueues - 1
    BY <1>1, ModRange
  <2>2. (R + Slot(c)) % NumQueues \in 0 .. NumQueues - 1
    BY <1>1, ModRange
  <2>. QED BY <2>1, <2>2, <1>1 DEF Approximate!QueueFor
<1>4. ASSUME Slot(c) < NumQueues
      PROVE  Slot(c) \in Queues /\ Approximate!QueueFor(R + Slot(c)) = Plus(R, Slot(c))
  <2>1. Slot(c) \in Queues /\ ~(R + Slot(c) > LastRound)
    BY <1>1, <1>4
  <2>2. (R + Slot(c)) % NumQueues = Plus(R, Slot(c))
    BY <2>1, DistIs
  <2>. QED BY <2>1, <2>2 DEF Approximate!QueueFor
<1>. QED BY <1>2, <1>3, <1>4

\* The same of AFQ, which counts packets.
LEMMA SomeRoundHolds ==
    ASSUME \A i \in Queues : q[i] = <<>>
    PROVE  Approximate!TotalLength = 0
<1>. USE FairAssumption
<1> DEFINE seq == [i \in 1 .. NumQueues |-> i]
           Fix(g) == g = [s \in SUBSET (1 .. NumQueues) |->
                            IF s = {} THEN 0
                            ELSE LET x == Max(s)
                                 IN  g[s \ {x}] + Len(q[seq[x] - 1])]
<1>1. Approximate!TotalLength = (CHOOSE g : Fix(g))[1 .. NumQueues]
  BY DEF Approximate!TotalLength, Approximate!FoldLeft, Approximate!MapThenFoldSet,
         Approximate!Max, Max
<1>2. \A x \in 1 .. NumQueues : Len(q[seq[x] - 1]) = 0
  BY EmptySeq DEF Queues
<1>3. Fix([s \in SUBSET (1 .. NumQueues) |-> 0])
  <2> DEFINE z == [s \in SUBSET (1 .. NumQueues) |-> 0]
  <2>1. ASSUME NEW s \in SUBSET (1 .. NumQueues), s # {}
        PROVE  z[s \ {Max(s)}] + Len(q[seq[Max(s)] - 1]) = 0
    <3>1. Max(s) \in s
      BY <2>1, MaxOf
    <3>2. Len(q[seq[Max(s)] - 1]) = 0
      BY <3>1, <1>2
    <3>3. z[s \ {Max(s)}] = 0
      OBVIOUS
    <3>. QED BY <3>2, <3>3
  <2>. QED BY <2>1
<1>4. ASSUME NEW g, Fix(g)
      PROVE  g[1 .. NumQueues] = 0
  <2> DEFINE S == {k \in Nat : k <= NumQueues => g[1 .. k] = 0}
  <2>1. 0 \in S
    <3>1. 1 .. 0 = {}
      OBVIOUS
    <3>. QED BY <1>4, <3>1
  <2>2. ASSUME NEW k \in S, k + 1 <= NumQueues
        PROVE  g[1 .. k + 1] = 0
    <3>1. 1 .. k + 1 \in SUBSET (1 .. NumQueues) /\ 1 .. k + 1 # {}
      <4>1. \A y \in 1 .. k + 1 : y \in 1 .. NumQueues
        BY <2>2
      <4>2. 1 \in 1 .. k + 1
        BY <2>2
      <4>. QED BY <4>1, <4>2
    <3>2. Max(1 .. k + 1) = k + 1
      <4> DEFINE m == Max(1 .. k + 1)
      <4>1. m \in 1 .. k + 1 /\ \A y \in 1 .. k + 1 : y <= m
        BY <3>1, MaxOf
      <4>. HIDE DEF m
      <4>2. k + 1 \in 1 .. k + 1
        BY <2>2
      <4>3. m = k + 1
        BY <4>1, <4>2
      <4>. QED BY <4>3 DEF m
    <3>3. (1 .. k + 1) \ {k + 1} = 1 .. k
      OBVIOUS
    <3>4. g[1 .. k + 1] = g[1 .. k] + Len(q[seq[k + 1] - 1])
      <4>1. g[1 .. k + 1] = LET x == Max(1 .. k + 1)
                            IN  g[(1 .. k + 1) \ {x}] + Len(q[seq[x] - 1])
        BY <1>4, <3>1
      <4>. QED BY <4>1, <3>2, <3>3
    <3>5. Len(q[seq[k + 1] - 1]) = 0 /\ g[1 .. k] = 0
      BY <2>2, <1>2
    <3>. QED BY <3>4, <3>5
  <2>. HIDE DEF Fix
  <2>3. S \in SUBSET Nat /\ \A k \in S : k + 1 \in S
    BY <2>2
  <2>. HIDE DEF S
  <2>4. NumQueues \in S
    BY <2>1, <2>3, SetInduction
  <2>. USE DEF S
  <2>. QED BY <2>4
<1>. HIDE DEF Fix
<1>. QED BY <1>1, <1>3, <1>4

------------------------------------------------------------------------------
(* AFQ: its invariant                                                      *)

\* In queue i of Q there is, at place k, a packet of flow f with count c that is near.
Spot(Q, f, i, k, c) ==
    /\ k \in DOMAIN Q[i] /\ Q[i][k].flow = f /\ Q[i][k].near /\ Q[i][k].count = c

\* Near packets have counts below that of their flow, F, and have come no nearer to
\* the round r than their slots.
Ahead(Q, F, r) ==
    \A f \in Flow, i \in Queues, k, c \in Nat :
        Spot(Q, f, i, k, c) => c < F[f] /\ Dist(i, r) <= Slot(c)

\* Packets of a flow with counts c and d, at place k of queue i and l of queue j,
\* are in the order of the counts, and share a slot if they share a queue.
InOrder(r, i, k, c, j, l, d) ==
    /\ c = d => i = j /\ k = l
    /\ c < d => Dist(i, r) < Dist(j, r) \/ (i = j /\ k < l)
    /\ i = j => Slot(c) = Slot(d)

Ordered(Q, r) ==
    \A f \in Flow, i, j \in Queues, k, l, c, d \in Nat :
        Spot(Q, f, i, k, c) /\ Spot(Q, f, j, l, d) => InOrder(r, i, k, c, j, l, d)

\* What holds in FQ_AFQ between two calls.
AFQInv == Approximate!TypeOK /\ Ahead(q, flow_count, R) /\ Ordered(q, R)

\* The names of the model.
LEMMA AFQTypes ==
    Approximate!TypeOK <=>
        /\ q \in [Queues -> Seq(Approximate!Packet)] /\ R \in Queues
        /\ message_id \in [Flow -> Message \cup {NoMessage}]
        /\ flow_count \in [Flow -> 0 .. MaxAFQCount]
BY DEF Approximate!TypeOK, Approximate!Queues, Queues

\* A packet is a record.
LEMMA AFQPacket ==
    ASSUME NEW p \in Approximate!Packet
    PROVE  p.flow \in Flow /\ p.near \in BOOLEAN /\ p.count \in 0 .. NumQueues * BpR
BY DEF Approximate!Packet

\* What is near has a spot.
LEMMA SpotIs ==
    ASSUME AFQInv, NEW f \in Flow, NEW i \in Queues, NEW k \in Approximate!NearPackets(f, i)
    PROVE  /\ k \in Nat /\ q[i][k].count \in Nat
           /\ Spot(q, f, i, k, q[i][k].count)
<1>1. q[i] \in Seq(Approximate!Packet)
  BY AFQTypes DEF AFQInv
<1>2. k \in DOMAIN q[i] /\ q[i][k].flow = f /\ q[i][k].near
  BY DEF Approximate!NearPackets
<1>3. k \in 1 .. Len(q[i]) /\ Len(q[i]) \in Nat
  BY <1>1, <1>2, LenProperties
<1>4. q[i][k] \in Approximate!Packet
  BY <1>1, <1>3, ElementOfSeq
<1>5. q[i][k].count \in Nat
  BY <1>4, AFQPacket, AFQConstants
<1>. QED BY <1>2, <1>3, <1>5 DEF Spot

\* It says what the run checks: first the order,
LEMMA AFQOrder == AFQInv => Approximate!NearInOrder
<1>. SUFFICES ASSUME AFQInv, NEW f \in Flow, NEW i \in Queues, NEW j \in Queues,
                     NEW k \in Approximate!NearPackets(f, i),
                     NEW l \in Approximate!NearPackets(f, j),
                     q[i][k].count < q[j][l].count
              PROVE  Approximate!Distance(i) < Approximate!Distance(j) \/ (i = j /\ k < l)
  BY DEF Approximate!NearInOrder, Approximate!Queues, Queues
<1>1. R \in Queues
  BY AFQTypes DEF AFQInv
<1>2. Dist(i, R) < Dist(j, R) \/ (i = j /\ k < l)
  BY SpotIs DEF AFQInv, Ordered, InOrder
<1>3. Approximate!Distance(i) = Dist(i, R) /\ Approximate!Distance(j) = Dist(j, R)
  BY <1>1, DistIs DEF Approximate!Distance
<1>. QED BY <1>2, <1>3

\* then the share: those in a queue have different counts of one slot.
LEMMA AFQShare == AFQInv => Approximate!RoundShare
<1>. SUFFICES ASSUME AFQInv, NEW f \in Flow, NEW i \in Queues
              PROVE  Cardinality(Approximate!NearPackets(f, i)) <= BpR
  BY DEF Approximate!RoundShare, Approximate!Queues, Queues, Approximate!Cardinality, Cardinality
<1> DEFINE S == Approximate!NearPackets(f, i)
           g == [k \in S |-> q[i][k].count]
<1>1. CASE S = {}
  BY <1>1, FS_EmptySet, AFQConstants
<1>2. CASE S # {}
  <2>1. PICK z \in S : TRUE
    BY <1>2
  <2> DEFINE s == Slot(g[z])
             I == s * BpR - 1 .. s * BpR + BpR - 2
  <2>2. \A k \in S : g[k] \in Nat /\ k \in Nat /\ Spot(q, f, i, k, g[k])
    BY SpotIs
  <2>. HIDE DEF S, g
  <2>3. \A k \in S : Slot(g[k]) = s
    BY <2>1, <2>2 DEF AFQInv, Ordered, InOrder
  <2>4. \A k, l \in S : g[k] = g[l] => k = l
    BY <2>2 DEF AFQInv, Ordered, InOrder
  <2>5. s * BpR \in Nat /\ BpR \in Nat \ {0}
    BY <2>1, <2>2, SlotBounds, AFQConstants
  <2>6. \A k \in S : g[k] \in I
    <3>. TAKE k \in S
    <3>1. Slot(g[k]) * BpR <= g[k] + 1 /\ g[k] + 1 <= Slot(g[k]) * BpR + BpR - 1
      BY <2>2, SlotBounds
    <3>. HIDE DEF s
    <3>. QED BY <3>1, <2>2, <2>3, <2>5
  <2>. HIDE DEF s
  <2>7. IsFiniteSet(I) /\ Cardinality(I) = BpR
    <3>1. s * BpR - 1 \in Int /\ s * BpR + BpR - 2 \in Int
          /\ ~(s * BpR - 1 > s * BpR + BpR - 2)
          /\ (s * BpR + BpR - 2) - (s * BpR - 1) + 1 = BpR
      BY <2>5
    <3>. QED BY <3>1, FS_Interval
  <2>. HIDE DEF I
  <2>8. g \in [S -> I]
    BY <2>6 DEF g
  <2>9. g \in Injection(S, I)
    BY <2>4, <2>8 DEF Injection, IsInjective
  <2>10. Cardinality(S) <= BpR
    BY <2>7, <2>9, FS_Injection
  <2>. QED BY <2>10 DEF S
<1>. QED BY <1>1, <1>2

\* The port begins empty.
LEMMA AFQInit == Approximate!Init => AFQInv
<1>. SUFFICES ASSUME Approximate!Init PROVE AFQInv
  OBVIOUS
<1>1. /\ q = [i \in Queues |-> <<>>] /\ R = 0
      /\ message_id = [f \in Flow |-> NoMessage] /\ flow_count = [f \in Flow |-> 0]
  BY DEF Approximate!Init, Approximate!Queues, Queues
<1>2. 0 \in Queues /\ 0 \in 0 .. MaxAFQCount
  BY AFQConstants
<1>3. Approximate!TypeOK
  BY <1>1, <1>2, AFQTypes, EmptySeq
<1>4. \A i \in Queues : DOMAIN q[i] = {}
  BY <1>1
<1>5. \A f \in Flow, i \in Queues, k, c \in Nat : ~Spot(q, f, i, k, c)
  BY <1>4 DEF Spot
<1>. QED BY <1>3, <1>5 DEF AFQInv, Ahead, Ordered

\* What enque makes of the packets of a queue when flow f begins another message.
Aged(s, f, same) ==
    [k \in DOMAIN s |-> IF s[k].flow = f /\ ~same
                        THEN [s[k] EXCEPT !.near = FALSE, !.count = 0] ELSE s[k]]

\* What is near afterwards was near before, and is not of that flow.
LEMMA AgedIs ==
    ASSUME NEW s \in Seq(Approximate!Packet), NEW f, NEW same \in BOOLEAN
    PROVE  /\ Aged(s, f, same) \in Seq(Approximate!Packet)
           /\ Len(Aged(s, f, same)) = Len(s)
           /\ \A k \in DOMAIN s :
                Aged(s, f, same)[k].near =>
                    Aged(s, f, same)[k] = s[k] /\ (s[k].flow = f => same)
<1> DEFINE n == Len(s)
           e(k) == IF s[k].flow = f /\ ~same
                   THEN [s[k] EXCEPT !.near = FALSE, !.count = 0] ELSE s[k]
<1>1. n \in Nat /\ DOMAIN s = 1 .. n /\ \A k \in 1 .. n : s[k] \in Approximate!Packet
  BY LenProperties, ElementOfSeq
<1>2. 0 \in 0 .. NumQueues * BpR
  BY AFQConstants
<1>3. \A k \in 1 .. n : e(k) \in Approximate!Packet
  BY <1>1, <1>2 DEF Approximate!Packet
<1>4. \A k \in 1 .. n : e(k).near => e(k) = s[k] /\ (s[k].flow = f => same)
  <2>. TAKE k \in 1 .. n
  <2>1. s[k] \in Approximate!Packet
    BY <1>1
  <2>. QED BY <2>1 DEF Approximate!Packet
<1>5. Aged(s, f, same) = [k \in 1 .. n |-> e(k)]
  BY <1>1 DEF Aged
<1>. HIDE DEF e, n
<1>6. [k \in 1 .. n |-> e(k)] \in [1 .. n -> Approximate!Packet]
  BY <1>3
<1>7. [k \in 1 .. n |-> e(k)] \in Seq(Approximate!Packet)
  BY <1>1, <1>6, SeqDef
<1>8. Len([k \in 1 .. n |-> e(k)]) = n
  <2>1. DOMAIN [k \in 1 .. n |-> e(k)] = 1 .. n
    OBVIOUS
  <2>. QED BY <1>1, <1>7, <2>1, LenProperties
<1>9. \A k \in 1 .. n : Aged(s, f, same)[k].near =>
          Aged(s, f, same)[k] = s[k] /\ (s[k].flow = f => same)
  BY <1>4, <1>5
<1>. QED BY <1>1, <1>5, <1>7, <1>8, <1>9 DEF n

\* Q2 is Q, aged, with a packet of flow f and count c, near or not, at the end of
\* queue i.
Joined(Q, Q2, f, i, c, near, same) ==
    \A g \in Flow, j \in Queues, k, d \in Nat :
        Spot(Q2, g, j, k, d) =>
            \/ Spot(Q, g, j, k, d) /\ (g = f => same)
            \/ g = f /\ j = i /\ near /\ d = c /\ k = Len(Q[i]) + 1

\* The queues Q with packet p of flow f at the end of queue i.
Entered(Q, f, i, p, same) ==
    [j \in Queues |-> IF j = i THEN Append(Aged(Q[j], f, same), p) ELSE Aged(Q[j], f, same)]

\* That is what enque does to the queues.
LEMMA Joins ==
    ASSUME NEW Q \in [Queues -> Seq(Approximate!Packet)], NEW f \in Flow, NEW i \in Queues,
           NEW same \in BOOLEAN, NEW p \in Approximate!Packet, p.flow = f
    PROVE  /\ Entered(Q, f, i, p, same) \in [Queues -> Seq(Approximate!Packet)]
           /\ Joined(Q, Entered(Q, f, i, p, same), f, i, p.count, p.near, same)
<1> DEFINE Q2 == Entered(Q, f, i, p, same)
<1>1. ASSUME NEW j \in Queues
      PROVE  /\ Aged(Q[j], f, same) \in Seq(Approximate!Packet)
             /\ Append(Aged(Q[j], f, same), p) \in Seq(Approximate!Packet)
  BY AgedIs, AppendProperties
<1>2. Q2 \in [Queues -> Seq(Approximate!Packet)]
  BY <1>1 DEF Entered
<1>3. ASSUME NEW g \in Flow, NEW j \in Queues, NEW k \in Nat, NEW d \in Nat,
             Spot(Q2, g, j, k, d)
      PROVE  \/ Spot(Q, g, j, k, d) /\ (g = f => same)
             \/ g = f /\ j = i /\ p.near /\ d = p.count /\ k = Len(Q[i]) + 1
  <2> DEFINE a == Aged(Q[j], f, same)
             n == Len(Q[j])
  <2>1. /\ a \in Seq(Approximate!Packet) /\ n \in Nat /\ Len(a) = n
        /\ DOMAIN Q[j] = 1 .. n /\ DOMAIN a = 1 .. n
    BY AgedIs, LenProperties
  <2>2. \A l \in 1 .. n : a[l].near => a[l] = Q[j][l] /\ (Q[j][l].flow = f => same)
    BY <2>1, AgedIs
  <2>3. Q2[j] = IF j = i THEN Append(a, p) ELSE a
    BY DEF Entered
  <2>. HIDE DEF a, n, Q2
  <2>4. /\ DOMAIN Append(a, p) = 1 .. n + 1
        /\ \A l \in 1 .. n : Append(a, p)[l] = a[l]
        /\ Append(a, p)[n + 1] = p
    BY <2>1, AppendProperties, LenProperties
  <2>5. k \in DOMAIN Q2[j] /\ Q2[j][k].flow = g /\ Q2[j][k].near /\ Q2[j][k].count = d
    BY <1>3 DEF Spot
  <2>6. CASE k \in 1 .. n
    <3>1. Q2[j][k] = a[k]
      BY <2>3, <2>4, <2>6
    <3>2. a[k] = Q[j][k] /\ (Q[j][k].flow = f => same)
      BY <3>1, <2>2, <2>5, <2>6
    <3>3. k \in DOMAIN Q[j] /\ Q[j][k].flow = g /\ Q[j][k].near /\ Q[j][k].count = d
      BY <3>1, <3>2, <2>1, <2>5, <2>6
    <3>. QED BY <3>2, <3>3 DEF Spot
  <2>7. CASE k \notin 1 .. n
    <3>1. j = i /\ k = n + 1
      BY <2>1, <2>3, <2>4, <2>5, <2>7
    <3>2. Q2[j][k] = p
      BY <3>1, <2>3, <2>4
    <3>. QED BY <3>1, <3>2, <2>5 DEF n
  <2>. QED BY <2>6, <2>7
<1>. HIDE DEF Q2
<1>4. Joined(Q, Q2, f, i, p.count, p.near, same)
  BY <1>3 DEF Joined
<1>. QED BY <1>2, <1>4 DEF Q2

\* F2 is F with another packet counted of flow f, which had c of the message; if it
\* is near, its queue i is as far ahead of r as its slot.
Counted(F, F2, r, f, i, c, near, same) ==
    /\ \A g \in Flow : g # f => F2[g] = F[g]
    /\ same => c = F[f] /\ F[f] <= F2[f]
    /\ near => F2[f] = c + 1 /\ Dist(i, r) = Slot(c)

Grown(Q, F, Q2, F2, r, f, i, c, near, same) ==
    /\ Q \in [Queues -> Seq(Approximate!Packet)] /\ F \in [Flow -> Nat] /\ F2 \in [Flow -> Nat]
    /\ r \in Queues /\ f \in Flow /\ i \in Queues /\ c \in Nat
    /\ near \in BOOLEAN /\ same \in BOOLEAN
    /\ Ahead(Q, F, r) /\ Ordered(Q, r)
    /\ Joined(Q, Q2, f, i, c, near, same) /\ Counted(F, F2, r, f, i, c, near, same)

\* A packet whose queue is as far ahead as its slot keeps what is near ahead,
LEMMA AheadJoined ==
    ASSUME NEW Q, NEW Q2, NEW F \in [Flow -> Nat], NEW F2 \in [Flow -> Nat], NEW r \in Queues,
           NEW f \in Flow, NEW i \in Queues, NEW c \in Nat,
           NEW near \in BOOLEAN, NEW same \in BOOLEAN,
           Ahead(Q, F, r), Joined(Q, Q2, f, i, c, near, same),
           Counted(F, F2, r, f, i, c, near, same)
    PROVE  Ahead(Q2, F2, r)
<1>. SUFFICES ASSUME NEW g \in Flow, NEW j \in Queues, NEW k \in Nat, NEW d \in Nat,
                     Spot(Q2, g, j, k, d)
              PROVE  d < F2[g] /\ Dist(j, r) <= Slot(d)
  BY DEF Ahead
<1>1. CASE Spot(Q, g, j, k, d) /\ (g = f => same)
  <2>1. d < F[g] /\ Dist(j, r) <= Slot(d)
    BY <1>1 DEF Ahead
  <2>2. F[g] \in Nat /\ F2[g] \in Nat /\ F[g] <= F2[g]
    BY <1>1 DEF Counted
  <2>. QED BY <2>1, <2>2
<1>2. CASE g = f /\ j = i /\ near /\ d = c /\ k = Len(Q[i]) + 1
  <2>1. Slot(c) \in Nat /\ F2[f] = c + 1 /\ Dist(i, r) = Slot(c)
    BY <1>2, SlotGrows DEF Counted
  <2>. QED BY <1>2, <2>1
<1>. QED BY <1>1, <1>2 DEF Joined

\* and comes after all that is near of its message.
LEMMA NewIsLast ==
    ASSUME NEW Q \in [Queues -> Seq(Approximate!Packet)], NEW F \in [Flow -> Nat], NEW r \in Queues,
           NEW f \in Flow, NEW i \in Queues, NEW c \in Nat,
           Ahead(Q, F, r), c = F[f], Dist(i, r) = Slot(c),
           NEW j \in Queues, NEW k \in Nat, NEW d \in Nat, Spot(Q, f, j, k, d)
    PROVE  /\ InOrder(r, j, k, d, i, Len(Q[i]) + 1, c)
           /\ InOrder(r, i, Len(Q[i]) + 1, c, j, k, d)
<1>1. d < c /\ Dist(j, r) <= Slot(d)
  BY DEF Ahead
<1>2. Slot(d) <= Slot(c) /\ Slot(c) \in Nat /\ Slot(d) \in Nat
  BY <1>1, SlotGrows
<1>3. /\ Dist(j, r) \in Queues /\ Dist(i, r) \in Queues
      /\ Plus(r, Dist(j, r)) = j /\ Plus(r, Dist(i, r)) = i
  BY DistPlus
<1>4. Dist(j, r) = Dist(i, r) => j = i
  BY <1>3
<1>5. j = i => k < Len(Q[i]) + 1
  <2>1. Len(Q[j]) \in Nat /\ DOMAIN Q[j] = 1 .. Len(Q[j])
    BY LenProperties
  <2>2. k \in DOMAIN Q[j]
    BY DEF Spot
  <2>. QED BY <2>1, <2>2
<1>6. i = j => Slot(c) = Slot(d)
  <2>1. i = j => Dist(i, r) <= Slot(d)
    BY <1>1
  <2>2. Slot(c) = Dist(i, r)
    OBVIOUS
  <2>. QED BY <2>1, <2>2, <1>2
<1>7. Dist(j, r) < Dist(i, r) \/ Dist(j, r) = Dist(i, r)
  <2>1. Dist(i, r) = Slot(c) /\ Dist(j, r) \in Nat
    BY <1>3, AFQConstants
  <2>. QED BY <2>1, <1>1, <1>2
<1>. QED BY <1>1, <1>4, <1>5, <1>6, <1>7 DEF InOrder

\* So the order stays.
LEMMA OrderedJoined ==
    ASSUME NEW Q, NEW Q2, NEW F, NEW F2, NEW r, NEW f, NEW i, NEW c, NEW near, NEW same,
           Grown(Q, F, Q2, F2, r, f, i, c, near, same)
    PROVE  Ordered(Q2, r)
<1>. USE DEF Grown
<1>. SUFFICES ASSUME NEW g \in Flow, NEW j \in Queues, NEW h \in Queues,
                     NEW k \in Nat, NEW l \in Nat, NEW d \in Nat, NEW e \in Nat,
                     Spot(Q2, g, j, k, d), Spot(Q2, g, h, l, e)
              PROVE  InOrder(r, j, k, d, h, l, e)
  BY DEF Ordered
<1> DEFINE New(n, m, x) == g = f /\ n = i /\ near /\ x = c /\ m = Len(Q[i]) + 1
<1>1. /\ (Spot(Q, g, j, k, d) /\ (g = f => same)) \/ New(j, k, d)
      /\ (Spot(Q, g, h, l, e) /\ (g = f => same)) \/ New(h, l, e)
  BY DEF Joined
<1>2. CASE Spot(Q, g, j, k, d) /\ Spot(Q, g, h, l, e)
  BY <1>2 DEF Ordered
<1>3. CASE New(j, k, d) /\ New(h, l, e)
  BY <1>3 DEF InOrder
<1>4. CASE Spot(Q, g, j, k, d) /\ (g = f => same) /\ New(h, l, e)
  <2>1. c = F[f] /\ Dist(i, r) = Slot(c) /\ Spot(Q, f, j, k, d)
    BY <1>4 DEF Counted
  <2>2. InOrder(r, j, k, d, i, Len(Q[i]) + 1, c)
    BY <2>1, NewIsLast
  <2>. QED BY <1>4, <2>2
<1>5. CASE New(j, k, d) /\ Spot(Q, g, h, l, e) /\ (g = f => same)
  <2>1. c = F[f] /\ Dist(i, r) = Slot(c) /\ Spot(Q, f, h, l, e)
    BY <1>5 DEF Counted
  <2>2. InOrder(r, i, Len(Q[i]) + 1, c, h, l, e)
    BY <2>1, NewIsLast
  <2>. QED BY <1>5, <2>2
<1>. HIDE DEF New
<1>. QED BY <1>1, <1>2, <1>3, <1>4, <1>5

\* A packet that comes keeps the invariant.
LEMMA AFQEnque ==
    ASSUME AFQInv, NEW f \in Flow, NEW m \in Message, Approximate!Enque(f, m)
    PROVE  AFQInv'
<1> DEFINE c == Approximate!Count(f, m)
           round == Approximate!RoundOf(Approximate!Bid(c))
           near == round - R < NumQueues
           i == Approximate!QueueFor(round)
           same == message_id[f] = m
           ce == Approximate!TotalLength + 1 > MarkAbove
           p == [flow |-> f, ce |-> ce, near |-> near, count |-> IF near THEN c ELSE 0]
           Q2 == Entered(q, f, i, p, same)
<1>1. /\ q \in [Queues -> Seq(Approximate!Packet)] /\ R \in Queues
      /\ message_id \in [Flow -> Message \cup {NoMessage}]
      /\ flow_count \in [Flow -> 0 .. MaxAFQCount]
  BY AFQTypes DEF AFQInv
<1>2. c \in 0 .. MaxAFQCount /\ c \in Nat /\ (same => c = flow_count[f])
  BY <1>1, AFQConstants DEF Approximate!Count
<1>3. /\ q' = Q2
      /\ flow_count' = [flow_count EXCEPT ![f] = IF c < MaxAFQCount THEN c + 1 ELSE c]
      /\ message_id' = [message_id EXCEPT ![f] = m]
      /\ R' = R
  BY DEF Approximate!Enque, Approximate!Queues, Queues, Aged, Entered
<1>. HIDE DEF c
<1>4. /\ round = R + Slot(c) /\ i \in Queues /\ Slot(c) \in Nat
      /\ Slot(c) < NumQueues => Slot(c) \in Queues /\ i = Plus(R, Slot(c))
  BY <1>1, <1>2, RoundIs, SlotGrows
<1>5. near <=> Slot(c) < NumQueues
  BY <1>1, <1>4, AFQConstants
<1>. HIDE DEF round
<1>6. near => Dist(i, R) = Slot(c)
  BY <1>1, <1>4, <1>5, DistPlus
<1>7. near => c < MaxAFQCount /\ c < NumQueues * BpR
  BY <1>2, <1>5, SlotNear
<1>8. p \in Approximate!Packet /\ p.flow = f /\ p.near = near /\ (near => p.count = c)
  <2>1. (IF near THEN c ELSE 0) \in 0 .. NumQueues * BpR
    BY <1>2, <1>7, AFQConstants
  <2>. HIDE DEF near, ce
  <2>2. near \in BOOLEAN /\ ce \in BOOLEAN
    BY DEF near, ce
  <2>. QED BY <2>1, <2>2 DEF Approximate!Packet
<1>9. near \in BOOLEAN /\ same \in BOOLEAN
  OBVIOUS
<1>. HIDE DEF near, same, i, ce, p
<1>10. /\ Q2 \in [Queues -> Seq(Approximate!Packet)]
       /\ Joined(q, Q2, f, i, p.count, p.near, same)
  BY <1>1, <1>4, <1>8, <1>9, Joins
<1>. HIDE DEF Q2
<1>11. Joined(q, Q2, f, i, c, near, same)
  BY <1>8, <1>10 DEF Joined
<1>12. flow_count' \in [Flow -> 0 .. MaxAFQCount]
  <2>1. (IF c < MaxAFQCount THEN c + 1 ELSE c) \in 0 .. MaxAFQCount
    BY <1>2, AFQConstants
  <2>. QED BY <1>1, <1>3, <2>1
<1>13. /\ flow_count \in [Flow -> Nat] /\ flow_count' \in [Flow -> Nat]
  <2>1. 0 .. MaxAFQCount \subseteq Nat
    BY AFQConstants
  <2>. QED BY <2>1, <1>1, <1>12
<1>14. Counted(flow_count, flow_count', R, f, i, c, near, same)
  <2>1. flow_count'[f] = IF c < MaxAFQCount THEN c + 1 ELSE c
    BY <1>1, <1>3
  <2>2. \A g \in Flow : g # f => flow_count'[g] = flow_count[g]
    BY <1>1, <1>3
  <2>. QED BY <2>1, <2>2, <1>2, <1>6, <1>7, AFQConstants DEF Counted
<1>15. Ahead(q, flow_count, R) /\ Ordered(q, R)
  BY DEF AFQInv
<1>16. Ahead(Q2, flow_count', R) /\ Ordered(Q2, R)
  <2>1. PICK A \in [Queues -> Seq(Approximate!Packet)], F \in [Flow -> Nat],
             G \in [Flow -> Nat], r \in Queues, x \in Queues, d \in Nat,
             n \in BOOLEAN, s \in BOOLEAN :
          /\ A = q /\ F = flow_count /\ G = flow_count' /\ r = R /\ x = i /\ d = c
          /\ n = near /\ s = same
    BY <1>1, <1>2, <1>4, <1>9, <1>13
  <2>2. PICK B : B = Q2
    OBVIOUS
  <2>3. /\ Ahead(A, F, r) /\ Ordered(A, r)
        /\ Joined(A, B, f, x, d, n, s) /\ Counted(F, G, r, f, x, d, n, s)
    BY <1>11, <1>14, <1>15, <2>1, <2>2
  <2>4. Ahead(B, G, r)
    BY <2>3, AheadJoined
  <2>5. Ordered(B, r)
    <3>1. /\ A \in [Queues -> Seq(Approximate!Packet)] /\ F \in [Flow -> Nat] /\ G \in [Flow -> Nat]
          /\ r \in Queues /\ f \in Flow /\ x \in Queues /\ d \in Nat
          /\ n \in BOOLEAN /\ s \in BOOLEAN
      OBVIOUS
    <3>2. Grown(A, F, B, G, r, f, x, d, n, s)
      BY ONLY <3>1, <2>3 DEF Grown
    <3>. QED BY ONLY <3>2, OrderedJoined
  <2>. QED BY <2>1, <2>2, <2>4, <2>5
<1>17. message_id' \in [Flow -> Message \cup {NoMessage}]
  BY <1>1, <1>3
<1>18. Approximate!TypeOK'
  BY <1>1, <1>3, <1>10, <1>12, <1>17 DEF Approximate!TypeOK, Approximate!Queues, Queues
<1>. QED BY <1>3, <1>16, <1>18 DEF AFQInv

\* Queue i of Q has a packet.
Holds(Q, i) == Q[i] # <<>>

\* The round moves on to the nearest queue that has packets.
LEMMA CurrentIs ==
    ASSUME R \in Queues, NEW h \in Queues, Holds(q, h)
    PROVE  \E n \in Queues :
             /\ Approximate!Current = Plus(R, n) /\ Holds(q, Plus(R, n))
             /\ \A j \in Queues : Holds(q, j) => n <= Dist(j, R)
<1> DEFINE First(n) == Holds(q, Plus(R, n)) /\ \A j \in 0 .. n - 1 : ~Holds(q, Plus(R, j))
           P(r) == \E k \in Queues : r = Plus(R, k) /\ First(k)
<1>1. NumQueues \in Nat /\ Queues = 0 .. NumQueues - 1
  BY AFQConstants
<1>2. \A n \in Queues : Plus(R, n) \in Queues
  BY DistPlus
<1>3. Approximate!Current = CHOOSE r \in Queues : P(r)
  <2>1. \A k \in Queues : (R + k) % NumQueues = Plus(R, k)
    BY DistIs
  <2>2. \A k \in Queues : \A j \in 0 .. k - 1 : j \in Queues
    BY <1>1
  <2>3. ASSUME NEW r \in Queues
        PROVE  P(r) <=> \E k \in Queues :
                          /\ r = (R + k) % NumQueues /\ q[r] # <<>>
                          /\ \A j \in 0 .. k - 1 : q[(R + j) % NumQueues] = <<>>
    <3>1. ASSUME NEW k \in Queues
          PROVE  r = Plus(R, k) /\ First(k) <=>
                   /\ r = (R + k) % NumQueues /\ q[r] # <<>>
                   /\ \A j \in 0 .. k - 1 : q[(R + j) % NumQueues] = <<>>
      <4>1. (R + k) % NumQueues = Plus(R, k)
            /\ \A j \in 0 .. k - 1 : (R + j) % NumQueues = Plus(R, j)
        BY <2>1, <2>2
      <4>. QED BY <4>1 DEF Holds
    <3>. QED BY <3>1
  <2>. QED BY <2>3 DEF Approximate!Current, Approximate!Queues, Queues
<1>4. \E r \in Queues : P(r)
  <2> DEFINE S == {n \in Queues : Holds(q, Plus(R, n))}
  <2>1. S \in SUBSET Nat
    BY <1>1
  <2>2. Dist(h, R) \in S
    BY DistPlus
  <2>3. PICK n \in S : \A j \in S : n <= j
    BY <2>1, <2>2, LeastNat
  <2>4. n \in Queues /\ Holds(q, Plus(R, n))
    OBVIOUS
  <2>5. ASSUME NEW j \in 0 .. n - 1 PROVE ~Holds(q, Plus(R, j))
    <3>1. j \in Queues /\ ~(n <= j)
      BY <1>1, <2>4
    <3>. QED BY <3>1, <2>3
  <2>6. P(Plus(R, n))
    BY <2>4, <2>5
  <2>. QED BY <1>2, <2>4, <2>6
<1>5. P(Approximate!Current)
  <2>. HIDE DEF P
  <2>. QED BY <1>3, <1>4
<1>6. PICK n \in Queues : Approximate!Current = Plus(R, n) /\ First(n)
  BY <1>5
<1>7. ASSUME NEW j \in Queues, Holds(q, j) PROVE n <= Dist(j, R)
  <2>1. Dist(j, R) \in Queues /\ Plus(R, Dist(j, R)) = j
    BY DistPlus
  <2>2. Dist(j, R) \notin 0 .. n - 1
    BY <1>6, <1>7, <2>1
  <2>. QED BY <1>1, <2>1, <2>2
<1>. QED BY <1>6, <1>7

\* Q2 is Q without the first packet of queue i.
Left(Q, Q2, i) ==
    \A g \in Flow, j \in Queues, k, d \in Nat :
        Spot(Q2, g, j, k, d) =>
            /\ Holds(Q, j)
            /\ k + 1 \in Nat
            /\ IF j = i THEN Spot(Q, g, j, k + 1, d) ELSE Spot(Q, g, j, k, d)

\* That is what deque does to the queues.
LEMMA Leaves ==
    ASSUME NEW Q \in [Queues -> Seq(Approximate!Packet)], NEW i \in Queues, Holds(Q, i)
    PROVE  /\ [Q EXCEPT ![i] = Tail(@)] \in [Queues -> Seq(Approximate!Packet)]
           /\ Left(Q, [Q EXCEPT ![i] = Tail(@)], i)
<1> DEFINE Q2 == [Q EXCEPT ![i] = Tail(@)]
           n == Len(Q[i])
<1>1. /\ Tail(Q[i]) \in Seq(Approximate!Packet) /\ Len(Tail(Q[i])) = n - 1
      /\ \A k \in 1 .. Len(Tail(Q[i])) : Tail(Q[i])[k] = Q[i][k + 1]
  BY HeadTailProperties DEF Holds
<1>2. Q2 \in [Queues -> Seq(Approximate!Packet)]
  BY <1>1
<1>3. n \in Nat /\ DOMAIN Q[i] = 1 .. n /\ DOMAIN Tail(Q[i]) = 1 .. n - 1
  BY <1>1, LenProperties
<1>4. ASSUME NEW g \in Flow, NEW j \in Queues, NEW k \in Nat, NEW d \in Nat,
             Spot(Q2, g, j, k, d)
      PROVE  /\ Holds(Q, j)
             /\ k + 1 \in Nat
             /\ IF j = i THEN Spot(Q, g, j, k + 1, d) ELSE Spot(Q, g, j, k, d)
  <2>1. CASE j = i
    <3>1. Q2[j] = Tail(Q[i])
      BY <2>1
    <3>. HIDE DEF Q2, n
    <3>2. k \in 1 .. n - 1 /\ Tail(Q[i])[k].flow = g /\ Tail(Q[i])[k].near
          /\ Tail(Q[i])[k].count = d
      BY <1>3, <1>4, <3>1 DEF Spot
    <3>3. Tail(Q[i])[k] = Q[i][k + 1] /\ k + 1 \in 1 .. n
      BY <1>1, <1>3, <3>2
    <3>. QED BY <2>1, <3>2, <3>3, <1>3 DEF Spot
  <2>2. CASE j # i
    <3>1. Q2[j] = Q[j]
      BY <2>2
    <3>. HIDE DEF Q2, n
    <3>2. Spot(Q, g, j, k, d)
      BY <1>4, <3>1 DEF Spot
    <3>3. Q[j] # <<>>
      <4>1. Q[j] \in Seq(Approximate!Packet) /\ k \in DOMAIN Q[j]
        BY <3>2 DEF Spot
      <4>2. k \in 1 .. Len(Q[j])
        BY <4>1, LenProperties
      <4>. QED BY <4>2, EmptySeq
    <3>. QED BY <2>2, <3>2, <3>3 DEF Holds
  <2>. QED BY <2>1, <2>2
<1>. HIDE DEF Q2
<1>5. Left(Q, Q2, i)
  BY <1>4 DEF Left
<1>. QED BY <1>2, <1>5 DEF Q2

\* Queues nearer to r than n hold nothing.
Cleared(Q, r, n) == \A j \in Queues : Holds(Q, j) => n <= Dist(j, r)

\* When the round moves on by n over them and its queue gives its first packet, what
\* is near has come n nearer, and keeps its order.
LEMMA LeftOrdered ==
    ASSUME NEW Q, NEW Q2, NEW F, NEW r \in Queues, NEW n \in Queues, NEW i \in Queues,
           Cleared(Q, r, n), Left(Q, Q2, i), Ahead(Q, F, r), Ordered(Q, r)
    PROVE  Ahead(Q2, F, Plus(r, n)) /\ Ordered(Q2, Plus(r, n))
<1>1. n \in Nat /\ \A j \in Queues : Dist(j, r) \in Nat
  <2>1. \A x \in Queues : x \in Nat
    BY AFQConstants
  <2>. QED BY <2>1, DistPlus
<1>2. ASSUME NEW j \in Queues, Holds(Q, j)
      PROVE  Dist(j, Plus(r, n)) = Dist(j, r) - n
  <2>1. n <= Dist(j, r)
    BY <1>2 DEF Cleared
  <2>2. Dist(j, r) >= n
    BY <2>1, <1>1
  <2>. QED BY <2>2, DistMoves
<1>3. ASSUME NEW f \in Flow, NEW j \in Queues, NEW k \in Nat, NEW c \in Nat,
             Spot(Q2, f, j, k, c)
      PROVE  c < F[f] /\ Dist(j, Plus(r, n)) <= Slot(c)
  <2>1. PICK l \in Nat : Spot(Q, f, j, l, c)
    BY <1>3 DEF Left
  <2>2. c < F[f] /\ Dist(j, r) <= Slot(c)
    BY <2>1 DEF Ahead
  <2>3. Dist(j, Plus(r, n)) = Dist(j, r) - n
    BY <1>2, <1>3 DEF Left
  <2>4. Slot(c) \in Nat
    BY SlotGrows
  <2>. QED BY <2>2, <2>3, <2>4, <1>1
<1>4. ASSUME NEW f \in Flow, NEW j \in Queues, NEW h \in Queues,
             NEW k \in Nat, NEW l \in Nat, NEW c \in Nat, NEW d \in Nat,
             Spot(Q2, f, j, k, c), Spot(Q2, f, h, l, d)
      PROVE  InOrder(Plus(r, n), j, k, c, h, l, d)
  <2> DEFINE a == IF j = i THEN k + 1 ELSE k
             b == IF h = i THEN l + 1 ELSE l
  <2>1. /\ Spot(Q, f, j, a, c) /\ Spot(Q, f, h, b, d) /\ a \in Nat /\ b \in Nat
        /\ Holds(Q, j) /\ Holds(Q, h)
    BY <1>4 DEF Left
  <2>2. j = h => (a = b <=> k = l) /\ (a < b <=> k < l)
    OBVIOUS
  <2>. HIDE DEF a, b
  <2>3. InOrder(r, j, a, c, h, b, d)
    BY <2>1 DEF Ordered
  <2>4. Dist(j, Plus(r, n)) = Dist(j, r) - n /\ Dist(h, Plus(r, n)) = Dist(h, r) - n
    BY <2>1, <1>2
  <2>5. Dist(j, r) < Dist(h, r) => Dist(j, Plus(r, n)) < Dist(h, Plus(r, n))
    BY <2>4, <1>1
  <2>. QED BY <2>2, <2>3, <2>5 DEF InOrder
<1>5. Ahead(Q2, F, Plus(r, n))
  BY <1>3 DEF Ahead
<1>6. Ordered(Q2, Plus(r, n))
  BY <1>4 DEF Ordered
<1>. QED BY <1>5, <1>6

\* A packet that leaves keeps the invariant.
LEMMA AFQDeque ==
    ASSUME AFQInv, Approximate!Deque
    PROVE  AFQInv'
<1>1. /\ q \in [Queues -> Seq(Approximate!Packet)] /\ R \in Queues
      /\ Ahead(q, flow_count, R) /\ Ordered(q, R)
  BY AFQTypes DEF AFQInv
<1>2. PICK h \in Queues : Holds(q, h)
  <2>1. Approximate!TotalLength # 0
    BY DEF Approximate!Deque
  <2>. QED BY <2>1, SomeRoundHolds DEF Holds
<1>3. PICK n \in Queues :
         /\ Approximate!Current = Plus(R, n) /\ Holds(q, Plus(R, n))
         /\ \A j \in Queues : Holds(q, j) => n <= Dist(j, R)
  BY <1>1, <1>2, CurrentIs
<1>4. PICK i \in Queues : i = Plus(R, n)
  BY <1>1, DistPlus
<1>5. /\ R' = i /\ q' = [q EXCEPT ![i] = Tail(@)]
      /\ message_id' = message_id /\ flow_count' = flow_count
  BY <1>3, <1>4 DEF Approximate!Deque
<1>6. q' \in [Queues -> Seq(Approximate!Packet)] /\ Left(q, q', i)
  BY <1>1, <1>3, <1>4, <1>5, Leaves
<1>7. Cleared(q, R, n)
  BY <1>3 DEF Cleared
<1>8. Ahead(q', flow_count', R') /\ Ordered(q', R')
  <2>1. PICK r \in Queues : r = R
    BY <1>1
  <2>2. PICK A, B, F : A = q /\ B = q' /\ F = flow_count
    OBVIOUS
  <2>3. Cleared(A, r, n) /\ Left(A, B, i) /\ Ahead(A, F, r) /\ Ordered(A, r)
    BY <1>1, <1>6, <1>7, <2>1, <2>2
  <2>4. Ahead(B, F, Plus(r, n)) /\ Ordered(B, Plus(r, n))
    BY <2>3, LeftOrdered
  <2>. QED BY <2>1, <2>2, <2>4, <1>4, <1>5
<1>9. Approximate!TypeOK'
  BY <1>1, <1>5, <1>6, AFQTypes DEF AFQInv, Approximate!TypeOK, Approximate!Queues, Queues
<1>. QED BY <1>8, <1>9 DEF AFQInv

------------------------------------------------------------------------------
(* The ports                                                               *)

\* Which kind the port is never changes; what it keeps is its own invariant.
PortInv ==
    /\ kind = "qc" => FairInv
    /\ kind = "afq" => AFQInv
    /\ kind = "ideal" => IdealInv

LEMMA PortInit == MCInit => PortInv
<1>. SUFFICES ASSUME MCInit PROVE PortInv
  OBVIOUS
<1>1. Init /\ R = 0 /\ (kind = "ideal" => Ideal!Init)
  BY DEF MCInit
<1>2. Approximate!Init
  BY <1>1 DEF Init, Approximate!Init, Approximate!Queues, Queues
<1>. QED BY <1>1, <1>2, FairInit, AFQInit, IdealInit DEF PortInv

LEMMA PortStep == PortInv /\ [MCNext]_portVars => PortInv'
<1>. SUFFICES ASSUME PortInv, [MCNext]_portVars PROVE PortInv'
  OBVIOUS
<1>1. CASE kind = "qc" /\ Depart /\ kind' = kind
  <2>1. FairInv /\ kind' = "qc"
    BY <1>1 DEF PortInv
  <2>2. PICK i \in Queues : Deque(i)
    BY <1>1 DEF Depart
  <2>3. FairInv'
    BY <2>1, <2>2, FairDeque
  <2>. QED BY <2>1, <2>3 DEF PortInv
<1>2. CASE kind = "qc" /\ Arrive /\ kind' = kind
  <2>1. FairInv /\ kind' = "qc"
    BY <1>2 DEF PortInv
  <2>2. PICK f \in Flow, m \in Message, size \in Sizes, ect \in BOOLEAN :
           Enque(f, m, size, ect)
    BY <1>2 DEF Arrive
  <2>3. FairInv'
    BY <2>1, <2>2, FairEnque
  <2>. QED BY <2>1, <2>3 DEF PortInv
<1>3. CASE kind = "afq" /\ Approximate!Next /\ kind' = kind
  <2>1. AFQInv /\ kind' = "afq"
    BY <1>3 DEF PortInv
  <2>2. CASE Approximate!Deque
    <3>1. AFQInv'
      BY <2>1, <2>2, AFQDeque
    <3>. QED BY <2>1, <3>1 DEF PortInv
  <2>3. CASE \E f \in Flow, m \in Message : Approximate!Enque(f, m)
    <3>1. PICK f \in Flow, m \in Message : Approximate!Enque(f, m)
      BY <2>3
    <3>2. AFQInv'
      BY <2>1, <3>1, AFQEnque
    <3>. QED BY <2>1, <3>2 DEF PortInv
  <2>. QED BY <1>3, <2>2, <2>3 DEF Approximate!Next
<1>4. CASE kind = "ideal" /\ Ideal!Next /\ kind' = kind
  <2>1. IdealInv /\ kind' = "ideal"
    BY <1>4 DEF PortInv
  <2>2. CASE \E m \in DOMAIN Hash : Ideal!Enque(m)
    <3>1. PICK m \in DOMAIN Hash : Ideal!Enque(m)
      BY <2>2
    <3>2. IdealInv'
      BY <2>1, <3>1, IdealEnque
    <3>. QED BY <2>1, <3>2 DEF PortInv
  <2>3. CASE \E k \in 1 .. NumQueues : Ideal!Deque(k)
    <3>1. PICK k \in 1 .. NumQueues : Ideal!Deque(k)
      BY <2>3
    <3>2. IdealInv'
      BY <2>1, <3>1, IdealDeque
    <3>. QED BY <2>1, <3>2 DEF PortInv
  <2>. QED BY <1>4, <2>2, <2>3 DEF Ideal!Next
<1>5. CASE UNCHANGED portVars
  <2>1. /\ q' = q /\ message_id' = message_id /\ flow_count' = flow_count
        /\ current_flow' = current_flow /\ rr_times' = rr_times
        /\ kind' = kind /\ R' = R /\ next' = next /\ qid' = qid /\ tail' = tail
        /\ turns' = turns
    BY <1>5 DEF portVars, vars, idealOnly
  <2>2. FairInv => FairInv'
    BY <2>1 DEF FairInv, TypeOK, FlowsAreContents, PacketsOf, RoundFits
  <2>3. AFQInv => AFQInv'
    BY <2>1, AFQTypes DEF AFQInv, Approximate!TypeOK, Approximate!Queues, Queues
  <2>4. IdealInv => IdealInv'
    BY <2>1 DEF IdealInv, Ideal!TypeOK
  <2>. QED BY <2>1, <2>2, <2>3, <2>4 DEF PortInv
<1>. QED BY <1>1, <1>2, <1>3, <1>4, <1>5 DEF MCNext, MCDepart

LEMMA PortInvariant == MCSpec => []PortInv
<1>. QED BY PortInit, PortStep, PTL DEF MCSpec

\* FQ_QC's tables say what its queues hold, no queue is asked for more than it holds,
\* and a packet leaves whenever the port holds one (FQ_QC.cc:91-95, 123-152).
THEOREM QCIsFair == MCSpec => []QCServes
<1>1. PortInv => QCServes
  BY FairServes DEF PortInv, QCServes, FairInv
<1>. QED BY <1>1, PortInvariant, PTL

\* FQ_AFQ keeps the packets of a message in order and gives it no more than BpR
\* packets of a round (FQ_AFQ.cc:56-63).
THEOREM RoundsAreFair == MCSpec => []AFQRounds
<1>1. PortInv => AFQRounds
  BY AFQOrder, AFQShare DEF PortInv, AFQRounds
<1>. QED BY <1>1, PortInvariant, PTL

\* FQ_Ideal's list stays a permutation of the queues, none of which is served twice
\* while another one waits (FQ_Ideal.cc:64-83).
THEOREM TurnsAreFair == MCSpec => []IdealTurns
<1>1. PortInv => IdealTurns
  BY IdealChecked DEF PortInv, IdealTurns
<1>. QED BY <1>1, PortInvariant, PTL

==============================================================================
