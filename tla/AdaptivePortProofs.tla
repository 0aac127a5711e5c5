------------------------- MODULE AdaptivePortProofs -------------------------
(***************************************************************************)
(* The ports with strict priorities do what StrictPriority promises, never *)
(* take a flow for longer than its message is, never lose a class that is  *)
(* in use, and bring the classes into use one after the other: for any     *)
(* number of classes, flows and packets, and any averages.                 *)
(*                                                                         *)
(* The thresholds are a recursive function of the averages, which has to   *)
(* be shown to exist (ThresholdsExist) before anything can be said of its  *)
(* values; so have the root and the class that are chosen.                 *)
(***************************************************************************)
EXTENDS AdaptivePort, Arithmetic, SequenceTheorems

------------------------------------------------------------------------------
(* Thresholds                                                              *)

\* What is learnt of the classes are numbers.
Learnt == counting \in [Classes -> Nat] /\ distinct \in [Classes -> Nat]

\* The constants that thresholds are made of.
LEMMA Units ==
    /\ Unit \in Nat \ {0} /\ Jump * Unit \in Nat /\ Step * Unit \in Nat
    /\ Jump * Unit > 0 /\ Step * Unit > 0 /\ Jump \in Nat /\ Step \in Nat
    /\ NumQueues \in Nat \ {0} /\ NumQueues - 1 \in Classes
<1>1. Unit \in Nat \ {0} /\ Jump \in Nat \ {0} /\ Step \in Nat \ {0} /\ NumQueues \in Nat \ {0}
  BY PortAssumption
<1>2. Jump * Unit >= Unit /\ Step * Unit >= Unit
  BY <1>1, MulGap
<1>. QED BY <1>1, <1>2 DEF Classes

\* Every number has a root, rounded down.
LEMMA RootExists == ASSUME NEW x \in Nat PROVE Root(x) \in Nat
<1> DEFINE S == {r \in Nat : x < (r + 1) * (r + 1)}
<1>1. x \in S
  <2>1. (x + 1) * (x + 1) = x * x + 2 * x + 1
    OBVIOUS
  <2>2. x * x \in Nat
    BY TimesMonotone
  <2>. QED BY <2>1, <2>2
<1>2. PICK r \in S : \A y \in S : r <= y
  BY <1>1, LeastNat
<1>3. r \in 0 .. x /\ x < (r + 1) * (r + 1)
  BY <1>1, <1>2
<1>4. r * r <= x
  <2>1. CASE r = 0
    BY <2>1
  <2>2. CASE r # 0
    <3>1. r - 1 \in Nat /\ r - 1 \notin S
      BY <1>2, <1>3, <2>2
    <3>2. ~(x < (r - 1 + 1) * (r - 1 + 1)) /\ r - 1 + 1 = r
      BY <1>3, <3>1
    <3>3. ~(x < r * r)
      BY <3>2
    <3>. QED BY <1>3, <3>3
  <2>. QED BY <2>1, <2>2
<1>. HIDE DEF S
<1>5. Root(x) \in 0 .. x
  BY <1>3, <1>4 DEF Root
<1>. QED BY <1>5

\* An average is a number.
LEMMA AverageNat == ASSUME Learnt, NEW i \in Classes PROVE Average(i) \in Nat
<1>1. counting[i] \in Nat /\ distinct[i] \in Nat /\ Unit \in Nat /\ Unit > 0
  BY Units DEF Learnt
<1>2. counting[i] * Unit \in Nat
  BY <1>1, TimesMonotone
<1>3. CASE distinct[i] < Unit
  BY <1>3 DEF Average
<1>4. CASE ~(distinct[i] < Unit)
  <2>1. distinct[i] > 0
    BY <1>1, <1>4
  <2>. QED BY <1>1, <1>2, <1>4, <2>1, DivNat DEF Average
<1>. QED BY <1>3, <1>4

\* A threshold is a number, above the one below it.
LEMMA ThresholdRises ==
    ASSUME Learnt, NEW i \in 0 .. NumQueues - 2, NEW below \in Nat
    PROVE  /\ Threshold(i, below) \in Nat
           /\ i > 0 => below < Threshold(i, below)
           /\ ~Used(i) => Threshold(i, below) = below + Jump * Unit
<1>1. i \in Classes /\ i + 1 \in Classes /\ distinct[i] \in Nat
  BY Units DEF Classes, Learnt
<1>2. Average(i) \in Nat /\ Average(i + 1) \in Nat
  BY <1>1, AverageNat
<1>3. Average(i) * Average(i + 1) \in Nat
  BY <1>2, TimesMonotone
<1>4. Between(i) \in Nat
  <2>1. Root(Average(i) * Average(i + 1)) \in Nat
    BY <1>3, RootExists
  <2>. QED BY <1>2, <2>1 DEF Between, Larger
<1>. QED BY <1>1, <1>4, Units DEF Threshold, Used

\* f is made of thresholds up to class k.
Made(f, k) == f = [i \in 0 .. k |-> Threshold(i, IF i = 0 THEN 0 ELSE f[i - 1])]

\* There are thresholds, however many classes there are.
LEMMA ThresholdsExist ==
    ASSUME Learnt
    PROVE  \A k \in Nat : k <= NumQueues - 2 => \E f \in [0 .. k -> Nat] : Made(f, k)
<1> DEFINE S == {k \in Nat : k <= NumQueues - 2 => \E f \in [0 .. k -> Nat] : Made(f, k)}
<1>1. 0 \in S
  <2>. SUFFICES ASSUME 0 <= NumQueues - 2 PROVE \E f \in [0 .. 0 -> Nat] : Made(f, 0)
    OBVIOUS
  <2> DEFINE f == [i \in 0 .. 0 |-> Threshold(0, 0)]
  <2>1. 0 \in 0 .. NumQueues - 2 /\ 0 \in Nat
    BY Units
  <2>2. Threshold(0, 0) \in Nat
    BY <2>1, ThresholdRises
  <2>3. f \in [0 .. 0 -> Nat]
    BY <2>2
  <2>4. \A i \in 0 .. 0 : i = 0
    OBVIOUS
  <2>5. Made(f, 0)
    BY <2>4 DEF Made
  <2>. QED BY <2>3, <2>5
<1>2. ASSUME NEW k \in S PROVE k + 1 \in S
  <2>0. k \in Nat
    OBVIOUS
  <2>. SUFFICES ASSUME k + 1 <= NumQueues - 2
                PROVE  \E f \in [0 .. k + 1 -> Nat] : Made(f, k + 1)
    BY <2>0
  <2>1. k <= NumQueues - 2 /\ k + 1 \in 0 .. NumQueues - 2
    BY <2>0, Units
  <2>2. PICK f \in [0 .. k -> Nat] : Made(f, k)
    BY <2>1
  <2> DEFINE t == Threshold(k + 1, f[k])
             g == [i \in 0 .. k + 1 |-> IF i <= k THEN f[i] ELSE t]
  <2>3. t \in Nat
    <3>1. f[k] \in Nat
      BY <2>0
    <3>. QED BY <2>1, <3>1, ThresholdRises
  <2>. HIDE DEF t
  <2>4. g \in [0 .. k + 1 -> Nat]
    BY <2>0, <2>3
  <2>5. ASSUME NEW i \in 0 .. k + 1
        PROVE  g[i] = Threshold(i, IF i = 0 THEN 0 ELSE g[i - 1])
    <3>1. CASE i = k + 1
      <4>1. g[i] = t /\ i # 0 /\ i - 1 = k /\ g[k] = f[k]
        BY <2>0, <3>1
      <4>. HIDE DEF g
      <4>. QED BY <3>1, <4>1 DEF t
    <3>2. CASE i # k + 1
      <4>1. i \in 0 .. k
        BY <2>0, <3>2
      <4>2. g[i] = f[i] /\ (i # 0 => g[i - 1] = f[i - 1])
        BY <2>0, <4>1
      <4>3. f[i] = Threshold(i, IF i = 0 THEN 0 ELSE f[i - 1])
        BY <2>2, <4>1 DEF Made
      <4>. HIDE DEF g
      <4>4. CASE i = 0
        BY <4>2, <4>3, <4>4
      <4>5. CASE i # 0
        BY <4>2, <4>3, <4>5
      <4>. QED BY <4>4, <4>5
    <3>. QED BY <3>1, <3>2
  <2>6. Made(g, k + 1)
    <3>1. g = [i \in 0 .. k + 1 |-> g[i]]
      OBVIOUS
    <3>. HIDE DEF g
    <3>. QED BY <2>5, <3>1 DEF Made
  <2>. QED BY <2>4, <2>6
<1>. HIDE DEF S
<1>3. \A k \in Nat : k \in S
  BY <1>1, <1>2, SetInduction DEF S
<1>. QED BY <1>3 DEF S

\* Each threshold comes of the one below it, and all are numbers.
LEMMA ThresholdsUnfold ==
    ASSUME Learnt
    PROVE  \A i \in 0 .. NumQueues - 2 :
              /\ thresholds[i] \in Nat
              /\ thresholds[i] = Threshold(i, IF i = 0 THEN 0 ELSE thresholds[i - 1])
<1>1. CASE ~(NumQueues - 2 \in Nat)
  BY <1>1, Units
<1>2. CASE NumQueues - 2 \in Nat
  <2>1. \E f : Made(f, NumQueues - 2)
    BY <1>2, ThresholdsExist
  <2>2. thresholds = CHOOSE f : Made(f, NumQueues - 2)
    BY DEF thresholds, Made
  <2>3. Made(thresholds, NumQueues - 2)
    BY <2>1, <2>2
  <2>4. \A i \in 0 .. NumQueues - 2 :
           thresholds[i] = Threshold(i, IF i = 0 THEN 0 ELSE thresholds[i - 1])
    <3> DEFINE f == thresholds
    <3>1. f = [i \in 0 .. NumQueues - 2 |-> Threshold(i, IF i = 0 THEN 0 ELSE f[i - 1])]
      BY <2>3 DEF Made
    <3>. HIDE DEF f
    <3>2. \A i \in 0 .. NumQueues - 2 : f[i] = Threshold(i, IF i = 0 THEN 0 ELSE f[i - 1])
      BY <3>1
    <3>. QED BY <3>2 DEF f
  <2> DEFINE S == {k \in Nat : k <= NumQueues - 2 => thresholds[k] \in Nat}
  <2>5. 0 \in S
    <3>1. 0 \in 0 .. NumQueues - 2 /\ 0 \in Nat
      BY <1>2
    <3>2. Threshold(0, 0) \in Nat
      BY <3>1, ThresholdRises
    <3>3. thresholds[0] = Threshold(0, 0)
      BY <2>4, <3>1
    <3>. QED BY <3>2, <3>3
  <2>6. ASSUME NEW k \in S PROVE k + 1 \in S
    <3>0. k \in Nat
      OBVIOUS
    <3>. SUFFICES ASSUME k + 1 <= NumQueues - 2 PROVE thresholds[k + 1] \in Nat
      BY <3>0
    <3>1. k <= NumQueues - 2 /\ k + 1 \in 0 .. NumQueues - 2 /\ k + 1 # 0 /\ k + 1 - 1 = k
      BY <1>2, <3>0
    <3>2. thresholds[k] \in Nat
      BY <3>1
    <3>3. Threshold(k + 1, thresholds[k]) \in Nat
      BY <3>1, <3>2, ThresholdRises
    <3>4. thresholds[k + 1] = Threshold(k + 1, thresholds[k])
      BY <2>4, <3>1
    <3>. QED BY <3>3, <3>4
  <2>. HIDE DEF S
  <2>7. \A k \in Nat : k \in S
    BY <2>5, <2>6, SetInduction DEF S
  <2>8. \A i \in 0 .. NumQueues - 2 : thresholds[i] \in Nat
    BY <1>2, <2>7 DEF S
  <2>. QED BY <2>4, <2>8
<1>. QED BY <1>1, <1>2

\* They rise, and one that belongs to a class without packets leaps.
LEMMA ThresholdsRise ==
    ASSUME Learnt
    PROVE  /\ \A i \in 1 .. NumQueues - 2 : thresholds[i - 1] < thresholds[i]
           /\ \A i \in 0 .. NumQueues - 2 : ~Used(i) => thresholds[i] >= Jump * Unit
<1>1. ASSUME NEW i \in 1 .. NumQueues - 2 PROVE thresholds[i - 1] < thresholds[i]
  <2>1. i \in 0 .. NumQueues - 2 /\ i - 1 \in 0 .. NumQueues - 2 /\ i # 0 /\ i > 0
    BY Units
  <2>2. thresholds[i - 1] \in Nat /\ thresholds[i] = Threshold(i, thresholds[i - 1])
    BY <2>1, ThresholdsUnfold
  <2>. QED BY <2>1, <2>2, ThresholdRises
<1>2. ASSUME NEW i \in 0 .. NumQueues - 2, ~Used(i) PROVE thresholds[i] >= Jump * Unit
  <2> DEFINE below == IF i = 0 THEN 0 ELSE thresholds[i - 1]
  <2>1. below \in Nat
    <3>1. i # 0 => i - 1 \in 0 .. NumQueues - 2
      BY Units
    <3>. QED BY <3>1, ThresholdsUnfold
  <2>2. thresholds[i] = Threshold(i, below)
    BY ThresholdsUnfold
  <2>. HIDE DEF below
  <2>3. thresholds[i] = below + Jump * Unit
    BY <1>2, <2>1, <2>2, ThresholdRises
  <2>. QED BY <2>1, <2>3, Units
<1>. QED BY <1>1, <1>2

\* Every value has a class, and lies above the thresholds of the classes before.
LEMMA ClassExists ==
    ASSUME Learnt, NEW value \in Nat
    PROVE  /\ ClassOf(value) \in Classes
           /\ \A j \in 0 .. ClassOf(value) - 1 : value * Unit > thresholds[j] + Unit
<1> DEFINE Under(i) == i = NumQueues - 1 \/ value * Unit <= thresholds[i] + Unit
           S == {i \in Nat : i \in Classes /\ Under(i)}
           Right(i) == /\ i = NumQueues - 1 \/ value * Unit <= thresholds[i] + Unit
                       /\ \A j \in 0 .. i - 1 : value * Unit > thresholds[j] + Unit
<1>1. NumQueues - 1 \in S
  BY Units
<1>2. PICK i \in S : \A j \in S : i <= j
  BY <1>1, LeastNat
<1>3. i \in Classes /\ Under(i)
  BY <1>2
<1>4. ASSUME NEW j \in 0 .. i - 1 PROVE value * Unit > thresholds[j] + Unit
  <2>1. j \in Nat /\ j \in Classes /\ j # NumQueues - 1 /\ ~(i <= j) /\ j \in 0 .. NumQueues - 2
    BY <1>3, Units DEF Classes
  <2>2. ~(value * Unit <= thresholds[j] + Unit)
    BY <1>2, <2>1
  <2>3. thresholds[j] \in Nat /\ Unit \in Nat
    BY <2>1, ThresholdsUnfold, Units
  <2>4. value * Unit \in Nat /\ thresholds[j] + Unit \in Nat
    BY <2>3, TimesMonotone
  <2>. QED BY <2>2, <2>4
<1>5. Right(i)
  BY <1>3, <1>4
<1>. HIDE DEF S, Under
<1>6. \E k \in Classes : Right(k)
  BY <1>3, <1>5
<1>7. ClassOf(value) = CHOOSE k \in Classes : Right(k)
  BY DEF ClassOf
<1>. HIDE DEF Right
<1>8. ClassOf(value) \in Classes /\ Right(ClassOf(value))
  BY <1>6, <1>7
<1>. QED BY <1>8 DEF Right

------------------------------------------------------------------------------
(* The invariant                                                           *)

\* The packets of a class came one after the other.
Order ==
    \A i \in Classes : \A k, l \in DOMAIN q[i] :
        q[i][k].n <= n /\ (k < l => q[i][k].n < q[i][l].n)

IInv == TypeOK /\ NeverOverestimates /\ Order

\* What waits, as StrictPriority sees it.
Waiting == UNION {{[n |-> q[i][k].n, class |-> i] : k \in DOMAIN q[i]} : i \in Classes}

\* A packet waits when some class holds it.
LEMMA WaitingIs ==
    \A p : p \in Waiting <=> \E i \in Classes : \E k \in DOMAIN q[i] :
                                p = [n |-> q[i][k].n, class |-> i]
BY DEF Waiting

\* A packet that is put into a class waits there behind all that came before.
LEMMA PutKeeps ==
    ASSUME TypeOK, Order, NEW i \in Classes, NEW size \in Nat, Put(i, size)
    PROVE  /\ q' \in [Classes -> Seq(Packet)] /\ n' = n + 1 /\ n' \in 0 .. MaxArrivals
           /\ Order'
           /\ n + 1 \in 1 .. MaxArrivals
           /\ \A r \in Waiting : r.n < n + 1
           /\ Waiting' = Waiting \cup {[n |-> n + 1, class |-> i]}
<1> DEFINE p == [n |-> n + 1, size |-> size, ce |-> TotalByteLength + size > MarkAbove]
<1>1. /\ n < MaxArrivals /\ n' = n + 1 /\ q' = [q EXCEPT ![i] = Append(@, p)]
  BY DEF Put
<1>2. /\ n \in Nat /\ MaxArrivals \in Nat /\ n + 1 \in 1 .. MaxArrivals /\ n' \in 0 .. MaxArrivals
      /\ q \in [Classes -> Seq(Packet)]
  BY <1>1, PortAssumption DEF TypeOK
<1>3. p \in Packet /\ p.n = n + 1
  <2>1. (TotalByteLength + size > MarkAbove) \in BOOLEAN
    OBVIOUS
  <2>. QED BY <1>2, <2>1 DEF Packet
<1>. HIDE DEF p
<1>4. q[i] \in Seq(Packet)
  BY <1>2
<1>5. /\ Append(q[i], p) \in Seq(Packet) /\ Len(q[i]) \in Nat
      /\ DOMAIN Append(q[i], p) = 1 .. Len(q[i]) + 1
      /\ DOMAIN q[i] = 1 .. Len(q[i])
      /\ \A k \in 1 .. Len(q[i]) : Append(q[i], p)[k] = q[i][k]
      /\ Append(q[i], p)[Len(q[i]) + 1] = p
  BY <1>3, <1>4, AppendProperties, LenProperties
<1>6. /\ q' \in [Classes -> Seq(Packet)] /\ q'[i] = Append(q[i], p)
      /\ \A j \in Classes : j # i => q'[j] = q[j]
  BY <1>1, <1>2, <1>5
<1>7. ASSUME NEW j \in Classes PROVE /\ DOMAIN q[j] = 1 .. Len(q[j]) /\ Len(q[j]) \in Nat
                                     /\ \A k \in DOMAIN q[j] : q[j][k].n \in 1 .. MaxArrivals
  <2>1. q[j] \in Seq(Packet)
    BY <1>2
  <2>2. DOMAIN q[j] = 1 .. Len(q[j]) /\ Len(q[j]) \in Nat
    BY <2>1, LenProperties
  <2>3. \A k \in DOMAIN q[j] : q[j][k] \in Packet
    BY <2>1, <2>2, ElementOfSeq
  <2>. QED BY <2>2, <2>3 DEF Packet
<1>8. \A j \in Classes : \A k, l \in DOMAIN q[j] : q[j][k].n <= n /\ (k < l => q[j][k].n < q[j][l].n)
  BY DEF Order
<1>9. Order'
  <2>1. ASSUME NEW j \in Classes, NEW k \in DOMAIN q'[j], NEW l \in DOMAIN q'[j]
        PROVE  q'[j][k].n <= n + 1 /\ (k < l => q'[j][k].n < q'[j][l].n)
    <3>1. CASE j # i
      <4>1. q'[j] = q[j] /\ k \in DOMAIN q[j] /\ l \in DOMAIN q[j]
        BY <1>6, <3>1
      <4>2. q[j][k].n \in 1 .. MaxArrivals
        BY <1>7, <4>1
      <4>. QED BY <1>2, <1>8, <4>1, <4>2
    <3>2. CASE j = i
      <4>1. k \in 1 .. Len(q[i]) + 1 /\ l \in 1 .. Len(q[i]) + 1
        BY <1>5, <1>6, <3>2
      <4>2. \A x \in 1 .. Len(q[i]) : q'[j][x] = q[i][x] /\ q[i][x].n \in 1 .. MaxArrivals
                                      /\ q[i][x].n <= n
        BY <1>5, <1>6, <1>7, <1>8, <3>2
      <4>3. q'[j][Len(q[i]) + 1].n = n + 1
        BY <1>3, <1>5, <1>6, <3>2
      <4>4. CASE k = Len(q[i]) + 1
        <5>1. ~(k < l)
          BY <1>5, <4>1, <4>4
        <5>. QED BY <1>2, <4>3, <4>4, <5>1
      <4>5. CASE k # Len(q[i]) + 1
        <5>1. k \in 1 .. Len(q[i])
          BY <1>5, <4>1, <4>5
        <5>2. CASE l = Len(q[i]) + 1
          BY <1>2, <4>2, <4>3, <5>1, <5>2
        <5>3. CASE l # Len(q[i]) + 1
          <6>1. l \in 1 .. Len(q[i])
            BY <1>5, <4>1, <5>3
          <6>2. k < l => q[i][k].n < q[i][l].n
            BY <1>5, <1>8, <5>1, <6>1
          <6>. QED BY <1>2, <4>2, <5>1, <6>1, <6>2
        <5>. QED BY <5>2, <5>3
      <4>. QED BY <4>4, <4>5
    <3>. QED BY <3>1, <3>2
  <2>. QED BY <1>1, <2>1 DEF Order
<1>10. ASSUME NEW r \in Waiting PROVE r.n < n + 1
  <2>1. PICK j \in Classes : \E k \in DOMAIN q[j] : r = [n |-> q[j][k].n, class |-> j]
    BY WaitingIs
  <2>2. PICK k \in DOMAIN q[j] : r = [n |-> q[j][k].n, class |-> j]
    BY <2>1
  <2>3. q[j][k].n \in 1 .. MaxArrivals /\ q[j][k].n <= n
    BY <1>7, <1>8
  <2>. QED BY <1>2, <2>2, <2>3
<1>11. Waiting' = Waiting \cup {[n |-> n + 1, class |-> i]}
  <2> DEFINE new == [n |-> n + 1, class |-> i]
             At(j, k) == [n |-> q[j][k].n, class |-> j]
  <2>0. Waiting' = UNION {{[n |-> q'[j][k].n, class |-> j] : k \in DOMAIN q'[j]} : j \in Classes}
    BY DEF Waiting
  <2>1. ASSUME NEW r \in Waiting' PROVE r \in Waiting \cup {new}
    <3>1. PICK j \in Classes : \E k \in DOMAIN q'[j] : r = [n |-> q'[j][k].n, class |-> j]
      BY <2>0
    <3>2. PICK k \in DOMAIN q'[j] : r = [n |-> q'[j][k].n, class |-> j]
      BY <3>1
    <3>3. CASE j = i /\ k = Len(q[i]) + 1
      <4>1. r = new
        BY <1>3, <1>5, <1>6, <3>2, <3>3
      <4>. QED BY <4>1
    <3>4. CASE ~(j = i /\ k = Len(q[i]) + 1)
      <4>1. k \in DOMAIN q[j] /\ q'[j][k] = q[j][k]
        <5>1. CASE j = i
          <6>1. k \in 1 .. Len(q[i]) + 1 /\ k # Len(q[i]) + 1
            BY <1>5, <1>6, <3>4, <5>1
          <6>2. k \in 1 .. Len(q[i])
            BY <1>5, <6>1
          <6>. QED BY <1>5, <1>6, <5>1, <6>2
        <5>2. CASE j # i
          BY <1>6, <5>2
        <5>. QED BY <5>1, <5>2
      <4>2. r = [n |-> q[j][k].n, class |-> j]
        BY <3>2, <4>1
      <4>3. r \in Waiting
        BY <4>1, <4>2, WaitingIs
      <4>. QED BY <4>3
    <3>. QED BY <3>3, <3>4
  <2>2. ASSUME NEW r \in Waiting \cup {new} PROVE r \in Waiting'
    <3>1. CASE r = new
      <4>1. Len(q[i]) + 1 \in DOMAIN q'[i] /\ q'[i][Len(q[i]) + 1].n = n + 1
        BY <1>3, <1>5, <1>6
      <4>. QED BY <2>0, <3>1, <4>1
    <3>2. CASE r \in Waiting
      <4>1. PICK j \in Classes : \E k \in DOMAIN q[j] : r = [n |-> q[j][k].n, class |-> j]
        BY <3>2, WaitingIs
      <4>2. PICK k \in DOMAIN q[j] : r = [n |-> q[j][k].n, class |-> j]
        BY <4>1
      <4>3. k \in DOMAIN q'[j] /\ q'[j][k] = q[j][k]
        <5>1. CASE j = i
          <6>1. k \in 1 .. Len(q[i])
            BY <1>5, <5>1
          <6>2. k \in 1 .. Len(q[i]) + 1
            BY <1>5, <6>1
          <6>. QED BY <1>5, <1>6, <5>1, <6>1, <6>2
        <5>2. CASE j # i
          BY <1>6, <5>2
        <5>. QED BY <5>1, <5>2
      <4>4. r = [n |-> q'[j][k].n, class |-> j]
        BY <4>2, <4>3
      <4>. QED BY <2>0, <4>3, <4>4
    <3>. QED BY <3>1, <3>2
  <2>. HIDE DEF new
  <2>3. Waiting' = Waiting \cup {new}
    BY <2>1, <2>2
  <2>. QED BY <2>3 DEF new
<1>. QED BY <1>1, <1>2, <1>6, <1>9, <1>10, <1>11

\* The packet that leaves came first in the best class that has one.
LEMMA DequeKeeps ==
    ASSUME TypeOK, Order, NEW i \in Classes, Deque(i)
    PROVE  /\ q' \in [Classes -> Seq(Packet)] /\ Order'
           /\ \E p \in Waiting :
                 /\ \A r \in Waiting : p.class < r.class \/ (p.class = r.class /\ p.n <= r.n)
                 /\ Waiting' = Waiting \ {p}
<1>1. /\ q[i] # <<>> /\ (\A j \in 0 .. i - 1 : q[j] = <<>>)
      /\ q' = [q EXCEPT ![i] = Tail(@)] /\ n' = n
  BY DEF Deque
<1>2. n \in Nat /\ q \in [Classes -> Seq(Packet)]
  BY PortAssumption DEF TypeOK
<1>3. q[i] \in Seq(Packet) /\ i \in Nat /\ \A j \in Classes : j \in Nat
  BY <1>2 DEF Classes
<1>4. /\ Tail(q[i]) \in Seq(Packet) /\ Len(q[i]) \in Nat /\ Len(q[i]) >= 1
      /\ DOMAIN Tail(q[i]) = 1 .. Len(q[i]) - 1
      /\ DOMAIN q[i] = 1 .. Len(q[i])
      /\ \A k \in 1 .. Len(q[i]) - 1 : Tail(q[i])[k] = q[i][k + 1]
  <2>1. /\ Tail(q[i]) \in Seq(Packet) /\ Len(Tail(q[i])) = Len(q[i]) - 1
        /\ \A k \in 1 .. Len(Tail(q[i])) : Tail(q[i])[k] = q[i][k + 1]
    BY <1>1, <1>3, HeadTailProperties
  <2>2. /\ Len(q[i]) \in Nat /\ Len(Tail(q[i])) \in Nat
        /\ DOMAIN q[i] = 1 .. Len(q[i]) /\ DOMAIN Tail(q[i]) = 1 .. Len(Tail(q[i]))
    BY <1>3, <2>1, LenProperties
  <2>. QED BY <2>1, <2>2
<1>5. /\ q' \in [Classes -> Seq(Packet)] /\ q'[i] = Tail(q[i])
      /\ \A j \in Classes : j # i => q'[j] = q[j]
  BY <1>1, <1>2, <1>4
<1>6. \A j \in Classes : \A k, l \in DOMAIN q[j] : q[j][k].n <= n /\ (k < l => q[j][k].n < q[j][l].n)
  BY DEF Order
<1>7. ASSUME NEW j \in Classes, NEW k \in DOMAIN q[j] PROVE q[j][k].n \in Nat
  <2>1. q[j] \in Seq(Packet) /\ DOMAIN q[j] = 1 .. Len(q[j])
    BY <1>2, LenProperties
  <2>2. q[j][k] \in Packet
    BY <2>1, ElementOfSeq
  <2>. QED BY <2>2 DEF Packet
<1>8. Order'
  <2>1. ASSUME NEW j \in Classes, NEW k \in DOMAIN q'[j], NEW l \in DOMAIN q'[j]
        PROVE  q'[j][k].n <= n /\ (k < l => q'[j][k].n < q'[j][l].n)
    <3>1. CASE j # i
      BY <1>5, <1>6, <3>1
    <3>2. CASE j = i
      <4>1. k \in 1 .. Len(q[i]) - 1 /\ l \in 1 .. Len(q[i]) - 1
        BY <1>4, <1>5, <3>2
      <4>2. k + 1 \in DOMAIN q[i] /\ l + 1 \in DOMAIN q[i]
        BY <1>4, <1>5, <4>1
      <4>3. q'[j][k] = q[i][k + 1] /\ q'[j][l] = q[i][l + 1]
        BY <1>4, <1>5, <3>2, <4>1
      <4>4. k < l => k + 1 < l + 1
        BY ONLY <4>1
      <4>. QED BY <1>6, <4>2, <4>3, <4>4
    <3>. QED BY <3>1, <3>2
  <2>. QED BY <1>1, <2>1 DEF Order
<1> DEFINE p == [n |-> q[i][1].n, class |-> i]
<1>9. 1 \in DOMAIN q[i]
  BY <1>4
<1>10. p \in Waiting
  BY <1>9, WaitingIs
<1>11. ASSUME NEW r \in Waiting
       PROVE  p.class < r.class \/ (p.class = r.class /\ p.n <= r.n)
  <2>1. PICK j \in Classes : \E k \in DOMAIN q[j] : r = [n |-> q[j][k].n, class |-> j]
    BY WaitingIs
  <2>2. PICK k \in DOMAIN q[j] : r = [n |-> q[j][k].n, class |-> j]
    BY <2>1
  <2>3. ~(j < i)
    <3>1. CASE j < i
      <4>1. q[j] = <<>>
        BY <1>1, <1>3, <3>1
      <4>2. DOMAIN q[j] = {}
        BY <4>1
      <4>. QED BY <2>2, <4>2
    <3>. QED BY <3>1
  <2>4. CASE j = i
    <3>1. k \in 1 .. Len(q[i]) /\ q[i][1].n \in Nat /\ q[i][k].n \in Nat
      BY <1>4, <1>7, <1>9, <2>2, <2>4
    <3>2. 1 < k => q[i][1].n < q[i][k].n
      BY <1>6, <1>9, <2>2, <2>4
    <3>3. q[i][1].n <= q[i][k].n
      BY <1>4, <3>1, <3>2
    <3>. QED BY <2>2, <2>4, <3>3
  <2>5. CASE j # i
    BY <1>3, <2>2, <2>3, <2>5
  <2>. QED BY <2>4, <2>5
<1>12. Waiting' = Waiting \ {p}
  <2>0. Waiting' = UNION {{[n |-> q'[j][k].n, class |-> j] : k \in DOMAIN q'[j]} : j \in Classes}
    BY DEF Waiting
  <2>1. ASSUME NEW r \in Waiting' PROVE r \in Waiting \ {p}
    <3>1. PICK j \in Classes : \E k \in DOMAIN q'[j] : r = [n |-> q'[j][k].n, class |-> j]
      BY <2>0
    <3>2. PICK k \in DOMAIN q'[j] : r = [n |-> q'[j][k].n, class |-> j]
      BY <3>1
    <3>3. CASE j = i
      <4>1. k \in 1 .. Len(q[i]) - 1
        BY <1>4, <1>5, <3>3
      <4>2. k + 1 \in DOMAIN q[i] /\ q'[j][k] = q[i][k + 1] /\ 1 < k + 1
        BY <1>4, <1>5, <3>3, <4>1
      <4>3. r = [n |-> q[i][k + 1].n, class |-> i]
        BY <3>2, <3>3, <4>2
      <4>4. q[i][1].n < q[i][k + 1].n /\ q[i][1].n \in Nat /\ q[i][k + 1].n \in Nat
        BY <1>6, <1>7, <1>9, <4>2
      <4>5. r # p
        BY <4>3, <4>4
      <4>6. r \in Waiting
        BY <4>2, <4>3, WaitingIs
      <4>. QED BY <4>5, <4>6
    <3>4. CASE j # i
      <4>1. r = [n |-> q[j][k].n, class |-> j] /\ k \in DOMAIN q[j]
        BY <1>5, <3>2, <3>4
      <4>2. r \in Waiting
        BY <4>1, WaitingIs
      <4>3. r # p
        BY <4>1, <3>4
      <4>. QED BY <4>2, <4>3
    <3>. QED BY <3>3, <3>4
  <2>2. ASSUME NEW r \in Waiting, r # p PROVE r \in Waiting'
    <3>1. PICK j \in Classes : \E k \in DOMAIN q[j] : r = [n |-> q[j][k].n, class |-> j]
      BY WaitingIs
    <3>2. PICK k \in DOMAIN q[j] : r = [n |-> q[j][k].n, class |-> j]
      BY <3>1
    <3>3. CASE j = i
      <4>1. k # 1
        BY <2>2, <3>2, <3>3
      <4>2. k \in 1 .. Len(q[i])
        BY <1>4, <3>2, <3>3
      <4>3. k - 1 \in 1 .. Len(q[i]) - 1 /\ k - 1 + 1 = k
        BY <1>4, <4>1, <4>2
      <4>4. k - 1 \in DOMAIN q'[i] /\ q'[i][k - 1] = q[i][k]
        BY <1>4, <1>5, <4>3
      <4>5. r = [n |-> q'[i][k - 1].n, class |-> i]
        BY <3>2, <3>3, <4>4
      <4>. QED BY <2>0, <4>4, <4>5
    <3>4. CASE j # i
      <4>1. r = [n |-> q'[j][k].n, class |-> j] /\ k \in DOMAIN q'[j]
        BY <1>5, <3>2, <3>4
      <4>. QED BY <2>0, <4>1
    <3>. QED BY <3>3, <3>4
  <2>. HIDE DEF p
  <2>. QED BY <2>1, <2>2
<1>. HIDE DEF p
<1>. QED BY <1>5, <1>8, <1>10, <1>11, <1>12

\* A packet brings its class into use, and ageing takes none out of use.
LEMMA LearnKeeps ==
    ASSUME TypeOK, NEW i \in Classes, NEW value \in Nat, Learn(i, value), n' = n + 1
    PROVE  /\ counting' \in [Classes -> Nat] /\ distinct' \in [Classes -> 0 .. n' * Unit]
           /\ since' \in 0 .. Second + 1
           /\ \A j \in Classes : distinct'[j] >= Unit <=> (Used(j) \/ j = i)
<1> DEFINE c == [counting EXCEPT ![i] = @ + value * Unit]
           d == [distinct EXCEPT ![i] = @ + Unit]
           Old(j) == d[j] > Aging * Unit
<1>1. /\ Unit \in Nat /\ Unit > 0 /\ Aging \in Nat /\ 2 <= Aging /\ n \in Nat /\ Second \in Nat
      /\ counting \in [Classes -> Nat] /\ distinct \in [Classes -> 0 .. n * Unit]
      /\ since \in 0 .. Second + 1
  BY PortAssumption DEF TypeOK
<1>2. /\ value * Unit \in Nat /\ n * Unit \in Nat /\ n' * Unit = n * Unit + Unit
      /\ 2 * Unit <= Aging * Unit /\ Aging * Unit \in Nat
  <2>1. Unit * 2 <= Unit * Aging /\ Unit * n \in Nat /\ Unit * value \in Nat /\ Unit * Aging \in Nat
    BY <1>1, TimesMonotone
  <2>2. n' * Unit = n * Unit + Unit
    BY <1>1
  <2>. QED BY <1>1, <2>1, <2>2
<1>3. c \in [Classes -> Nat]
  BY <1>1, <1>2
<1>4. /\ d \in [Classes -> 0 .. n' * Unit] /\ d[i] = distinct[i] + Unit
      /\ \A j \in Classes : j # i => d[j] = distinct[j]
  <2>1. \A j \in Classes : distinct[j] \in 0 .. n * Unit
    BY <1>1
  <2>. HIDE DEF d
  <2>2. /\ d[i] = distinct[i] + Unit /\ \A j \in Classes : j # i => d[j] = distinct[j]
        /\ d = [j \in Classes |-> d[j]]
    BY <1>1 DEF d
  <2>3. \A j \in Classes : d[j] \in 0 .. n' * Unit
    <3>1. TAKE j \in Classes
    <3>2. CASE j = i
      BY <1>1, <1>2, <2>1, <2>2, <3>2
    <3>3. CASE j # i
      BY <1>1, <1>2, <2>1, <2>2, <3>3
    <3>. QED BY <3>2, <3>3
  <2>. QED BY <2>2, <2>3
<1>5. \A j \in Classes : d[j] >= Unit <=> (Used(j) \/ j = i)
  <2>1. distinct[i] \in Nat
    BY <1>1, <1>2
  <2>. HIDE DEF d
  <2>. QED BY <1>1, <1>4, <2>1 DEF Used
<1>. HIDE DEF c, d
<1>6. CASE since > Second
  <2>1. /\ counting' = [j \in Classes |-> IF Old(j) THEN c[j] \div 2 ELSE c[j]]
        /\ distinct' = [j \in Classes |-> IF Old(j) THEN d[j] \div 2 ELSE d[j]]
        /\ since' = 0
    BY <1>6 DEF Learn, c, d
  <2>2. ASSUME NEW j \in Classes
        PROVE  /\ c[j] \div 2 \in Nat
               /\ d[j] \in 0 .. n' * Unit /\ d[j] \div 2 \in 0 .. n' * Unit
               /\ Old(j) => d[j] >= Unit /\ d[j] \div 2 >= Unit
    <3>1. c[j] \in Nat /\ d[j] \in 0 .. n' * Unit /\ d[j] \in Nat
      BY <1>3, <1>4
    <3>2. /\ c[j] \div 2 \in Nat /\ d[j] \div 2 \in Nat /\ 2 * (d[j] \div 2) <= d[j]
          /\ d[j] <= 2 * (d[j] \div 2) + 1
      BY <3>1, HalfBounds
    <3>. QED BY <1>1, <1>2, <3>1, <3>2
  <2>3. counting' \in [Classes -> Nat]
    BY <1>3, <2>1, <2>2
  <2>. HIDE DEF Old
  <2>4. distinct' \in [Classes -> 0 .. n' * Unit]
    BY <2>1, <2>2
  <2>5. \A j \in Classes : distinct'[j] >= Unit <=> d[j] >= Unit
    <3>1. TAKE j \in Classes
    <3>2. CASE Old(j)
      BY <2>1, <2>2, <3>2
    <3>3. CASE ~Old(j)
      BY <2>1, <3>3
    <3>. QED BY <3>2, <3>3
  <2>. QED BY <1>1, <1>5, <2>1, <2>3, <2>4, <2>5
<1>7. CASE ~(since > Second)
  <2>1. counting' = c /\ distinct' = d /\ since' = since
    BY <1>7 DEF Learn, c, d
  <2>. QED BY <1>1, <1>3, <1>4, <1>5, <2>1
<1>. QED BY <1>6, <1>7

\* Classes come into use one after the other.
InUse == \A i \in Classes : Used(i) => \A j \in 0 .. i - 1 : Used(j)

\* A value up to Jump skips no class without packets.
LEMMA NoneSkipped ==
    ASSUME Learnt, NEW value \in Nat, value <= Jump + 1
    PROVE  \A j \in 0 .. ClassOf(value) - 1 : Used(j)
<1>. SUFFICES ASSUME NEW j \in 0 .. ClassOf(value) - 1, ~Used(j) PROVE FALSE
  OBVIOUS
<1>1. ClassOf(value) \in Classes /\ value * Unit > thresholds[j] + Unit
  BY ClassExists
<1>2. j \in 0 .. NumQueues - 2
  BY <1>1, Units DEF Classes
<1>3. thresholds[j] >= Jump * Unit /\ thresholds[j] \in Nat
  BY <1>2, ThresholdsRise, ThresholdsUnfold
<1>4. /\ Unit \in Nat /\ Jump \in Nat /\ Jump * Unit \in Nat
      /\ (Jump + 1) * Unit = Jump * Unit + Unit
  BY Units
<1>5. Unit * value <= Unit * (Jump + 1) /\ Unit * value = value * Unit
      /\ Unit * (Jump + 1) = (Jump + 1) * Unit /\ value * Unit \in Nat
  BY <1>4, TimesMonotone
<1>. QED BY <1>1, <1>3, <1>4, <1>5

\* What a step does to everything but the flows: packets wait and leave by
\* priority, and the classes in use stay so.
Ported ==
    /\ q' \in [Classes -> Seq(Packet)] /\ n' \in 0 .. MaxArrivals
    /\ counting' \in [Classes -> Nat] /\ distinct' \in [Classes -> 0 .. n' * Unit]
    /\ since' \in 0 .. Second + 1
    /\ Order'
    /\ SP!Next \/ Waiting' = Waiting
    /\ \A i \in Classes : Used(i) => distinct'[i] >= Unit

\* A packet comes, as StrictPriority has it.
LEMMA PutComes ==
    ASSUME TypeOK, Order, NEW i \in Classes, NEW size \in Nat, Put(i, size) PROVE SP!Next
<1>1. /\ n + 1 \in 1 .. MaxArrivals
      /\ \A r \in Waiting : r.n < n + 1
      /\ Waiting' = Waiting \cup {[n |-> n + 1, class |-> i]}
  BY PutKeeps
<1>2. PICK k \in 1 .. MaxArrivals : k = n + 1
  BY <1>1
<1>3. \A r \in Waiting : r.n < [n |-> k, class |-> i].n
  BY <1>1, <1>2
<1>4. SP!Come([n |-> k, class |-> i])
  BY <1>1, <1>2, <1>3 DEF SP!Come, Waiting
<1>. QED BY <1>4 DEF SP!Next

\* A packet that no threshold classifies.
LEMMA PutPorted ==
    ASSUME TypeOK, Order, NEW i \in Classes, NEW size \in Nat, Put(i, size), UNCHANGED info
    PROVE  Ported
<1>1. /\ n \in Nat /\ Unit \in Nat /\ distinct \in [Classes -> 0 .. n * Unit]
      /\ counting \in [Classes -> Nat] /\ since \in 0 .. Second + 1
      /\ counting' = counting /\ distinct' = distinct /\ since' = since
  BY PortAssumption DEF TypeOK, info
<1>2. /\ q' \in [Classes -> Seq(Packet)] /\ n' = n + 1 /\ n' \in 0 .. MaxArrivals /\ Order'
  BY PutKeeps
<1>3. SP!Next
  BY PutComes
<1>4. n' * Unit = n * Unit + Unit /\ n * Unit \in Nat
  <2>1. Unit * n \in Nat
    BY <1>1, TimesMonotone
  <2>. QED BY <1>1, <1>2, <2>1
<1>5. distinct' \in [Classes -> 0 .. n' * Unit]
  <2>1. 0 .. n * Unit \subseteq 0 .. n' * Unit
    BY <1>1, <1>4
  <2>. QED BY <1>1, <2>1
<1>. QED BY <1>1, <1>2, <1>3, <1>5 DEF Ported, Used

\* One that is classified, learnt from and, if its value is up to Jump, skips no
\* class.
LEMMA ClassifiedPorted ==
    ASSUME TypeOK, Order, NEW value \in Nat, NEW size \in Nat,
           Put(ClassOf(value), size), Learn(ClassOf(value), value)
    PROVE  Ported /\ (InUse /\ value <= Jump + 1 => InUse')
<1> DEFINE i == ClassOf(value)
<1>1. Learnt
  BY PortAssumption DEF TypeOK, Learnt
<1>2. i \in Classes
  BY <1>1, ClassExists
<1>3. /\ q' \in [Classes -> Seq(Packet)] /\ n' = n + 1 /\ n' \in 0 .. MaxArrivals /\ Order'
  BY <1>2, PutKeeps
<1>4. SP!Next
  BY <1>2, PutComes
<1>5. /\ counting' \in [Classes -> Nat] /\ distinct' \in [Classes -> 0 .. n' * Unit]
      /\ since' \in 0 .. Second + 1
      /\ \A j \in Classes : distinct'[j] >= Unit <=> (Used(j) \/ j = i)
  BY <1>2, <1>3, LearnKeeps
<1>6. Ported
  BY <1>3, <1>4, <1>5 DEF Ported
<1>7. ASSUME InUse, value <= Jump + 1 PROVE InUse'
  <2>1. \A j \in 0 .. i - 1 : Used(j)
    BY <1>1, <1>7, NoneSkipped
  <2>. HIDE DEF i
  <2>2. ASSUME NEW k \in Classes, distinct'[k] >= Unit, NEW j \in 0 .. k - 1
        PROVE  distinct'[j] >= Unit
    <3>1. j \in Classes
      BY Units DEF Classes
    <3>2. Used(k) \/ k = i
      BY <1>5, <2>2
    <3>3. Used(j)
      BY <1>7, <2>1, <3>2 DEF InUse
    <3>. QED BY <1>5, <3>1, <3>3
  <2>. QED BY <2>2 DEF InUse, Used
<1>. QED BY <1>6, <1>7

------------------------------------------------------------------------------
(* The steps                                                               *)

\* No message has had more bytes than a class without packets spans, and neither do
\* the other values reach further.
ShortMessages == \A f \in Flow : \A m \in Message : attained[f][m] <= Jump + 1
SmallValues ==
    /\ \A x \in Prios \cup Estimates : x <= Jump + 1
    /\ Full <= Jump + 1

\* What the invariant says of a step of which Ported is true.
LEMMA PortedKeeps ==
    ASSUME Ported, kind' \in Kind,
           last_time' \in [Flow -> Message \cup {NoMessage}], count_item' \in [Flow -> Nat],
           attained' \in [Flow -> [Message -> Nat]], NeverOverestimates'
    PROVE  IInv'
BY DEF IInv, TypeOK, Ported

\* A step that touches no flow keeps its estimates.
LEMMA FlowsKept ==
    ASSUME IInv, Ported, UNCHANGED <<kind, last_time, count_item, attained>>
    PROVE  IInv'
<1>1. NeverOverestimates'
  BY DEF IInv, NeverOverestimates
<1>. QED BY <1>1, PortedKeeps DEF IInv, TypeOK

\* The class in the header.
LEMMA PriorityStep ==
    ASSUME IInv, NEW payload \in Payloads, NEW prio \in Prios, EnquePriority(payload, prio)
    PROVE  IInv' /\ Ported /\ (InUse => InUse')
<1> DEFINE i == IF prio >= NumQueues THEN NumQueues - 1 ELSE prio
<1>1. i \in Classes /\ Header + payload \in Nat
  BY PortAssumption DEF Classes
<1>2. Put(i, Header + payload) /\ UNCHANGED <<kind, info, last_time, count_item, attained>>
  BY DEF EnquePriority
<1>. HIDE DEF i
<1>3. Ported
  BY <1>1, <1>2, PutPorted DEF IInv
<1>4. InUse => InUse'
  BY <1>2 DEF InUse, Used, info
<1>. QED BY <1>2, <1>3, <1>4, FlowsKept

\* No TCP data.
LEMMA OtherStep ==
    ASSUME IInv, NEW payload \in Payloads, EnqueOther(payload)
    PROVE  IInv' /\ Ported /\ (InUse => InUse')
<1>1. 0 \in Classes /\ Header + payload \in Nat
  BY PortAssumption DEF Classes
<1>2. Put(0, Header + payload) /\ UNCHANGED <<kind, info, last_time, count_item, attained>>
  BY DEF EnqueOther
<1>3. Ported
  BY <1>1, <1>2, PutPorted DEF IInv
<1>4. InUse => InUse'
  BY <1>2 DEF InUse, Used, info
<1>. QED BY <1>2, <1>3, <1>4, FlowsKept

\* SRPT and deadlines.
LEMMA KnownStep ==
    ASSUME IInv, NEW payload \in Payloads, NEW prio \in Prios, EnqueKnown(payload, prio)
    PROVE  IInv' /\ Ported /\ (InUse /\ SmallValues => InUse')
<1>1. prio \in Nat /\ Header + payload \in Nat
  BY PortAssumption
<1>2. /\ Put(ClassOf(prio), Header + payload) /\ Learn(ClassOf(prio), prio)
      /\ UNCHANGED <<kind, last_time, count_item, attained>>
  BY DEF EnqueKnown
<1>3. Ported /\ (InUse /\ prio <= Jump + 1 => InUse')
  BY <1>1, <1>2, ClassifiedPorted DEF IInv
<1>. QED BY <1>2, <1>3, FlowsKept DEF SmallValues

\* LAS by a sketch, whatever it answers.
LEMMA ApproStep ==
    ASSUME IInv, NEW payload \in Payloads, EnqueAppro(payload)
    PROVE  IInv' /\ Ported /\ (InUse /\ SmallValues => InUse')
<1>1. PICK value \in IF payload >= Full THEN Estimates ELSE {payload} :
         Put(ClassOf(value), Header + payload) /\ Learn(ClassOf(value), value)
  BY DEF EnqueAppro
<1>2. payload \in Nat /\ Full \in Nat /\ Jump \in Nat /\ Header + payload \in Nat
  BY PortAssumption
<1>3. value \in Nat /\ (SmallValues => value <= Jump + 1)
  BY <1>2, PortAssumption DEF SmallValues
<1>4. UNCHANGED <<kind, last_time, count_item, attained>>
  BY DEF EnqueAppro
<1>5. Ported /\ (InUse /\ value <= Jump + 1 => InUse')
  BY <1>1, <1>2, <1>3, ClassifiedPorted DEF IInv
<1>. QED BY <1>3, <1>4, <1>5, FlowsKept

\* LAS by the bytes of the message: they are counted from nothing when another
\* message begins, and never more than the message has had.
LEMMA UnknownStep ==
    ASSUME IInv, NEW payload \in Payloads, NEW f \in Flow, NEW m \in Message,
           EnqueUnknown(f, m, payload)
    PROVE  IInv' /\ Ported /\ (InUse /\ SmallValues /\ ShortMessages' => InUse')
<1> DEFINE full  == payload >= Full
           more  == IF full THEN payload ELSE 0
           count == CountBefore(f, m) + more
           value == IF full THEN count ELSE payload
<1>1. /\ payload \in Nat /\ Full \in Nat /\ Jump \in Nat /\ Header + payload \in Nat
      /\ NoMessage \notin Message /\ more \in Nat
  BY PortAssumption
<1>2. /\ last_time \in [Flow -> Message \cup {NoMessage}] /\ count_item \in [Flow -> Nat]
      /\ attained \in [Flow -> [Message -> Nat]] /\ kind \in Kind
  BY DEF IInv, TypeOK
<1>3. /\ Put(ClassOf(value), Header + payload) /\ Learn(ClassOf(value), value)
      /\ count_item' = [count_item EXCEPT ![f] = count]
      /\ last_time' = [last_time EXCEPT ![f] = m]
      /\ attained' = [attained EXCEPT ![f][m] = @ + more] /\ kind' = kind
  BY DEF EnqueUnknown
<1>. HIDE DEF full, more
<1>4. attained[f][m] \in Nat /\ CountBefore(f, m) \in Nat /\ CountBefore(f, m) <= attained[f][m]
  <2>1. attained[f][m] \in Nat /\ count_item[f] \in Nat
    BY <1>2
  <2>2. last_time[f] = m => count_item[f] <= attained[f][m]
    BY <1>1 DEF IInv, NeverOverestimates
  <2>. QED BY <2>1, <2>2 DEF CountBefore
<1>5. count \in Nat /\ count <= attained[f][m] + more
  BY <1>1, <1>4
<1>. HIDE DEF count
<1>6. value \in Nat
  BY <1>1, <1>5
<1>. HIDE DEF value
<1>7. Ported /\ (InUse /\ value <= Jump + 1 => InUse')
  BY <1>1, <1>3, <1>6, ClassifiedPorted DEF IInv
<1>8. /\ attained'[f][m] = attained[f][m] + more
      /\ \A g \in Flow, l \in Message : g # f \/ l # m => attained'[g][l] = attained[g][l]
      /\ attained' \in [Flow -> [Message -> Nat]]
  <2>1. attained[f][m] + more \in Nat
    BY <1>1, <1>4
  <2>. QED BY <1>2, <1>3, <2>1
<1>9. NeverOverestimates'
  <2>1. ASSUME NEW g \in Flow, last_time'[g] # NoMessage
        PROVE  count_item'[g] <= attained'[g][last_time'[g]]
    <3>1. CASE g = f
      <4>1. count_item'[g] = count /\ last_time'[g] = m
        BY <1>2, <1>3, <3>1
      <4>. QED BY <1>5, <1>8, <3>1, <4>1
    <3>2. CASE g # f
      <4>1. count_item'[g] = count_item[g] /\ last_time'[g] = last_time[g]
        BY <1>2, <1>3, <3>2
      <4>2. last_time[g] \in Message
        BY <1>2, <2>1, <4>1
      <4>3. attained'[g][last_time[g]] = attained[g][last_time[g]]
        BY <1>8, <3>2, <4>2
      <4>4. count_item[g] <= attained[g][last_time[g]]
        BY <2>1, <4>1 DEF IInv, NeverOverestimates
      <4>. QED BY <4>1, <4>3, <4>4
    <3>. QED BY <3>1, <3>2
  <2>. QED BY <2>1 DEF NeverOverestimates
<1>10. IInv'
  <2>1. count_item' \in [Flow -> Nat] /\ last_time' \in [Flow -> Message \cup {NoMessage}]
    BY <1>2, <1>3, <1>5
  <2>. QED BY <1>2, <1>3, <1>7, <1>8, <1>9, <2>1, PortedKeeps
<1>11. ASSUME SmallValues, ShortMessages' PROVE value <= Jump + 1
  <2>1. attained'[f][m] <= Jump + 1
    BY <1>11 DEF ShortMessages
  <2>2. count <= Jump + 1
    BY <1>1, <1>4, <1>5, <1>8, <2>1
  <2>3. ~full => payload <= Jump + 1
    BY <1>1, <1>11 DEF full, SmallValues
  <2>. QED BY <2>2, <2>3 DEF value
<1>. QED BY <1>7, <1>10, <1>11

\* A packet leaves.
LEMMA DequeStep ==
    ASSUME IInv, NEW i \in Classes, Deque(i)
    PROVE  IInv' /\ Ported /\ (InUse => InUse')
<1>1. UNCHANGED <<kind, info, last_time, count_item, n, attained>>
  BY DEF Deque
<1>2. /\ q' \in [Classes -> Seq(Packet)] /\ Order'
      /\ \E p \in Waiting :
            /\ \A r \in Waiting : p.class < r.class \/ (p.class = r.class /\ p.n <= r.n)
            /\ Waiting' = Waiting \ {p}
  BY DequeKeeps DEF IInv
<1>3. PICK p \in Waiting :
         /\ \A r \in Waiting : p.class < r.class \/ (p.class = r.class /\ p.n <= r.n)
         /\ Waiting' = Waiting \ {p}
  BY <1>2
<1>4. SP!Leave(p)
  BY <1>3 DEF SP!Leave, SP!Before, Waiting
<1>5. SP!Next
  BY <1>4 DEF SP!Next, Waiting
<1>6. Ported
  <2>1. /\ n \in 0 .. MaxArrivals /\ counting \in [Classes -> Nat]
        /\ distinct \in [Classes -> 0 .. n * Unit] /\ since \in 0 .. Second + 1
    BY DEF IInv, TypeOK
  <2>. QED BY <1>1, <1>2, <1>5, <2>1 DEF Ported, Used, info
<1>7. InUse => InUse'
  BY <1>1 DEF InUse, Used, info
<1>. QED BY <1>1, <1>6, <1>7, FlowsKept

\* Time passes.
LEMMA TickStep == ASSUME IInv, Tick PROVE IInv' /\ Ported /\ (InUse => InUse')
<1>1. /\ since <= Second /\ since' = since + 1
      /\ UNCHANGED <<kind, q, counting, distinct, last_time, count_item, n, attained>>
  BY DEF Tick
<1>2. /\ n \in 0 .. MaxArrivals /\ counting \in [Classes -> Nat] /\ q \in [Classes -> Seq(Packet)]
      /\ distinct \in [Classes -> 0 .. n * Unit] /\ since \in 0 .. Second + 1 /\ Order
      /\ Second \in Nat
  BY PortAssumption DEF IInv, TypeOK
<1>3. Ported
  <2>1. since' \in 0 .. Second + 1
    BY <1>1, <1>2
  <2>2. Order' /\ Waiting' = Waiting
    BY <1>1, <1>2 DEF Order, Waiting
  <2>3. \A i \in Classes : Used(i) => distinct'[i] >= Unit
    BY <1>1 DEF Used
  <2>. QED BY <1>1, <1>2, <2>1, <2>2, <2>3 DEF Ported
<1>4. InUse => InUse'
  BY <1>1 DEF InUse, Used
<1>. QED BY <1>1, <1>3, <1>4, FlowsKept

\* Every step of the port.
LEMMA StepKeeps ==
    ASSUME IInv, [Next]_vars
    PROVE  /\ IInv'
           /\ [SP!Next]_Waiting
           /\ \A i \in Classes : Used(i) => distinct'[i] >= Unit
           /\ InUse /\ SmallValues /\ ShortMessages' => InUse'
<1>1. CASE Next
  <2>1. IInv' /\ Ported /\ (InUse /\ SmallValues /\ ShortMessages' => InUse')
    BY <1>1, PriorityStep, OtherStep, KnownStep, ApproStep, UnknownStep, DequeStep, TickStep
       DEF Next, Arrive, Depart
  <2>. QED BY <2>1 DEF Ported
<1>2. CASE UNCHANGED vars
  <2>1. IInv' /\ Waiting' = Waiting
    BY <1>2 DEF vars, info, IInv, TypeOK, NeverOverestimates, Order, Waiting
  <2>2. (\A i \in Classes : Used(i) => distinct'[i] >= Unit) /\ (InUse => InUse')
    BY <1>2 DEF vars, info, Used, InUse
  <2>. QED BY <2>1, <2>2
<1>. QED BY <1>1, <1>2

\* An empty port.
LEMMA InitKeeps == ASSUME Init PROVE IInv /\ InUse /\ SP!Init
<1>1. \A i \in Classes : q[i] = <<>> /\ DOMAIN q[i] = {}
  BY DEF Init
<1>2. SP!Init
  BY <1>1 DEF SP!Init
<1>3. TypeOK
  <2>1. <<>> \in Seq(Packet) /\ 0 * Unit = 0 /\ Second \in Nat /\ MaxArrivals \in Nat
    BY EmptySeq, PortAssumption
  <2>. QED BY <2>1 DEF Init, TypeOK
<1>4. Order
  BY <1>1 DEF Order
<1>5. NeverOverestimates
  BY DEF Init, NeverOverestimates
<1>6. InUse
  BY PortAssumption DEF Init, InUse, Used
<1>. QED BY <1>2, <1>3, <1>4, <1>5, <1>6 DEF IInv

------------------------------------------------------------------------------
(* Theorems                                                                *)

\* The invariant of every port.
THEOREM Invariant == Spec => []IInv
BY InitKeeps, StepKeeps, PTL DEF Spec

\* The variables of the port keep their types; no packet is counted twice.
THEOREM PortTypeCorrect == Spec => []TypeOK
<1>1. IInv => TypeOK
  BY DEF IInv
<1>. QED BY <1>1, Invariant, PTL

\* Unknown never takes a flow for longer than its message is.
THEOREM MessagesNotOverestimated == Spec => []NeverOverestimates
<1>1. IInv => NeverOverestimates
  BY DEF IInv
<1>. QED BY <1>1, Invariant, PTL

\* A class in use stays in use, however the classes age.
THEOREM ClassesStayUsed == Spec => UsedStaysUsed
<1>1. IInv /\ [Next]_vars => [\A i \in Classes : Used(i) => Used(i)']_vars
  <2>. SUFFICES ASSUME IInv, [Next]_vars, NEW i \in Classes, Used(i) PROVE Used(i)'
    OBVIOUS
  <2>1. distinct'[i] >= Unit
    BY StepKeeps
  <2>. QED BY <2>1 DEF Used
<1>. QED BY <1>1, Invariant, PTL DEF Spec, UsedStaysUsed

\* All ports serve packets by strict priority: the port implements StrictPriority.
THEOREM ServesByPriority == Spec => ImplementsPriority
<1>1. Init => SP!Init
  BY InitKeeps
<1>2. IInv /\ [Next]_vars => [SP!Next]_Waiting
  BY StepKeeps
<1>. QED BY <1>1, <1>2, Invariant, PTL DEF Spec, ImplementsPriority, SP!Spec, Waiting

\* Thresholds rise and classes come into use one after the other, as long as no
\* message, nor any other value, has more than the 2^25 bytes between the thresholds
\* of classes without packets.
THEOREM AllClassesReachable ==
    ASSUME SmallValues
    PROVE  Spec /\ []ShortMessages => []ClassesReachable
<1>1. IInv /\ InUse /\ ShortMessages' /\ [Next]_vars => InUse'
  BY StepKeeps
<1>2. IInv /\ InUse => ClassesReachable
  <2>. SUFFICES ASSUME IInv, InUse PROVE ClassesReachable
    OBVIOUS
  <2>1. Learnt
    BY PortAssumption DEF IInv, TypeOK, Learnt
  <2>. QED BY <2>1, ThresholdsRise DEF ClassesReachable, InUse
<1>3. Init => InUse
  BY InitKeeps
<1>. QED BY <1>1, <1>2, <1>3, Invariant, PTL DEF Spec

==============================================================================
