--------------------------- MODULE FlowTableProofs ---------------------------
(***************************************************************************)
(* What holds of the hash table of flows for any number of flows, buckets, *)
(* cells of memory and CPUs, on every schedule of its handlers: walks over *)
(* entries that others free, and SYN handlers of one flow at once.         *)
(*                                                                         *)
(* Nothing is known of a walk that was disturbed, and nothing needs to be: *)
(* what a handler does with an entry rests on the 4-tuple it finds there   *)
(* (Holding) and on the table (Lists, NoOrphan).  Of a search that was not *)
(* disturbed, an entry of its flow is at its pointer or behind it          *)
(* (Search), and when it ended without one there is none until the handler *)
(* links its own (Missing); so a second entry of a flow is doubtful        *)
(* (Unique).                                                               *)
(***************************************************************************)
EXTENDS FlowTable, FiniteSetTheorems, SequenceTheorems, TLAPS

Active(c) == pc[c] # "idle"

\* Of two handlers of one flow one is a probe, or both have a SYN.
OneSocket ==
    \A c, d \in CPU : c # d /\ Active(c) /\ Active(d) /\ flow[c] = flow[d] =>
        op[c] = "send" \/ op[d] = "send" \/ (op[c] = "syn" /\ op[d] = "syn")

Lists ==
    \A b \in Bucket : /\ IsInjective(list[b])
                      /\ \A x \in ToSet(list[b]) : key[x] \in Flow /\ Hash[key[x]] = b

\* A cell that is not linked is free, or about to be linked.
NoOrphan ==
    \A x \in Cell \ Linked : key[x] # None =>
        \E c \in CPU : pc[c] = "link" /\ cur[c] = x /\ key[x] = flow[c]

Unique ==
    \A x, y \in Linked : x # y /\ key[x] = key[y] => x \in doubtful \/ y \in doubtful

Table == Lists /\ NoOrphan /\ Unique

\* What a handler does, phase by phase.
Phase(c) ==
    /\ Active(c) => op[c] \in AllOps /\ flow[c] \in Flow
    /\ pc[c] \in {"alloc", "link", "inc"} => op[c] = "syn"
    /\ pc[c] \in {"unlink", "dec"} => op[c] = "end"
    /\ pc[c] = "use" => op[c] # "end"

\* The cell that a handler is about to link is its own.
Linking(c) ==
    pc[c] = "link" => /\ cur[c] \in Cell \ Linked
                      /\ key[cur[c]] = flow[c]
                      /\ \A d \in CPU \ {c} : pc[d] = "link" => cur[d] # cur[c]

Holding(c) ==
    pc[c] \in {"use", "unlink"} /\ op[c] # "send" =>
        /\ cur[c] \in Cell /\ key[cur[c]] = flow[c]
        /\ op[c] # "syn" => cur[c] \in Linked

\* The pointer the walk looks at next, or is looking at.
Ptr(c) == IF op[c] = "end" /\ pc[c] = "walk" THEN ahead[c] ELSE cur[c]

\* An entry of the flow is at the pointer or behind it.
Reached(c, s, i) ==
    cur[c] # Home(c) /\ (s[i] = cur[c] \/ \E j \in 1 .. i : s[j] = Ptr(c))

Search(c) ==
    pc[c] \in Walking /\ ~disturbed[c] =>
        \A i \in DOMAIN list[Home(c)] :
            key[list[Home(c)][i]] = flow[c] => Reached(c, list[Home(c)], i)

\* No entry of the flow has appeared since the search.
Missing(c) ==
    pc[c] \in {"alloc", "link"} /\ ~disturbed[c] => \A x \in Linked : key[x] # flow[c]

Works(c) == Phase(c) /\ Linking(c) /\ Holding(c) /\ Search(c) /\ Missing(c)

IInv == TypeOK /\ OneSocket /\ Table /\ \A c \in CPU : Works(c)

\* The number reported covers the entries.
Counted ==
    size + Cardinality(InPhase("inc")) - Cardinality(InPhase("dec")) >= Cardinality(Linked)

------------------------------------------------------------------------------
(* Lists of cells                                                          *)

\* list_add_tail: one more cell, behind the others.
LEMMA Appended ==
    ASSUME NEW s \in Seq(Cell), IsInjective(s), NEW x \in Cell \ ToSet(s)
    PROVE  /\ Append(s, x) \in Seq(Cell)
           /\ IsInjective(Append(s, x))
           /\ ToSet(Append(s, x)) = ToSet(s) \cup {x}
<1> DEFINE t == Append(s, x)
<1>1. /\ t \in Seq(Cell) /\ Len(t) = Len(s) + 1 /\ Len(s) \in Nat
      /\ DOMAIN t = 1 .. Len(s) + 1 /\ DOMAIN s = 1 .. Len(s)
      /\ \A i \in 1 .. Len(s) : t[i] = s[i]
      /\ t[Len(s) + 1] = x
  OBVIOUS
<1>2. \A i \in 1 .. Len(s) : s[i] # x
  BY <1>1 DEF ToSet
<1>. HIDE DEF t
<1>3. IsInjective(t)
  BY <1>1, <1>2 DEF IsInjective
<1>4. ToSet(t) = ToSet(s) \cup {x}
  BY <1>1 DEF ToSet
<1>. QED BY <1>1, <1>3, <1>4 DEF t

\* list_del: the cell is gone and the others keep their order.
LEMMA Removed ==
    ASSUME NEW s \in Seq(Cell), IsInjective(s), NEW x \in ToSet(s)
    PROVE  /\ RemoveFirst(s, x) \in Seq(Cell)
           /\ IsInjective(RemoveFirst(s, x))
           /\ ToSet(RemoveFirst(s, x)) = ToSet(s) \ {x}
           /\ \A i \in DOMAIN RemoveFirst(s, x) : \E m \in DOMAIN s :
                 /\ s[m] = RemoveFirst(s, x)[i]
                 /\ \A j \in 1 .. m : s[j] # x => \E n \in 1 .. i : RemoveFirst(s, x)[n] = s[j]
<1> DEFINE I == {i \in 1 .. Len(s) : s[i] = x}
<1>1. PICK k \in 1 .. Len(s) : s[k] = x
  BY DEF ToSet
<1>2. I = {k}
  BY <1>1 DEF IsInjective
<1>3. Min(I) = k
  BY <1>2 DEF Min
<1>4. SelectInSeq(s, LAMBDA v : v = x) = k
  BY <1>2, <1>3 DEF SelectInSeq
<1>5. RemoveFirst(s, x) = RemoveAt(s, k)
  BY <1>1, <1>4 DEF RemoveFirst
<1> DEFINE t == RemoveAt(s, k)
<1>6. /\ Len(s) \in Nat /\ DOMAIN s = 1 .. Len(s) /\ \A i \in 1 .. Len(s) : s[i] \in Cell
      /\ k \in Nat /\ k >= 1 /\ k <= Len(s)
  BY <1>1
<1>7. /\ SubSeq(s, 1, k - 1) \in Seq(Cell) /\ Len(SubSeq(s, 1, k - 1)) = k - 1
      /\ \A i \in 1 .. k - 1 : SubSeq(s, 1, k - 1)[i] = s[i]
  <2>1. \A i \in 1 .. k - 1 : s[i] \in Cell
    BY <1>6
  <2>. QED BY <2>1, <1>6, SubSeqProperties
<1>8. /\ SubSeq(s, k + 1, Len(s)) \in Seq(Cell) /\ Len(SubSeq(s, k + 1, Len(s))) = Len(s) - k
      /\ \A i \in 1 .. Len(s) - k : SubSeq(s, k + 1, Len(s))[i] = s[i + k]
  <2>1. \A i \in k + 1 .. Len(s) : s[i] \in Cell
    BY <1>6
  <2> DEFINE u == SubSeq(s, k + 1, Len(s))
  <2>2. /\ u \in Seq(Cell)
        /\ Len(u) = IF k + 1 <= Len(s) THEN Len(s) - (k + 1) + 1 ELSE 0
        /\ \A i \in 1 .. Len(s) - (k + 1) + 1 : u[i] = s[(k + 1) + i - 1]
    BY <2>1, <1>6, SubSeqProperties
  <2>. HIDE DEF u
  <2>3. Len(s) - (k + 1) + 1 = Len(s) - k /\ \A i \in Int : (k + 1) + i - 1 = i + k
    BY <1>6
  <2>4. u \in Seq(Cell) /\ Len(u) = Len(s) - k
    <3>1. Len(u) = IF k + 1 <= Len(s) THEN Len(s) - (k + 1) + 1 ELSE 0
      BY <2>2
    <3>2. \A m, n \in Nat : n <= m => /\ m - (n + 1) + 1 = m - n
                                       /\ ~(n + 1 <= m) => m - n = 0
      OBVIOUS
    <3>3. k \in Nat /\ Len(s) \in Nat /\ k <= Len(s)
      BY <1>6
    <3>4. /\ Len(s) - (k + 1) + 1 = Len(s) - k
          /\ ~(k + 1 <= Len(s)) => Len(s) - k = 0
      BY ONLY <3>2, <3>3
    <3>5. Len(u) = Len(s) - k
      BY ONLY <3>1, <3>4
    <3>. QED BY <3>5, <2>2
  <2>5. ASSUME NEW i \in 1 .. Len(s) - k PROVE u[i] = s[i + k]
    <3>1. u[i] = s[(k + 1) + i - 1]
      BY <2>2, <2>3
    <3>. QED BY <3>1, <2>3
  <2>. QED BY <2>4, <2>5 DEF u
<1>9. /\ t \in Seq(Cell) /\ Len(t) = Len(s) - 1 /\ DOMAIN t = 1 .. Len(s) - 1
      /\ \A i \in 1 .. Len(s) - 1 : t[i] = IF i < k THEN s[i] ELSE s[i + 1]
  <2> DEFINE u == SubSeq(s, 1, k - 1)
             w == SubSeq(s, k + 1, Len(s))
  <2>1. t = u \o w
    BY DEF RemoveAt
  <2>. HIDE DEF u, w, t
  <2>2. /\ u \in Seq(Cell) /\ Len(u) = k - 1 /\ \A i \in 1 .. k - 1 : u[i] = s[i]
        /\ w \in Seq(Cell) /\ Len(w) = Len(s) - k /\ \A i \in 1 .. Len(s) - k : w[i] = s[i + k]
    BY <1>7, <1>8 DEF u, w
  <2>3. /\ t \in Seq(Cell) /\ Len(t) = Len(u) + Len(w)
        /\ \A i \in 1 .. Len(u) + Len(w) : t[i] = IF i <= Len(u) THEN u[i] ELSE w[i - Len(u)]
    BY <2>1, <2>2, ConcatProperties
  <2>4. Len(t) = Len(s) - 1
    BY <2>2, <2>3, <1>6
  <2>5. ASSUME NEW i \in 1 .. Len(s) - 1
        PROVE  t[i] = IF i < k THEN s[i] ELSE s[i + 1]
    <3>1. t[i] = IF i <= k - 1 THEN u[i] ELSE w[i - (k - 1)]
      BY <2>2, <2>3, <1>6
    <3>2. CASE i < k
      BY <3>1, <3>2, <2>2, <1>6
    <3>3. CASE ~(i < k)
      <4>1. i - (k - 1) \in 1 .. Len(s) - k /\ i - (k - 1) + k = i + 1
        BY <3>3, <1>6
      <4>. QED BY <4>1, <3>1, <3>3, <2>2, <1>6
    <3>. QED BY <3>2, <3>3
  <2>. QED BY <2>3, <2>4, <2>5, LenProperties
<1>. HIDE DEF t
<1>10. IsInjective(t)
  <2> DEFINE At(i) == IF i < k THEN i ELSE i + 1
  <2>. SUFFICES ASSUME NEW a \in 1 .. Len(s) - 1, NEW c \in 1 .. Len(s) - 1, t[a] = t[c]
                PROVE  a = c
    BY <1>9 DEF IsInjective
  <2>1. \A i, j \in 1 .. Len(s) : s[i] = s[j] => i = j
    BY <1>6 DEF IsInjective
  <2>2. \A i \in 1 .. Len(s) - 1 : At(i) \in 1 .. Len(s)
    BY <1>6
  <2>3. \A i \in 1 .. Len(s) - 1 : t[i] = s[At(i)]
    BY <1>9
  <2>4. \A i, j \in 1 .. Len(s) - 1 : At(i) = At(j) => i = j
    BY <1>6
  <2>. HIDE DEF At
  <2>5. At(a) = At(c)
    BY <2>1, <2>2, <2>3
  <2>. QED BY <2>4, <2>5
<1>11. ToSet(t) = ToSet(s) \ {x}
  <2>1. ASSUME NEW y \in ToSet(t) PROVE y \in ToSet(s) /\ y # x
    <3>1. PICK i \in 1 .. Len(s) - 1 : t[i] = y
      BY <1>9 DEF ToSet
    <3>2. \E m \in 1 .. Len(s) : m # k /\ s[m] = y
      <4>1. CASE i < k
        BY <4>1, <3>1, <1>9, <1>6
      <4>2. CASE ~(i < k)
        <5>1. i + 1 \in 1 .. Len(s) /\ i + 1 # k /\ s[i + 1] = y
          BY <4>2, <3>1, <1>9, <1>6
        <5>. QED BY <5>1
      <4>. QED BY <4>1, <4>2
    <3>. QED BY <3>2, <1>1, <1>6 DEF ToSet, IsInjective
  <2>2. ASSUME NEW y \in ToSet(s), y # x PROVE y \in ToSet(t)
    <3>1. PICK i \in 1 .. Len(s) : s[i] = y
      BY DEF ToSet
    <3>2. CASE i < k
      BY <3>1, <3>2, <1>6, <1>9 DEF ToSet
    <3>3. CASE i > k
      <4>1. i - 1 \in 1 .. Len(s) - 1 /\ t[i - 1] = s[i]
        BY <3>3, <1>6, <1>9
      <4>. QED BY <4>1, <3>1, <1>9 DEF ToSet
    <3>. QED BY <3>1, <3>2, <3>3, <1>1, <2>2, <1>6
  <2>. QED BY <2>1, <2>2
<1>12. ASSUME NEW i \in DOMAIN t
       PROVE  \E m \in DOMAIN s :
                 s[m] = t[i] /\ \A j \in 1 .. m : s[j] # x => \E n \in 1 .. i : t[n] = s[j]
  <2>1. i \in 1 .. Len(s) - 1
    BY <1>9
  <2>2. CASE i < k
    <3>1. i \in DOMAIN s /\ s[i] = t[i]
      BY <2>1, <2>2, <1>6, <1>9
    <3>2. ASSUME NEW j \in 1 .. i PROVE t[j] = s[j]
      <4>1. j \in 1 .. Len(s) - 1 /\ j < k
        BY <2>1, <2>2, <1>6
      <4>. QED BY <4>1, <1>9
    <3>. QED BY <3>1, <3>2
  <2>3. CASE ~(i < k)
    <3>1. i + 1 \in DOMAIN s /\ s[i + 1] = t[i]
      BY <2>1, <2>3, <1>6, <1>9
    <3>2. ASSUME NEW j \in 1 .. i + 1, s[j] # x PROVE \E n \in 1 .. i : t[n] = s[j]
      <4>1. CASE j < k
        <5>1. j \in 1 .. i /\ j \in 1 .. Len(s) - 1
          BY <4>1, <2>1, <2>3, <1>6
        <5>. QED BY <4>1, <5>1, <1>9
      <4>2. CASE j > k
        <5>1. j - 1 \in 1 .. i /\ j - 1 \in 1 .. Len(s) - 1 /\ ~(j - 1 < k) /\ j - 1 + 1 = j
          BY <4>2, <2>1, <1>6
        <5>2. t[j - 1] = s[j]
          BY <5>1, <1>9
        <5>. QED BY <5>1, <5>2
      <4>3. j # k
        BY <3>2, <1>1
      <4>. QED BY <4>1, <4>2, <4>3, <2>1, <1>6
    <3>. QED BY <3>1, <3>2
  <2>. QED BY <2>2, <2>3
<1>. QED BY <1>5, <1>9, <1>10, <1>11, <1>12 DEF t

\* The entries are cells.
LEMMA LinkedCells ==
    ASSUME TypeOK
    PROVE  /\ Linked \subseteq Cell
           /\ IsFiniteSet(Linked)
           /\ \A b \in Bucket : list[b] \in Seq(Cell) /\ ToSet(list[b]) \subseteq Linked
           /\ \A x \in Linked : \E b \in Bucket : x \in ToSet(list[b])
           /\ \A f \in Flow : Hash[f] \in Bucket
<1>1. \A b \in Bucket : list[b] \in Seq(Cell) /\ ToSet(list[b]) \subseteq Cell
  BY DEF TypeOK, ToSet
<1>2. Linked \subseteq Cell
  BY <1>1 DEF Linked
<1>3. IsFiniteSet(Linked)
  BY <1>2, FS_Subset, TableAssumption
<1>. QED BY <1>1, <1>2, <1>3 DEF Linked, Bucket

\* next of an entry
LEMMA FollowAt ==
    ASSUME TypeOK, Lists, NEW b \in Bucket, NEW i \in DOMAIN list[b]
    PROVE  Follow(list[b][i]) = After(b, i)
<1> DEFINE s == list[b]
           x == s[i]
<1>1. s \in Seq(Cell) /\ x \in Cell /\ x \in ToSet(s) /\ x \notin Bucket
  BY LinkedCells, TableAssumption DEF ToSet
<1>2. x \in Linked /\ Hash[key[x]] = b
  BY <1>1, LinkedCells DEF Lists
<1>3. Place(s, x) = i
  BY DEF Lists, IsInjective, Place
<1>. QED BY <1>1, <1>2, <1>3 DEF Follow

\* What follows a place of a list is the next cell or the head_node.
LEMMA AfterPlace ==
    ASSUME TypeOK, NEW b \in Bucket, NEW i \in Nat
    PROVE  /\ After(b, i) \in Node
           /\ \A m \in DOMAIN list[b] : i < m =>
                 i + 1 \in 1 .. m /\ After(b, i) = list[b][i + 1] /\ After(b, i) \in Cell
<1>1. /\ list[b] \in Seq(Cell) /\ Len(list[b]) \in Nat /\ DOMAIN list[b] = 1 .. Len(list[b])
      /\ \A m \in 1 .. Len(list[b]) : list[b][m] \in Cell
  BY DEF TypeOK
<1>2. CASE i < Len(list[b])
  <2>1. i + 1 \in 1 .. Len(list[b])
    BY <1>1, <1>2
  <2>2. After(b, i) = list[b][i + 1] /\ After(b, i) \in Cell
    BY <1>1, <1>2, <2>1 DEF After
  <2>3. \A m \in DOMAIN list[b] : i < m => i + 1 \in 1 .. m
    BY <1>1
  <2>. QED BY <2>2, <2>3 DEF Node
<1>3. CASE ~(i < Len(list[b]))
  <2>1. After(b, i) = b
    BY <1>3 DEF After
  <2>2. \A m \in DOMAIN list[b] : ~(i < m)
    BY <1>1, <1>3
  <2>. QED BY <2>1, <2>2 DEF Node
<1>. QED BY <1>2, <1>3

\* Every pointer a walk loads is one it can stand on, or cannot follow.
LEMMA FollowType ==
    ASSUME TypeOK, Lists, NEW n
    PROVE  Follow(n) \in Node \cup {None}
<1>1. CASE n \in Bucket
  BY <1>1, AfterPlace DEF Follow
<1>2. CASE n \notin Bucket /\ n \in Linked
  <2>1. PICK b \in Bucket : n \in ToSet(list[b])
    BY <1>2, LinkedCells
  <2>2. PICK i \in DOMAIN list[b] : list[b][i] = n
    BY <2>1 DEF ToSet
  <2>3. i \in Nat
    BY LinkedCells, LenProperties
  <2>. QED BY <2>2, <2>3, FollowAt, AfterPlace
<1>3. CASE n \notin Bucket /\ n \notin Linked
  BY <1>3 DEF Follow, Node
<1>. QED BY <1>1, <1>2, <1>3

------------------------------------------------------------------------------
(* What a step leaves alone                                                *)

\* A handler that ends or goes on disturbs no pair of handlers.
LEMMA OneSocketKept ==
    ASSUME OneSocket,
           \A d \in CPU : Active(d)' => /\ Active(d)
                                        /\ op'[d] = op[d] /\ flow'[d] = flow[d]
    PROVE  OneSocket'
BY DEF OneSocket

\* A step of a handler that touches neither the table nor another handler, and is
\* not about a cell of its own.
LEMMA LocalStep ==
    ASSUME IInv, NEW c \in CPU, TypeOK', OneSocket', Works(c)',
           list' = list, key' = key, doubtful' = doubtful,
           pc[c] # "link", pc'[c] # "link",
           \A d \in CPU \ {c} :
               /\ pc'[d] = pc[d] /\ op'[d] = op[d] /\ flow'[d] = flow[d]
               /\ cur'[d] = cur[d] /\ ahead'[d] = ahead[d] /\ disturbed'[d] = disturbed[d]
    PROVE  IInv'
<1>1. Linked' = Linked
  BY DEF Linked
<1>2. Lists' /\ Unique'
  BY <1>1 DEF IInv, Table, Lists, Unique
<1>3. NoOrphan'
  BY <1>1 DEF IInv, Table, NoOrphan
<1>4. ASSUME NEW d \in CPU \ {c} PROVE Works(d)'
  <2>1. Works(d)
    BY DEF IInv
  <2>2. Phase(d)' /\ Holding(d)' /\ Missing(d)'
    BY <2>1, <1>1 DEF Works, Phase, Active, Holding, Missing
  <2>3. Linking(d)'
    BY <2>1, <1>1 DEF Works, Linking
  <2>4. Search(d)'
    BY <2>1 DEF Works, Search, Reached, Ptr, Home
  <2>. QED BY <2>2, <2>3, <2>4 DEF Works
<1>. QED BY <1>2, <1>3, <1>4 DEF IInv, Table

\* The flow of a handler at work, and its list.
LEMMA AtWork ==
    ASSUME IInv, NEW c \in CPU, pc[c] # "idle"
    PROVE  /\ flow[c] \in Flow /\ op[c] \in AllOps /\ Home(c) \in Bucket
           /\ list[Home(c)] \in Seq(Cell) /\ IsInjective(list[Home(c)])
           /\ \A x \in Linked : key[x] = flow[c] => x \in ToSet(list[Home(c)])
<1>1. flow[c] \in Flow /\ op[c] \in AllOps
  BY DEF IInv, Works, Phase, Active
<1>2. Home(c) \in Bucket
  BY <1>1 DEF Home, Bucket
<1>3. ASSUME NEW x \in Linked, key[x] = flow[c] PROVE x \in ToSet(list[Home(c)])
  <2>1. PICK b \in Bucket : x \in ToSet(list[b])
    BY LinkedCells DEF IInv
  <2>2. Hash[key[x]] = b
    BY <2>1 DEF IInv, Table, Lists
  <2>. QED BY <2>1, <2>2, <1>3 DEF Home
<1>. QED BY <1>1, <1>2, <1>3 DEF IInv, TypeOK, Table, Lists

\* A handler that ends leaves the others where they are.
LEMMA QuietFinish ==
    ASSUME IInv, NEW c \in CPU, Finish(c), pc[c] # "link", list' = list, key' = key, size' \in Int
    PROVE  IInv'
<1>1. /\ pc' = [pc EXCEPT ![c] = "idle"] /\ op' = [op EXCEPT ![c] = None]
      /\ flow' = [flow EXCEPT ![c] = None] /\ cur' = [cur EXCEPT ![c] = None]
      /\ ahead' = [ahead EXCEPT ![c] = None]
      /\ disturbed' = [disturbed EXCEPT ![c] = FALSE] /\ doubtful' = doubtful
  BY DEF Finish, Goto
<1>2. TypeOK'
  BY <1>1 DEF IInv, TypeOK
<1>3. /\ pc'[c] = "idle"
      /\ \A d \in CPU \ {c} :
            /\ pc'[d] = pc[d] /\ op'[d] = op[d] /\ flow'[d] = flow[d]
            /\ cur'[d] = cur[d] /\ ahead'[d] = ahead[d] /\ disturbed'[d] = disturbed[d]
  BY <1>1 DEF IInv, TypeOK
<1>4. OneSocket'
  <2>1. \A d \in CPU : Active(d)' => Active(d) /\ op'[d] = op[d] /\ flow'[d] = flow[d]
    BY <1>3 DEF Active
  <2>. QED BY <2>1, OneSocketKept DEF IInv
<1>5. Works(c)'
  BY <1>3 DEF Works, Phase, Active, Linking, Holding, Search, Walking, Missing
<1>. QED BY <1>1, <1>2, <1>3, <1>4, <1>5, LocalStep

------------------------------------------------------------------------------
(* The walk                                                                *)

LEMMA InitKeeps == ASSUME Init PROVE IInv /\ Counted
<1>1. /\ list = [b \in Bucket |-> <<>>] /\ key  = [x \in Cell |-> None] /\ size = 0
      /\ pc = [c \in CPU |-> "idle"] /\ doubtful = {}
  BY DEF Init
<1>2. Linked = {}
  BY <1>1 DEF Linked, ToSet
<1>3. TypeOK
  <2>1. <<>> \in Seq(Cell)
    OBVIOUS
  <2>. QED BY <2>1 DEF Init, TypeOK
<1>4. OneSocket /\ Unique /\ NoOrphan
  BY <1>1, <1>2 DEF OneSocket, Active, Unique, NoOrphan
<1>5. Lists
  BY <1>1 DEF Lists, IsInjective, ToSet
<1>6. \A c \in CPU : Works(c)
  BY <1>1 DEF Works, Phase, Active, Linking, Holding, Search, Walking, Missing
<1>7. Counted
  <2>1. InPhase("inc") = {} /\ InPhase("dec") = {}
    BY <1>1 DEF InPhase
  <2>2. Cardinality({}) = 0
    BY FS_EmptySet
  <2>3. /\ Cardinality(InPhase("inc")) = 0 /\ Cardinality(InPhase("dec")) = 0
        /\ Cardinality(Linked) = 0 /\ size = 0
    BY <2>1, <2>2, <1>1, <1>2
  <2>. QED BY <2>3 DEF Counted
<1>. QED BY <1>3, <1>4, <1>5, <1>6, <1>7 DEF IInv, Table

\* A handler starts at the head of its list.
LEMMA BeginStep ==
    ASSUME IInv, NEW c \in CPU, NEW o \in Ops, NEW f \in Flow, Begin(c, o, f)
    PROVE  IInv'
<1> DEFINE b == Hash[f]
           l == IF o = "end" THEN "peek" ELSE "walk"
<1>1. TypeOK /\ OneSocket /\ Lists /\ b \in Bucket /\ o \in AllOps
  BY TableAssumption DEF IInv, Table, Bucket
<1>2. /\ pc[c] = "idle" /\ pc' = [pc EXCEPT ![c] = l]
      /\ op' = [op EXCEPT ![c] = o] /\ flow' = [flow EXCEPT ![c] = f]
      /\ cur' = [cur EXCEPT ![c] = Follow(b)] /\ ahead' = ahead
      /\ list' = list /\ key' = key /\ size' = size
      /\ disturbed' = disturbed /\ doubtful' = doubtful
      /\ o # "send" => SocketFree(o, f)
  BY DEF Begin, Goto, table, history
<1>3. /\ pc'[c] = l /\ op'[c] = o /\ flow'[c] = f /\ cur'[c] = Follow(b)
      /\ \A d \in CPU \ {c} : /\ pc'[d] = pc[d] /\ op'[d] = op[d] /\ flow'[d] = flow[d]
                              /\ cur'[d] = cur[d]
  BY <1>1, <1>2 DEF TypeOK
<1>4. TypeOK'
  BY <1>1, <1>2, FollowType DEF TypeOK
<1>5. OneSocket'
  <2>1. \A d \in CPU \ {c} : Active(d)' => Active(d)
    BY <1>3 DEF Active
  <2>2. ASSUME NEW d \in CPU \ {c}, flow[d] = f
        PROVE  o = "send" \/ op[d] = "send" \/ (o = "syn" /\ op[d] = "syn")
    BY <2>2, <1>2 DEF SocketFree
  <2>. QED BY <2>1, <2>2, <1>1, <1>3 DEF OneSocket
<1>6. Phase(c)' /\ Linking(c)' /\ Holding(c)' /\ Missing(c)'
  BY <1>1, <1>3 DEF Phase, Active, Linking, Holding, Missing
<1>7. Search(c)'
  <2>1. ASSUME NEW i \in DOMAIN list[b] PROVE Follow(b) \in Cell /\ 1 \in 1 .. i /\ list[b][1] = Follow(b)
    <3>1. Follow(b) = After(b, 0) /\ 0 < i /\ i \in Nat
      BY <1>1, LinkedCells, LenProperties DEF Follow
    <3>. QED BY <3>1, <1>1, AfterPlace
  <2>2. Ptr(c)' = Follow(b) /\ Home(c)' = b /\ flow'[c] = f
    BY <1>3 DEF Ptr, Home
  <2>3. \A i \in DOMAIN list[b] : Reached(c, list[b], i)'
    BY <2>1, <2>2, <1>1, <1>2, <1>3, TableAssumption DEF Reached
  <2>. QED BY <2>2, <2>3, <1>2 DEF Search
<1>8. Works(c)'
  BY <1>6, <1>7 DEF Works
<1>. QED BY <1>2, <1>3, <1>4, <1>5, <1>8, LocalStep

\* The next pointer that the walk loads is that of the entry it stands on.
LEMMA PeekStep == ASSUME IInv, NEW c \in CPU, Peek(c) PROVE IInv'
<1> DEFINE b == Home(c)
           s == list[b]
<1>1. TypeOK /\ OneSocket /\ Lists /\ Works(c)
  BY DEF IInv, Table
<1>2. /\ pc[c] = "peek" /\ pc' = [pc EXCEPT ![c] = "walk"]
      /\ ahead' = [ahead EXCEPT ![c] = Follow(cur[c])]
      /\ op' = op /\ flow' = flow /\ cur' = cur /\ list' = list /\ key' = key /\ size' = size
      /\ disturbed' = disturbed /\ doubtful' = doubtful
  BY DEF Peek, Goto, table, history
<1>3. /\ pc'[c] = "walk" /\ ahead'[c] = Follow(cur[c])
      /\ \A d \in CPU \ {c} : pc'[d] = pc[d] /\ ahead'[d] = ahead[d]
  BY <1>1, <1>2 DEF TypeOK
<1>4. TypeOK'
  BY <1>1, <1>2, FollowType DEF TypeOK
<1>5. OneSocket'
  <2>1. \A d \in CPU : Active(d)' => Active(d)
    BY <1>2, <1>3 DEF Active
  <2>. QED BY <2>1, <1>1, <1>2, OneSocketKept
<1>6. Phase(c)' /\ Linking(c)' /\ Holding(c)' /\ Missing(c)'
  BY <1>1, <1>2, <1>3 DEF Works, Phase, Active, Linking, Holding, Missing
<1>7. Search(c)'
  <2>1. b \in Bucket /\ s \in Seq(Cell)
    BY <1>2, AtWork
  <2>2. ASSUME ~disturbed[c], NEW i \in DOMAIN s, key[s[i]] = flow[c]
        PROVE  cur[c] # b /\ (s[i] = cur[c] \/ \E j \in 1 .. i : s[j] = Follow(cur[c]))
    <3>1. Reached(c, s, i) /\ Ptr(c) = cur[c]
      BY <2>2, <1>1, <1>2 DEF Works, Search, Walking, Ptr
    <3>2. PICK j \in 1 .. i : s[j] = cur[c]
      <4>1. i \in 1 .. i
        BY <2>1, LenProperties
      <4>. QED BY <3>1, <4>1 DEF Reached
    <3>3. CASE j = i
      BY <3>1, <3>2, <3>3 DEF Reached
    <3>4. CASE j # i
      <4>1. j \in DOMAIN s /\ j \in Nat /\ j < i
        BY <2>1, <3>2, <3>4, LenProperties
      <4>2. Follow(cur[c]) = After(b, j)
        BY <4>1, <3>2, <2>1, <1>1, FollowAt
      <4>3. j + 1 \in 1 .. i /\ s[j + 1] = Follow(cur[c])
        BY <4>1, <4>2, <2>1, <1>1, AfterPlace
      <4>. QED BY <4>3, <3>1 DEF Reached
    <3>. QED BY <3>3, <3>4
  <2>3. Home(c)' = b /\ list'[b] = s /\ cur'[c] = cur[c] /\ flow'[c] = flow[c]
    BY <1>2 DEF Home
  <2>4. op[c] = "end" => Ptr(c)' = Follow(cur[c])
    BY <1>2, <1>3 DEF Ptr
  <2>5. CASE op[c] = "end"
    BY <2>2, <2>3, <2>4, <2>5, <1>2 DEF Search, Reached
  <2>6. CASE op[c] # "end"
    <3>1. Ptr(c)' = Ptr(c)
      BY <2>6, <1>2 DEF Ptr
    <3>. QED BY <3>1, <2>3, <1>1, <1>2 DEF Works, Search, Reached, Walking
  <2>. QED BY <2>5, <2>6
<1>8. Works(c)'
  BY <1>6, <1>7 DEF Works
<1>. QED BY <1>2, <1>3, <1>4, <1>5, <1>8, LocalStep

\* The walk goes on to the next entry: what it passes is not of its flow.
LEMMA WalkOnStep == ASSUME IInv, NEW c \in CPU, WalkOn(c) PROVE IInv'
<1> DEFINE b == Home(c)
           s == list[b]
           n == IF op[c] = "end" THEN ahead[c] ELSE Follow(cur[c])
           l == IF op[c] = "end" THEN "peek" ELSE "walk"
<1>1. TypeOK /\ OneSocket /\ Lists /\ Works(c)
  BY DEF IInv, Table
<1>2. /\ pc[c] = "walk" /\ ~Equal(c) /\ pc' = [pc EXCEPT ![c] = l]
      /\ cur' = [cur EXCEPT ![c] = n]
      /\ op' = op /\ flow' = flow /\ ahead' = ahead /\ list' = list /\ key' = key /\ size' = size
      /\ disturbed' = disturbed /\ doubtful' = doubtful
  <2>1. pc = [pc EXCEPT ![c] = pc[c]]
    BY <1>1 DEF TypeOK
  <2>. QED BY <2>1 DEF WalkOn, Goto, table, history
<1>3. /\ pc'[c] = l /\ cur'[c] = n
      /\ \A d \in CPU \ {c} : pc'[d] = pc[d] /\ cur'[d] = cur[d]
  BY <1>1, <1>2 DEF TypeOK
<1>4. TypeOK'
  <2>1. n \in Node \cup {None}
    BY <1>1, FollowType DEF TypeOK
  <2>. QED BY <2>1, <1>1, <1>2 DEF TypeOK
<1>5. OneSocket'
  <2>1. \A d \in CPU : Active(d)' => Active(d)
    BY <1>2, <1>3 DEF Active
  <2>. QED BY <2>1, <1>1, <1>2, OneSocketKept
<1>6. Phase(c)' /\ Linking(c)' /\ Holding(c)' /\ Missing(c)'
  BY <1>1, <1>2, <1>3 DEF Works, Phase, Active, Linking, Holding, Missing
<1>7. Search(c)'
  <2>1. b \in Bucket /\ s \in Seq(Cell)
    BY <1>2, AtWork
  <2>2. ASSUME ~disturbed[c], NEW i \in DOMAIN s, key[s[i]] = flow[c]
        PROVE  n # b /\ \E j \in 1 .. i : s[j] = n
    <3>1. Reached(c, s, i)
      BY <2>2, <1>1, <1>2 DEF Works, Search, Walking
    <3>2. s[i] \in Cell /\ i \in Nat /\ i \in 1 .. Len(s)
      BY <2>1, LenProperties, ElementOfSeq
    <3>3. s[i] # cur[c]
      BY <3>2, <2>2, <1>2 DEF Equal
    <3>4. PICK j \in 1 .. i : s[j] = Ptr(c)
      BY <3>1, <3>3 DEF Reached
    <3>5. j \in DOMAIN s /\ j \in Nat /\ s[j] \in Cell
      BY <2>1, <3>2, <3>4, LenProperties, ElementOfSeq
    <3>6. CASE op[c] = "end"
      BY <3>4, <3>5, <3>6, <2>1, <1>2, TableAssumption DEF Ptr
    <3>7. CASE op[c] # "end"
      <4>1. s[j] = cur[c] /\ j < i
        BY <3>2, <3>3, <3>4, <3>7 DEF Ptr
      <4>2. n = After(b, j)
        BY <4>1, <3>5, <3>7, <2>1, <1>1, FollowAt
      <4>3. j + 1 \in 1 .. i /\ s[j + 1] = n /\ n \in Cell
        BY <4>1, <4>2, <3>5, <2>1, <1>1, AfterPlace
      <4>. QED BY <4>3, <2>1, TableAssumption
    <3>. QED BY <3>6, <3>7
  <2>3. Home(c)' = b /\ list'[b] = s /\ flow'[c] = flow[c] /\ Ptr(c)' = n
    BY <1>2, <1>3 DEF Home, Ptr
  <2>. QED BY <2>2, <2>3, <1>2, <1>3 DEF Search, Reached
<1>8. Works(c)'
  BY <1>6, <1>7 DEF Works
<1>. QED BY <1>2, <1>3, <1>4, <1>5, <1>8, LocalStep

\* An entry that matches is the handler's, and linked unless another SYN of the
\* same flow is about to link it.
LEMMA FoundStep == ASSUME IInv, NEW c \in CPU, Found(c) PROVE IInv'
<1> DEFINE l == IF op[c] = "end" THEN "unlink" ELSE "use"
<1>1. TypeOK /\ OneSocket /\ Table /\ Works(c) /\ None \notin Flow
  BY TableAssumption DEF IInv
<1>2. /\ pc[c] = "walk" /\ Equal(c) /\ pc' = [pc EXCEPT ![c] = l]
      /\ op' = op /\ flow' = flow /\ cur' = cur /\ ahead' = ahead
      /\ list' = list /\ key' = key /\ size' = size
      /\ disturbed' = disturbed /\ doubtful' = doubtful
  BY DEF Found, Goto, table, history
<1>3. pc'[c] = l /\ \A d \in CPU \ {c} : pc'[d] = pc[d]
  BY <1>1, <1>2 DEF TypeOK
<1>4. TypeOK'
  BY <1>1, <1>2 DEF TypeOK
<1>5. OneSocket'
  <2>1. \A d \in CPU : Active(d)' => Active(d)
    BY <1>2, <1>3 DEF Active
  <2>. QED BY <2>1, <1>1, <1>2, OneSocketKept
<1>6. Phase(c)' /\ Linking(c)' /\ Search(c)' /\ Missing(c)'
  BY <1>1, <1>2, <1>3 DEF Works, Phase, Active, Linking, Search, Walking, Missing
<1>7. Holding(c)'
  <2>1. cur[c] \in Cell /\ key[cur[c]] = flow[c] /\ flow[c] # None
    BY <1>1, <1>2, AtWork DEF Equal
  <2>2. ASSUME op[c] \notin {"send", "syn"}, cur[c] \notin Linked PROVE FALSE
    <3>1. PICK d \in CPU : pc[d] = "link" /\ key[cur[c]] = flow[d]
      BY <2>1, <2>2, <1>1 DEF Table, NoOrphan
    <3>2. op[d] = "syn" /\ d # c
      BY <3>1, <1>2 DEF IInv, Works, Phase
    <3>. QED BY <3>1, <3>2, <2>1, <2>2, <1>1, <1>2 DEF OneSocket, Active
  <2>3. Linked' = Linked
    BY <1>2 DEF Linked
  <2>. QED BY <2>1, <2>2, <2>3, <1>2, <1>3 DEF Holding
<1>8. Works(c)'
  BY <1>6, <1>7 DEF Works
<1>. QED BY <1>2, <1>3, <1>4, <1>5, <1>8, LocalStep

\* An undisturbed walk that is back at its head_node has passed no entry of its flow.
LEMMA NonePassed ==
    ASSUME IInv, NEW c \in CPU, pc[c] = "walk", cur[c] = Home(c), ~disturbed[c],
           NEW x \in Linked
    PROVE  key[x] # flow[c]
<1>. SUFFICES ASSUME key[x] = flow[c] PROVE FALSE
  OBVIOUS
<1>1. x \in ToSet(list[Home(c)])
  BY AtWork
<1>2. PICK i \in DOMAIN list[Home(c)] : list[Home(c)][i] = x
  BY <1>1 DEF ToSet
<1>3. Reached(c, list[Home(c)], i)
  BY <1>2 DEF IInv, Works, Search, Walking
<1>. QED BY <1>3 DEF Reached

\* A SYN whose flow is missing allocates an entry; the others end.
LEMMA NotFoundStep == ASSUME IInv, NEW c \in CPU, NotFound(c) PROVE IInv'
<1>1. TypeOK /\ OneSocket /\ Works(c)
  BY DEF IInv
<1>2. CASE op[c] # "syn"
  BY <1>1, <1>2, QuietFinish DEF NotFound, table, TypeOK
<1>3. CASE op[c] = "syn"
  <2>1. /\ pc[c] = "walk" /\ cur[c] = Home(c) /\ pc' = [pc EXCEPT ![c] = "alloc"]
        /\ op' = op /\ flow' = flow /\ cur' = cur /\ ahead' = ahead
        /\ list' = list /\ key' = key /\ size' = size
        /\ disturbed' = disturbed /\ doubtful' = doubtful
    BY <1>3 DEF NotFound, Goto, table, history
  <2>2. pc'[c] = "alloc" /\ \A d \in CPU \ {c} : pc'[d] = pc[d]
    BY <1>1, <2>1 DEF TypeOK
  <2>3. TypeOK'
    BY <1>1, <2>1 DEF TypeOK
  <2>4. OneSocket'
    <3>1. \A d \in CPU : Active(d)' => Active(d)
      BY <2>1, <2>2 DEF Active
    <3>. QED BY <3>1, <1>1, <2>1, OneSocketKept
  <2>5. Phase(c)' /\ Linking(c)' /\ Holding(c)' /\ Search(c)'
    BY <1>1, <1>3, <2>1, <2>2 DEF Works, Phase, Active, Linking, Holding, Search, Walking
  <2>6. Missing(c)'
    <3>1. Linked' = Linked
      BY <2>1 DEF Linked
    <3>. QED BY <3>1, <2>1, NonePassed DEF Missing
  <2>7. Works(c)'
    BY <2>5, <2>6 DEF Works
  <2>. QED BY <2>1, <2>2, <2>3, <2>4, <2>7, LocalStep
<1>. QED BY <1>2, <1>3

------------------------------------------------------------------------------
(* What the handlers do with the entry                                     *)

\* The increment for a cleared entry, or the end.
LEMMA UseStep == ASSUME IInv, NEW c \in CPU, Use(c) PROVE IInv'
<1>1. TypeOK /\ OneSocket /\ Works(c)
  BY DEF IInv
<1>2. CASE op[c] # "syn"
  BY <1>1, <1>2, QuietFinish DEF Use, table, TypeOK
<1>3. CASE op[c] = "syn"
  <2>1. /\ pc[c] = "use" /\ pc' = [pc EXCEPT ![c] = "inc"]
        /\ op' = op /\ flow' = flow /\ cur' = cur /\ ahead' = ahead
        /\ list' = list /\ key' = key /\ size' = size
        /\ disturbed' = disturbed /\ doubtful' = doubtful
    BY <1>3 DEF Use, Goto, table, history
  <2>2. pc'[c] = "inc" /\ \A d \in CPU \ {c} : pc'[d] = pc[d]
    BY <1>1, <2>1 DEF TypeOK
  <2>3. TypeOK'
    BY <1>1, <2>1 DEF TypeOK
  <2>4. OneSocket'
    <3>1. \A d \in CPU : Active(d)' => Active(d)
      BY <2>1, <2>2 DEF Active
    <3>. QED BY <3>1, <1>1, <2>1, OneSocketKept
  <2>5. Works(c)'
    BY <1>1, <1>3, <2>1, <2>2 DEF Works, Phase, Active, Linking, Holding, Search, Walking, Missing
  <2>. QED BY <2>1, <2>2, <2>3, <2>4, <2>5, LocalStep
<1>. QED BY <1>2, <1>3

\* The cell was nobody's: it is this handler's until it is linked.
LEMMA AllocStep == ASSUME IInv, NEW c \in CPU, NEW x \in Cell, Alloc(c, x) PROVE IInv'
<1>1. TypeOK /\ OneSocket /\ Table /\ Works(c) /\ None \notin Flow
  BY TableAssumption DEF IInv
<1>2. /\ pc[c] = "alloc" /\ key[x] = None /\ key' = [key EXCEPT ![x] = flow[c]]
      /\ cur' = [cur EXCEPT ![c] = x] /\ pc' = [pc EXCEPT ![c] = "link"]
      /\ op' = op /\ flow' = flow /\ ahead' = ahead /\ list' = list /\ size' = size
      /\ disturbed' = disturbed /\ doubtful' = doubtful /\ Linked' = Linked
  BY DEF Alloc, Goto, history, Linked
<1>3. /\ pc'[c] = "link" /\ cur'[c] = x /\ key'[x] = flow[c]
      /\ \A d \in CPU \ {c} : pc'[d] = pc[d] /\ cur'[d] = cur[d]
      /\ \A y \in Cell \ {x} : key'[y] = key[y]
  BY <1>1, <1>2 DEF TypeOK
<1>4. flow[c] \in Flow /\ Linked \subseteq Cell
  BY <1>1, <1>2, AtWork, LinkedCells
<1>5. x \notin Linked
  <2>1. \A y \in Linked : key[y] \in Flow
    BY <1>1, LinkedCells DEF Table, Lists
  <2>. QED BY <2>1, <1>1, <1>2
<1>6. TypeOK'
  BY <1>1, <1>2, <1>4 DEF TypeOK, Node
<1>7. OneSocket'
  <2>1. \A d \in CPU : Active(d)' => Active(d)
    BY <1>2, <1>3 DEF Active
  <2>. QED BY <2>1, <1>1, <1>2, OneSocketKept
<1>8. \A y \in Linked : key'[y] = key[y]
  BY <1>3, <1>4, <1>5
<1>9. Table'
  <2>1. Lists'
    <3>1. \A b \in Bucket : \A y \in ToSet(list[b]) : key'[y] = key[y]
      BY <1>1, <1>8, LinkedCells
    <3>. QED BY <3>1, <1>1, <1>2 DEF Table, Lists
  <2>2. NoOrphan'
    BY <1>1, <1>2, <1>3 DEF Table, NoOrphan
  <2>3. Unique'
    BY <1>1, <1>2, <1>8 DEF Table, Unique
  <2>. QED BY <2>1, <2>2, <2>3 DEF Table
<1>10. \A d \in CPU \ {c} : pc[d] = "link" => cur[d] # x
  <2>1. \A d \in CPU : pc[d] = "link" => key[cur[d]] \in Flow
    BY AtWork DEF IInv, Works, Linking
  <2>. QED BY <2>1, <1>1, <1>2
<1>11. Works(c)'
  <2>1. Phase(c)' /\ Holding(c)' /\ Search(c)'
    BY <1>1, <1>2, <1>3 DEF Works, Phase, Active, Holding, Search, Walking
  <2>2. Linking(c)'
    BY <1>2, <1>3, <1>5, <1>10 DEF Linking
  <2>3. Missing(c)'
    BY <1>1, <1>2, <1>8 DEF Works, Missing
  <2>. QED BY <2>1, <2>2, <2>3 DEF Works
<1>12. ASSUME NEW d \in CPU \ {c} PROVE Works(d)'
  <2>1. Works(d)
    BY DEF IInv
  <2>2. Phase(d)' /\ Missing(d)'
    BY <2>1, <1>2, <1>3, <1>8 DEF Works, Phase, Active, Missing
  <2>3. Linking(d)'
    BY <2>1, <1>2, <1>3, <1>10 DEF Works, Linking
  <2>4. Holding(d)'
    <3>1. pc[d] \in {"use", "unlink"} => flow[d] # None
      BY <1>1, AtWork
    <3>. QED BY <3>1, <2>1, <1>2, <1>3 DEF Works, Holding
  <2>5. Search(d)'
    <3>1. pc[d] \in Walking => \A i \in DOMAIN list[Home(d)] :
              key'[list[Home(d)][i]] = key[list[Home(d)][i]]
      <4>1. pc[d] \in Walking => Home(d) \in Bucket
        BY AtWork DEF Walking
      <4>. QED BY <4>1, <1>1, <1>8, LinkedCells DEF ToSet
    <3>2. Home(d)' = Home(d) /\ Ptr(d)' = Ptr(d)
      BY <1>2, <1>3 DEF Home, Ptr
    <3>. QED BY <3>1, <3>2, <2>1, <1>2, <1>3 DEF Works, Search, Reached
  <2>. QED BY <2>2, <2>3, <2>4, <2>5 DEF Works
<1>. QED BY <1>6, <1>7, <1>9, <1>11, <1>12 DEF IInv

\* The cell becomes the last entry of its list.  Of the other handlers only those
\* of the same flow could have been looking for it, and they are disturbed.
LEMMA LinkStep == ASSUME IInv, NEW c \in CPU, Link(c) PROVE IInv' /\ Linked' = Linked \cup {cur[c]}
<1> DEFINE b == Home(c)
           s == list[b]
           x == cur[c]
<1>1. TypeOK /\ OneSocket /\ Table /\ Works(c) /\ None \notin Flow
  BY TableAssumption DEF IInv
<1>2. /\ pc[c] = "link" /\ pc' = [pc EXCEPT ![c] = "inc"]
      /\ list' = [list EXCEPT ![b] = Append(@, x)]
      /\ disturbed' = [d \in CPU |-> disturbed[d] \/ (d # c /\ flow[d] = flow[c])]
      /\ doubtful' = IF disturbed[c] THEN doubtful \cup {x} ELSE doubtful
      /\ cur' = [cur EXCEPT ![c] = None]
      /\ key' = key /\ size' = size /\ op' = op /\ flow' = flow /\ ahead' = ahead
  BY DEF Link, Goto
<1>3. /\ pc'[c] = "inc"
      /\ \A d \in CPU \ {c} : /\ pc'[d] = pc[d] /\ cur'[d] = cur[d]
                              /\ ~disturbed'[d] => ~disturbed[d] /\ flow[d] # flow[c]
  BY <1>1, <1>2 DEF TypeOK
<1>4. /\ x \in Cell \ Linked /\ key[x] = flow[c] /\ flow[c] \in Flow /\ op[c] = "syn"
      /\ \A d \in CPU \ {c} : pc[d] = "link" => cur[d] # x
  BY <1>1, <1>2, AtWork DEF Works, Linking, Phase
<1>5. b \in Bucket /\ s \in Seq(Cell) /\ IsInjective(s) /\ x \notin ToSet(s)
  BY <1>1, <1>2, <1>4, AtWork, LinkedCells
<1>6. /\ list'[b] = Append(s, x) /\ list'[b] \in Seq(Cell) /\ IsInjective(list'[b])
      /\ ToSet(list'[b]) = ToSet(s) \cup {x}
      /\ \A a \in Bucket \ {b} : list'[a] = list[a]
  <2>1. list'[b] = Append(s, x) /\ \A a \in Bucket \ {b} : list'[a] = list[a]
    BY <1>1, <1>2, <1>5 DEF TypeOK
  <2>. QED BY <2>1, <1>4, <1>5, Appended
<1>7. Linked' = Linked \cup {x}
  <2>1. /\ \A y : y \in Linked <=> \E a \in Bucket : y \in ToSet(list[a])
        /\ \A y : y \in Linked' <=> \E a \in Bucket : y \in ToSet(list'[a])
    BY DEF Linked
  <2>. QED BY <2>1, <1>5, <1>6
<1>8. TypeOK'
  <2>1. list' \in [Bucket -> Seq(Cell)]
    BY <1>1, <1>2, <1>5, <1>6 DEF TypeOK
  <2>2. disturbed' \in [CPU -> BOOLEAN]
    BY <1>2
  <2>. QED BY <2>1, <2>2, <1>1, <1>2, <1>4 DEF TypeOK
<1>9. OneSocket'
  <2>1. \A d \in CPU : Active(d)' => Active(d)
    BY <1>2, <1>3 DEF Active
  <2>. QED BY <2>1, <1>1, <1>2, OneSocketKept
<1>10. Table'
  <2>1. Lists'
    <3>. SUFFICES ASSUME NEW a \in Bucket
                  PROVE  /\ IsInjective(list'[a])
                         /\ \A y \in ToSet(list'[a]) : key[y] \in Flow /\ Hash[key[y]] = a
      BY <1>2 DEF Lists
    <3>1. CASE a = b
      BY <3>1, <1>1, <1>4, <1>5, <1>6 DEF Table, Lists, Home
    <3>2. CASE a # b
      BY <3>2, <1>1, <1>6 DEF Table, Lists
    <3>. QED BY <3>1, <3>2
  <2>2. NoOrphan'
    BY <1>1, <1>2, <1>3, <1>4, <1>7 DEF Table, NoOrphan
  <2>3. Unique'
    <3>1. CASE disturbed[c]
      BY <3>1, <1>1, <1>2, <1>7 DEF Table, Unique
    <3>2. CASE ~disturbed[c]
      <4>1. \A y \in Linked : key[y] # key[x]
        BY <3>2, <1>1, <1>2, <1>4 DEF Works, Missing
      <4>. QED BY <4>1, <3>2, <1>1, <1>2, <1>7 DEF Table, Unique
    <3>. QED BY <3>1, <3>2
  <2>. QED BY <2>1, <2>2, <2>3 DEF Table
<1>11. Works(c)'
  BY <1>1, <1>2, <1>3, <1>4 DEF Works, Phase, Active, Linking, Holding, Search, Walking, Missing
<1>12. ASSUME NEW d \in CPU \ {c} PROVE Works(d)'
  <2>1. Works(d)
    BY DEF IInv
  <2>2. Phase(d)'
    BY <2>1, <1>2, <1>3 DEF Works, Phase, Active
  <2>3. Linking(d)'
    BY <2>1, <1>2, <1>3, <1>4, <1>7 DEF Works, Linking
  <2>4. Holding(d)'
    BY <2>1, <1>2, <1>3, <1>7 DEF Works, Holding
  <2>5. Missing(d)'
    BY <2>1, <1>2, <1>3, <1>4, <1>7 DEF Works, Missing
  <2>6. Search(d)'
    <3>. SUFFICES ASSUME pc[d] \in Walking, ~disturbed[d], flow[d] # flow[c],
                         NEW i \in DOMAIN list'[Home(d)], key[list'[Home(d)][i]] = flow[d]
                  PROVE  Reached(d, list'[Home(d)], i)
      <4>1. Home(d)' = Home(d) /\ cur'[d] = cur[d] /\ Ptr(d)' = Ptr(d) /\ pc'[d] = pc[d]
            /\ flow'[d] = flow[d] /\ key' = key
        BY <1>2, <1>3 DEF Home, Ptr
      <4>. QED BY <4>1, <1>3 DEF Search, Reached
    <3>1. Home(d) \in Bucket /\ list[Home(d)] \in Seq(Cell)
      BY AtWork DEF Walking
    <3>2. i \in DOMAIN list[Home(d)] /\ list'[Home(d)][i] = list[Home(d)][i]
          /\ \A j \in 1 .. i : list'[Home(d)][j] = list[Home(d)][j]
      <4>1. CASE Home(d) # b
        BY <4>1, <3>1, <1>6
      <4>2. CASE Home(d) = b
        <5>1. /\ i \in 1 .. Len(s) + 1 /\ Len(s) \in Nat /\ DOMAIN s = 1 .. Len(s)
              /\ \A j \in 1 .. Len(s) : list'[b][j] = s[j]
              /\ list'[b][Len(s) + 1] = x
          BY <4>2, <1>5, <1>6
        <5>2. i # Len(s) + 1
          <6>. SUFFICES ASSUME i = Len(s) + 1 PROVE FALSE
            OBVIOUS
          <6>1. list'[Home(d)][i] = x
            BY <5>1, <4>2
          <6>. QED BY <6>1, <1>4
        <5>3. i \in 1 .. Len(s)
          BY <5>1, <5>2
        <5>4. \A j \in 1 .. i : j \in 1 .. Len(s)
          BY <5>1, <5>3
        <5>. QED BY <5>1, <5>3, <5>4, <4>2
      <4>. QED BY <4>1, <4>2
    <3>3. Reached(d, list[Home(d)], i)
      BY <3>2, <2>1 DEF Works, Search
    <3>. QED BY <3>2, <3>3 DEF Reached
  <2>. QED BY <2>2, <2>3, <2>4, <2>5, <2>6 DEF Works
<1>. QED BY <1>7, <1>8, <1>9, <1>10, <1>11, <1>12 DEF IInv

\* The entry leaves its list and its cell is free.  The walks that stood on it or
\* had it ahead are disturbed; for the others the list is as it was but for an entry
\* that is not of their flow or that they have yet to reach.
LEMMA UnlinkStep ==
    ASSUME IInv, NEW c \in CPU, Unlink(c)
    PROVE  IInv' /\ cur[c] \in Linked /\ Linked' = Linked \ {cur[c]}
<1> DEFINE b == Home(c)
           s == list[b]
           x == cur[c]
<1>1. TypeOK /\ OneSocket /\ Table /\ Works(c) /\ None \notin Flow
  BY TableAssumption DEF IInv
<1>2. /\ pc[c] = "unlink" /\ pc' = [pc EXCEPT ![c] = "dec"]
      /\ list' = [list EXCEPT ![b] = RemoveFirst(@, x)] /\ key' = [key EXCEPT ![x] = None]
      /\ disturbed' = [d \in CPU |-> \/ disturbed[d]
                                     \/ d # c /\ pc[d] \in Walking /\ x \in {cur[d], ahead[d]}]
      /\ doubtful' = doubtful \ {x}
      /\ cur' = [cur EXCEPT ![c] = None] /\ ahead' = [ahead EXCEPT ![c] = None]
      /\ size' = size /\ op' = op /\ flow' = flow
  BY DEF Unlink, Goto, Disturbs
<1>3. /\ pc'[c] = "dec"
      /\ \A d \in CPU \ {c} :
            /\ pc'[d] = pc[d] /\ cur'[d] = cur[d] /\ ahead'[d] = ahead[d]
            /\ ~disturbed'[d] => /\ ~disturbed[d]
                                 /\ pc[d] \in Walking => cur[d] # x /\ ahead[d] # x
  BY <1>1, <1>2 DEF TypeOK
<1>4. x \in Cell /\ x \in Linked /\ key[x] = flow[c] /\ flow[c] \in Flow /\ op[c] = "end"
  BY <1>1, <1>2, AtWork DEF Works, Holding, Phase
<1>5. b \in Bucket /\ s \in Seq(Cell) /\ IsInjective(s) /\ x \in ToSet(s)
  BY <1>2, <1>4, AtWork
<1>6. /\ list'[b] = RemoveFirst(s, x)
      /\ list'[b] \in Seq(Cell) /\ IsInjective(list'[b])
      /\ ToSet(list'[b]) = ToSet(s) \ {x}
      /\ \A a \in Bucket \ {b} : list'[a] = list[a] /\ x \notin ToSet(list[a])
  <2>1. list'[b] = RemoveFirst(s, x) /\ \A a \in Bucket \ {b} : list'[a] = list[a]
    BY <1>1, <1>2, <1>5 DEF TypeOK
  <2>2. \A a \in Bucket \ {b} : x \notin ToSet(list[a])
    BY <1>1, <1>5 DEF Table, Lists
  <2>. QED BY <2>1, <2>2, <1>5, Removed
<1>7. Linked' = Linked \ {x}
  <2>1. /\ \A y : y \in Linked <=> \E a \in Bucket : y \in ToSet(list[a])
        /\ \A y : y \in Linked' <=> \E a \in Bucket : y \in ToSet(list'[a])
    BY DEF Linked
  <2>. QED BY <2>1, <1>5, <1>6
<1>8. key'[x] = None /\ \A y \in Cell \ {x} : key'[y] = key[y]
  BY <1>1, <1>2, <1>4 DEF TypeOK
<1>9. \A y \in Linked' : y \in Linked /\ y # x /\ y \in Cell /\ key'[y] = key[y]
  BY <1>1, <1>7, <1>8, LinkedCells
<1>10. TypeOK'
  <2>1. list' \in [Bucket -> Seq(Cell)]
    BY <1>1, <1>2, <1>5, <1>6 DEF TypeOK
  <2>2. disturbed' \in [CPU -> BOOLEAN]
    BY <1>1, <1>2 DEF TypeOK
  <2>. QED BY <2>1, <2>2, <1>1, <1>2 DEF TypeOK
<1>11. OneSocket'
  <2>1. \A d \in CPU : Active(d)' => Active(d)
    BY <1>2, <1>3 DEF Active
  <2>. QED BY <2>1, <1>1, <1>2, OneSocketKept
<1>12. Table'
  <2>1. Lists'
    <3>. SUFFICES ASSUME NEW a \in Bucket
                  PROVE  /\ IsInjective(list'[a])
                         /\ \A y \in ToSet(list'[a]) : key'[y] \in Flow /\ Hash[key'[y]] = a
      BY DEF Lists
    <3>1. ToSet(list'[a]) \subseteq ToSet(list[a]) /\ x \notin ToSet(list'[a])
          /\ IsInjective(list'[a])
      BY <1>1, <1>5, <1>6 DEF Table, Lists
    <3>2. \A y \in ToSet(list'[a]) : key'[y] = key[y]
      BY <3>1, <1>1, <1>8, LinkedCells
    <3>. QED BY <3>1, <3>2, <1>1 DEF Table, Lists
  <2>2. NoOrphan'
    BY <1>1, <1>2, <1>3, <1>7, <1>8 DEF Table, NoOrphan
  <2>3. Unique'
    BY <1>1, <1>2, <1>9 DEF Table, Unique
  <2>. QED BY <2>1, <2>2, <2>3 DEF Table
<1>13. Works(c)'
  BY <1>1, <1>2, <1>3, <1>4 DEF Works, Phase, Active, Linking, Holding, Search, Walking, Missing
<1>14. ASSUME NEW d \in CPU \ {c} PROVE Works(d)'
  <2>1. Works(d)
    BY DEF IInv
  <2>2. Phase(d)'
    BY <2>1, <1>2, <1>3 DEF Works, Phase, Active
  <2>3. Linking(d)'
    BY <2>1, <1>2, <1>3, <1>4, <1>7, <1>8 DEF Works, Linking
  <2>4. Holding(d)'
    <3>1. pc[d] \in {"use", "unlink"} /\ op[d] # "send" => cur[d] # x
      BY <2>1, <1>1, <1>2, <1>4 DEF Works, Holding, OneSocket, Active
    <3>. QED BY <3>1, <2>1, <1>2, <1>3, <1>7, <1>8 DEF Works, Holding
  <2>5. Missing(d)'
    BY <2>1, <1>2, <1>3, <1>9 DEF Works, Missing
  <2>6. Search(d)'
    <3> DEFINE t == list'[Home(d)]
               r == list[Home(d)]
    <3>. SUFFICES ASSUME pc[d] \in Walking, ~disturbed[d], cur[d] # x, ahead[d] # x,
                         NEW i \in DOMAIN t, key'[t[i]] = flow[d]
                  PROVE  Reached(d, t, i)
      <4>1. Home(d)' = Home(d) /\ cur'[d] = cur[d] /\ Ptr(d)' = Ptr(d) /\ pc'[d] = pc[d]
            /\ flow'[d] = flow[d]
        BY <1>2, <1>3 DEF Home, Ptr
      <4>. QED BY <4>1, <1>3 DEF Search, Reached
    <3>1. Home(d) \in Bucket /\ r \in Seq(Cell) /\ flow[d] \in Flow
      BY AtWork DEF Walking
    <3>2. key[t[i]] = flow[d]
      <4>1. t[i] \in ToSet(t)
        BY DEF ToSet
      <4>2. t[i] \in Linked'
        BY <4>1, <3>1 DEF Linked
      <4>. QED BY <4>2, <1>9
    <3>3. PICK m \in DOMAIN r :
             r[m] = t[i] /\ \A j \in 1 .. m : r[j] # x => \E n \in 1 .. i : t[n] = r[j]
      <4>1. CASE Home(d) # b
        <5>1. t = r
          BY <4>1, <3>1, <1>6
        <5>. QED BY <5>1
      <4>2. CASE Home(d) = b
        <5>1. /\ r \in Seq(Cell) /\ IsInjective(r) /\ x \in ToSet(r)
              /\ t = RemoveFirst(r, x)
          BY <4>2, <1>5, <1>6
        <5>. HIDE DEF t, r, x
        <5>2. i \in DOMAIN RemoveFirst(r, x)
          BY <5>1
        <5>. QED BY <5>1, <5>2, Removed
      <4>. QED BY <4>1, <4>2
    <3>4. Reached(d, r, m)
      BY <3>2, <3>3, <2>1 DEF Works, Search
    <3>5. Ptr(d) # x
      BY DEF Ptr
    <3>. QED BY <3>3, <3>4, <3>5 DEF Reached
  <2>. QED BY <2>2, <2>3, <2>4, <2>5, <2>6 DEF Works
<1>. QED BY <1>4, <1>7, <1>10, <1>11, <1>12, <1>13, <1>14 DEF IInv

\* The table is emptied when no handler is at work.
LEMMA ExitStep == ASSUME IInv, Exit PROVE IInv' /\ Counted'
<1>1. TypeOK /\ OneSocket /\ Table /\ \A c \in CPU : Works(c)
  BY DEF IInv
<1>2. /\ \A c \in CPU : pc[c] = "idle"
      /\ list' = [b \in Bucket |-> <<>>] /\ size' = 0 /\ doubtful' = {}
      /\ key' = [x \in Cell |-> IF x \in Linked THEN None ELSE key[x]]
      /\ pc' = pc /\ op' = op /\ flow' = flow /\ cur' = cur /\ ahead' = ahead
      /\ disturbed' = disturbed
  BY DEF Exit, handler
<1>3. Linked' = {}
  BY <1>2 DEF Linked, ToSet
<1>4. TypeOK'
  <2>1. <<>> \in Seq(Cell)
    OBVIOUS
  <2>. QED BY <2>1, <1>1, <1>2 DEF TypeOK
<1>5. OneSocket'
  BY <1>2 DEF OneSocket, Active
<1>6. Table'
  <2>1. Lists'
    BY <1>2 DEF Lists, IsInjective, ToSet
  <2>2. NoOrphan'
    BY <1>1, <1>2, <1>3 DEF Table, NoOrphan
  <2>3. Unique'
    BY <1>3 DEF Unique
  <2>. QED BY <2>1, <2>2, <2>3 DEF Table
<1>7. \A c \in CPU : Works(c)'
  BY <1>2 DEF Works, Phase, Active, Linking, Holding, Search, Walking, Missing
<1>8. Counted'
  <2>1. InPhase("dec")' = {} /\ InPhase("inc")' = {}
    BY <1>2 DEF InPhase
  <2>2. Cardinality({}) = 0
    BY FS_EmptySet
  <2>3. /\ Cardinality(InPhase("dec"))' = 0 /\ Cardinality(InPhase("inc"))' = 0
        /\ Cardinality(Linked)' = 0 /\ size' = 0
    BY <2>1, <2>2, <1>2, <1>3
  <2>. QED BY <2>3 DEF Counted
<1>. QED BY <1>4, <1>5, <1>6, <1>7, <1>8 DEF IInv

------------------------------------------------------------------------------
(* The number of flows                                                     *)

LEMMA FiniteParts ==
    ASSUME TypeOK
    PROVE  /\ \A l : IsFiniteSet(InPhase(l)) /\ Cardinality(InPhase(l)) \in Nat
           /\ IsFiniteSet(Linked) /\ Cardinality(Linked) \in Nat
           /\ size \in Int
<1>1. \A l : InPhase(l) \subseteq CPU
  BY DEF InPhase
<1>. QED BY <1>1, LinkedCells, TableAssumption, FS_Subset, FS_CardinalityType DEF TypeOK

\* The increment comes after the append and the decrement after the removal; each
\* is made up for by its handler until then.
LEMMA CountedStep ==
    ASSUME IInv, Counted, NEW c \in CPU, Step(c)
    PROVE  Counted'
<1> DEFINE inc  == Cardinality(InPhase("inc"))
           dec  == Cardinality(InPhase("dec"))
           live == Cardinality(Linked)
<1>1. TypeOK /\ inc \in Nat /\ dec \in Nat /\ live \in Nat /\ size \in Int
      /\ size + inc - dec >= live
  BY FiniteParts DEF IInv, Counted
<1>2. SUFFICES size' + inc' - dec' >= live'
  BY DEF Counted
<1>3. CASE Link(c)
  <2>1. pc[c] = "link" /\ pc' = [pc EXCEPT ![c] = "inc"] /\ size' = size
    BY <1>3 DEF Link, Goto
  <2>2. inc' = inc + 1 /\ dec' = dec
    <3>1. /\ InPhase("inc")' = InPhase("inc") \cup {c} /\ c \notin InPhase("inc")
          /\ InPhase("dec")' = InPhase("dec")
      BY <2>1, <1>1 DEF InPhase, TypeOK
    <3>. QED BY <3>1, <1>1, FiniteParts, FS_AddElement
  <2>3. Cardinality(Linked \cup {cur[c]}) <= live + 1
    <3>1. IsFiniteSet(Linked)
      BY <1>1, FiniteParts
    <3>. QED BY <3>1, <1>1, FS_AddElement
  <2>4. live' = Cardinality(Linked \cup {cur[c]}) /\ live' \in Nat
    <3>1. Linked' = Linked \cup {cur[c]}
      BY <1>3, LinkStep
    <3>2. IsFiniteSet(Linked \cup {cur[c]})
      BY <1>1, FiniteParts, FS_AddElement
    <3>. QED BY <3>1, <3>2, FS_CardinalityType
  <2>. HIDE DEF inc, dec, live
  <2>. QED BY <2>1, <2>2, <2>3, <2>4, <1>1
<1>4. CASE Unlink(c)
  <2>1. pc[c] = "unlink" /\ pc' = [pc EXCEPT ![c] = "dec"] /\ size' = size
    BY <1>4 DEF Unlink, Goto
  <2>2. inc' = inc /\ dec' = dec + 1
    <3>1. /\ InPhase("dec")' = InPhase("dec") \cup {c} /\ c \notin InPhase("dec")
          /\ InPhase("inc")' = InPhase("inc")
      BY <2>1, <1>1 DEF InPhase, TypeOK
    <3>. QED BY <3>1, <1>1, FiniteParts, FS_AddElement
  <2>3. cur[c] \in Linked /\ Linked' = Linked \ {cur[c]}
    BY <1>4, UnlinkStep
  <2>4. Cardinality(Linked \ {cur[c]}) = live - 1
    BY <2>3, <1>1, FiniteParts, FS_RemoveElement
  <2>5. live' = live - 1
    BY <2>3, <2>4
  <2>. HIDE DEF inc, dec, live
  <2>. QED BY <2>1, <2>2, <2>5, <1>1
<1>5. CASE IncSize(c)
  <2>1. pc[c] = "inc" /\ pc' = [pc EXCEPT ![c] = "idle"] /\ size' = size + 1 /\ Linked' = Linked
    BY <1>5 DEF IncSize, Finish, Goto, Linked
  <2>2. inc' = inc - 1 /\ dec' = dec
    <3>1. /\ InPhase("inc")' = InPhase("inc") \ {c} /\ c \in InPhase("inc")
          /\ InPhase("dec")' = InPhase("dec")
      BY <2>1, <1>1 DEF InPhase, TypeOK
    <3>. QED BY <3>1, <1>1, FiniteParts, FS_RemoveElement
  <2>3. live' = live
    BY <2>1
  <2>. HIDE DEF inc, dec, live
  <2>. QED BY <2>1, <2>2, <2>3, <1>1
<1>6. CASE DecSize(c)
  <2>1. pc[c] = "dec" /\ pc' = [pc EXCEPT ![c] = "idle"] /\ size' = size - 1 /\ Linked' = Linked
    BY <1>6 DEF DecSize, Finish, Goto, Linked
  <2>2. inc' = inc /\ dec' = dec - 1
    <3>1. /\ InPhase("dec")' = InPhase("dec") \ {c} /\ c \in InPhase("dec")
          /\ InPhase("inc")' = InPhase("inc")
      BY <2>1, <1>1 DEF InPhase, TypeOK
    <3>. QED BY <3>1, <1>1, FiniteParts, FS_RemoveElement
  <2>3. live' = live
    BY <2>1
  <2>. HIDE DEF inc, dec, live
  <2>. QED BY <2>1, <2>2, <2>3, <1>1
<1>7. CASE ~(Link(c) \/ Unlink(c) \/ IncSize(c) \/ DecSize(c))
  <2>1. PICK l \in {"idle", "peek", "walk", "use", "alloc", "link", "inc", "unlink"} :
           pc' = [pc EXCEPT ![c] = l]
    <3>1. WalkOn(c) => pc' = [pc EXCEPT ![c] = "peek"] \/ pc' = [pc EXCEPT ![c] = "walk"]
      <4>1. pc = [pc EXCEPT ![c] = pc[c]]
        BY <1>1 DEF TypeOK
      <4>. QED BY <4>1 DEF WalkOn, Goto
    <3>2. NotFound(c) \/ Use(c) \/ AllocFails(c) =>
             \E l \in {"idle", "alloc", "inc"} : pc' = [pc EXCEPT ![c] = l]
      BY DEF NotFound, Use, AllocFails, Finish, Goto
    <3>3. Peek(c) \/ Found(c) \/ (\E x \in Cell : Alloc(c, x)) =>
             \E l \in {"walk", "unlink", "use", "link"} : pc' = [pc EXCEPT ![c] = l]
      BY DEF Peek, Found, Alloc, Goto
    <3>. QED BY <3>1, <3>2, <3>3, <1>7 DEF Step
  <2>2. pc[c] \notin {"inc", "dec"} /\ size' = size /\ list' = list
    BY <1>7 DEF Step, Peek, WalkOn, Found, NotFound, Use, Alloc, AllocFails, table
  <2>3. (inc' = inc \/ inc' = inc + 1) /\ dec' = dec
    <3>1. pc'[c] = l /\ \A d \in CPU \ {c} : pc'[d] = pc[d]
      BY <2>1, <1>1 DEF TypeOK
    <3>2. InPhase("dec")' = InPhase("dec")
      BY <3>1, <2>1, <2>2 DEF InPhase
    <3>3. CASE l = "inc"
      <4>1. InPhase("inc")' = InPhase("inc") \cup {c} /\ c \notin InPhase("inc")
        BY <3>1, <3>3, <2>2 DEF InPhase
      <4>2. inc' = inc + 1
        BY <4>1, <1>1, FiniteParts, FS_AddElement
      <4>. QED BY <4>2, <3>2, <1>1
    <3>4. CASE l # "inc"
      <4>1. InPhase("inc")' = InPhase("inc")
        BY <3>1, <3>4, <2>2 DEF InPhase
      <4>. QED BY <4>1, <3>2, <1>1
    <3>. QED BY <3>3, <3>4
  <2>4. live' = live
    BY <2>2 DEF Linked
  <2>5. size' = size
    BY <2>2
  <2>. HIDE DEF inc, dec, live
  <2>. QED BY <2>3, <2>4, <2>5, <1>1
<1>. QED BY <1>3, <1>4, <1>5, <1>6, <1>7

------------------------------------------------------------------------------
(* The theorems                                                            *)

\* Every action of every handler keeps the invariant.
LEMMA StepKeeps ==
    ASSUME IInv, Counted, [Next]_vars
    PROVE  IInv' /\ Counted'
<1>1. CASE UNCHANGED vars
  <2>1. /\ list' = list /\ key' = key /\ size' = size /\ pc' = pc /\ op' = op
        /\ flow' = flow /\ cur' = cur /\ ahead' = ahead
        /\ disturbed' = disturbed /\ doubtful' = doubtful /\ Linked' = Linked
    BY <1>1 DEF vars, table, handler, history, Linked
  <2>2. TypeOK' /\ OneSocket'
    BY <2>1 DEF IInv, TypeOK, OneSocket, Active
  <2>3. Table'
    BY <2>1 DEF IInv, Table, Lists, NoOrphan, Unique
  <2>4. ASSUME NEW c \in CPU PROVE Works(c)'
    <3>1. Phase(c)' /\ Linking(c)' /\ Holding(c)' /\ Missing(c)'
      BY <2>1 DEF IInv, Works, Phase, Active, Linking, Holding, Missing
    <3>2. Search(c)'
      BY <2>1 DEF IInv, Works, Search, Reached, Ptr, Home
    <3>. QED BY <3>1, <3>2 DEF Works
  <2>5. Counted'
    <3>1. InPhase("inc")' = InPhase("inc") /\ InPhase("dec")' = InPhase("dec")
      BY <2>1 DEF InPhase
    <3>. QED BY <3>1, <2>1 DEF Counted
  <2>. QED BY <2>2, <2>3, <2>4, <2>5 DEF IInv
<1>2. ASSUME NEW c \in CPU, Step(c) PROVE IInv' /\ Counted'
  <2>1. CASE AllocFails(c)
    BY <2>1, QuietFinish, CountedStep, <1>2 DEF AllocFails, table, IInv, TypeOK
  <2>2. CASE IncSize(c) \/ DecSize(c)
    <3>1. size' \in Int /\ Finish(c) /\ list' = list /\ key' = key /\ pc[c] # "link"
      BY <2>2 DEF IncSize, DecSize, IInv, TypeOK
    <3>. QED BY <3>1, QuietFinish, CountedStep, <1>2
  <2>. QED BY <1>2, <2>1, <2>2, PeekStep, WalkOnStep, FoundStep, NotFoundStep, UseStep,
              AllocStep, LinkStep, UnlinkStep, CountedStep DEF Step
<1>3. ASSUME NEW c \in CPU, NEW o \in Ops, NEW f \in Flow, Begin(c, o, f)
      PROVE  IInv' /\ Counted'
  <2>1. IInv'
    BY <1>3, BeginStep
  <2>2. /\ pc[c] = "idle" /\ pc' = [pc EXCEPT ![c] = IF o = "end" THEN "peek" ELSE "walk"]
        /\ size' = size /\ Linked' = Linked
    BY <1>3 DEF Begin, Goto, table, Linked
  <2>3. /\ Cardinality(InPhase("inc"))' = Cardinality(InPhase("inc"))
        /\ Cardinality(InPhase("dec"))' = Cardinality(InPhase("dec"))
    <3>1. pc'[c] \in {"peek", "walk"} /\ \A d \in CPU \ {c} : pc'[d] = pc[d]
      BY <2>2 DEF IInv, TypeOK
    <3>2. InPhase("inc")' = InPhase("inc") /\ InPhase("dec")' = InPhase("dec")
      BY <3>1, <2>2 DEF InPhase
    <3>. QED BY <3>2
  <2>. QED BY <2>1, <2>2, <2>3 DEF Counted
<1>. QED BY <1>1, <1>2, <1>3, ExitStep DEF Next

\* The pieces of the invariant that the properties are made of.
LEMMA Suffices ==
    ASSUME IInv, Counted
    PROVE  NoDuplicateFlow /\ NothingOverlooked /\ NoLeak /\ UsesOwnEntry
<1>1. NoDuplicateFlow
  BY DEF IInv, Table, Unique, NoDuplicateFlow, Entries
<1>2. NothingOverlooked
  <2>. SUFFICES ASSUME NEW c \in CPU, ~disturbed[c],
                       (pc[c] = "walk" /\ cur[c] = Home(c)) \/ pc[c] \in {"alloc", "link"},
                       NEW x \in Linked
                PROVE  key[x] # flow[c]
    BY DEF NothingOverlooked, Entries
  <2>. QED BY NonePassed DEF IInv, Works, Missing
<1>3. NoLeak
  <2>1. \A c \in CPU : pc[c] = "link" => cur[c] \notin Linked
    BY DEF IInv, Works, Linking
  <2>. QED BY <2>1 DEF NoLeak, IInv, Table, Lists, NoOrphan, Counted
<1>4. UsesOwnEntry
  BY DEF IInv, Works, Holding, UsesOwnEntry, Equal
<1>. QED BY <1>1, <1>2, <1>3, <1>4

\* The invariant of the table holds on every schedule.
LEMMA TableInvariant == Spec => [](IInv /\ Counted)
<1>1. Init => IInv /\ Counted
  BY InitKeeps
<1>2. (IInv /\ Counted) /\ [Next]_vars => (IInv /\ Counted)'
  BY StepKeeps
<1>. QED BY <1>1, <1>2, PTL DEF Spec

\* However the walks of a bucket are diverted into freed memory, the hook writes and
\* frees only entries of its own flow, and none twice (main.c:178-193,
\* flow.c:219, 281-288).
THEOREM HooksUseOwnEntry == Spec => []UsesOwnEntry
BY TableInvariant, Suffices, PTL

\* The lock is not kept from the search to the append (flow.c:212-238): a second
\* entry of a flow is always one that a disturbed handler linked, whatever appends
\* and deletes of other flows come in between.
THEOREM OneEntryPerFlow == Spec => []NoDuplicateFlow
BY TableInvariant, Suffices, PTL

\* A search under which no entry was freed, and that finds nothing, has overlooked
\* nothing (flow.c:175-181, 279-292).
THEOREM SearchIsComplete == Spec => []NothingOverlooked
BY TableInvariant, Suffices, PTL

\* No cell is lost or linked twice, and the reported size covers the entries
\* (flow.c:226-238, 257-261, 281-288, 309-311).
THEOREM NothingLeaks == Spec => []NoLeak
BY TableInvariant, Suffices, PTL

\* The state keeps its shape: every pointer a walk loads is a cell, a head_node or
\* one that cannot be followed (flow.c:175, 279).
THEOREM TableTypeCorrect == Spec => []TypeOK
<1>1. IInv /\ Counted => TypeOK
  BY DEF IInv
<1>. QED BY TableInvariant, <1>1, PTL

==============================================================================
