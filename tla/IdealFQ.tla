------------------------------- MODULE IdealFQ -------------------------------
(***************************************************************************)
(* Ideal fair queuing of the simulator                                     *)
(* (ns2/fairqueuing/queue/FQ_Ideal): a message has the queue its hash      *)
(* gives, and queues are served in the order of a linked list, whose nodes *)
(* are allocated and freed as queues move to its end.  Each call of enque  *)
(* and deque is one step.                                                  *)
(***************************************************************************)
EXTENDS Integers, Sequences, SequencesExt, FiniteSets

CONSTANTS
    Hash,        \* the queue of each message
    NumQueues,   \* MAX_QUEUE_NUM, 100
    Node, ListHead,  \* addresses of nodes, and &queue_info_head
    Limit,       \* qlim_ * mean_pktsize_, in packets of one size
    MarkAbove    \* thresh_ * mean_pktsize_, the same

\* Assumed of the constants where the port is checked.
IdealAssumption ==
    /\ NumQueues \in Nat /\ NumQueues > 0
    /\ Hash \in [DOMAIN Hash -> 0 .. NumQueues - 1]
    /\ ListHead \notin Node

VARIABLES
    q,           \* q_: packets of each queue
    next, qid,   \* the nodes
    tail,        \* queue_info_tail
    turns        \* history: turns of each queue while another one waits

vars == <<q, next, qid, tail, turns>>

Queues == 0 .. NumQueues - 1

Init ==
    /\ q = [i \in Queues |-> <<>>]
    /\ \E s \in {s \in [Queues -> Node] : IsInjective(s)} :
          /\ next \in {n \in [Node \cup {ListHead} -> Node] :
                         /\ n[ListHead] = s[0]
                         /\ \A i \in 1 .. NumQueues - 1 : n[s[i - 1]] = s[i]}
          /\ qid \in {d \in [Node -> Queues] : \A i \in Queues : d[s[i]] = i}
          /\ tail = s[NumQueues - 1]
    /\ turns = [i \in Queues |-> [j \in Queues |-> 0]]

TotalLength == FoldLeft(LAMBDA n, i : n + Len(q[i - 1]), 0, [i \in 1 .. NumQueues |-> i])

Enque(m) ==
    /\ TotalLength + 1 <= Limit
    /\ q' = [q EXCEPT ![Hash[m]] =
                Append(@, [message |-> m, ce |-> TotalLength + 1 > MarkAbove])]
    /\ UNCHANGED <<next, qid, tail, turns>>

\* The nodes in the order of the walk; the first is the head.
Walk[k \in 0 .. NumQueues] == IF k = 0 THEN ListHead ELSE next[Walk[k - 1]]

InList(n) == \E k \in 1 .. NumQueues : Walk[k] = n

\* Mutant of MoveToEnd: a queue that was served keeps its place.
MoveToEndNot(p, n) == UNCHANGED <<next, qid, tail>>

\* Node n, which follows p, is unlinked, a new node for its queue is appended, with
\* anything in its next field, and n is freed.
MoveToEnd(p, n) ==
    IF n = tail THEN UNCHANGED <<next, qid, tail>>
    ELSE \E new \in Node :
            /\ ~InList(new)
            /\ \E garbage \in Node :
                  next' = [next EXCEPT ![p] = next[n], ![tail] = new, ![new] = garbage]
            /\ qid' = [qid EXCEPT ![new] = qid[n]]
            /\ tail' = new

\* The first queue of the list that has packets is served.
Deque(k) ==
    LET i == qid[Walk[k]]
    IN  /\ q[i] # <<>> /\ \A l \in 1 .. k - 1 : q[qid[Walk[l]]] = <<>>
        /\ q' = [q EXCEPT ![i] = Tail(@)]
        /\ MoveToEnd(Walk[k - 1], Walk[k])
        /\ turns' = [j \in Queues |->
                        IF j = i \/ q[j] = <<>> THEN [l \in Queues |-> 0]
                        ELSE [turns[j] EXCEPT ![i] = @ + 1]]

Next ==
    \/ \E m \in DOMAIN Hash : Enque(m)
    \/ \E k \in 1 .. NumQueues : Deque(k)

Spec == Init /\ [][Next]_vars

------------------------------------------------------------------------------
(* Properties                                                              *)

Packet == [message : DOMAIN Hash, ce : BOOLEAN]

\* The shape of the state.
TypeOK ==
    /\ q \in [Queues -> Seq(Packet)]
    /\ next \in [Node \cup {ListHead} -> Node]
    /\ qid \in [Node -> Queues]
    /\ tail \in Node
    /\ turns \in [Queues -> [Queues -> Nat]]

\* However queues have moved (FQ_Ideal.cc:76-83), the walk from the head meets every
\* queue once and ends at the tail: no node is lost, met twice or read after it was
\* freed, and the uninitialised link of the last one is not followed.
ListIsPermutation ==
    /\ Walk[NumQueues] = tail
    /\ \A i \in Queues : \E k \in 1 .. NumQueues : qid[Walk[k]] = i

\* The fair turn: while a queue waits, every other queue is served at most once,
\* wherever both stood in the list and whenever packets came.
FairTurn == \A i, j \in Queues : turns[i][j] <= 1
=============================================================================
