------------------------------ MODULE FlowTable ------------------------------
(***************************************************************************)
(* The hash table of flows (endhost/flow.c) under the handlers that use it *)
(* at once: the netfilter hook on several CPUs (endhost/main.c) and the    *)
(* tcp_sendmsg probe (endhost/jprobe.c).                                   *)
(*                                                                         *)
(* A handler walks the list of its flow's bucket without the list's lock,  *)
(* one pointer per step, and links or unlinks an entry under the lock;     *)
(* nothing keeps a handler that frees an entry apart from the walks.  So a *)
(* walk may stand on a cell that was freed, or that was allocated again    *)
(* for a flow of another bucket, and follows whatever pointer it finds.    *)
(* The pointer of a freed cell is LIST_POISON1, at which the handler       *)
(* faults and stops; kfree overwrites the cell's 4-tuple.                  *)
(*                                                                         *)
(* disturbed and doubtful are history variables: they record which search  *)
(* was disturbed and which entry was linked after such a search.           *)
(***************************************************************************)
EXTENDS Integers, Sequences, SequencesExt, FiniteSets

CONSTANTS
    CPU, Flow, Cell,
    Hash,     \* PIAS_Hash_Flow; a bucket also stands for its head_node
    Ops,      \* what may happen, a subset of AllOps
    MaxSize,  \* bound: no SYN once ft.size is that large
    None      \* also the pointer that cannot be followed

AllOps == {"syn", "end", "data", "send"}
Bucket == {Hash[f] : f \in Flow}
Node   == Cell \cup Bucket

ASSUME TableAssumption ==
    /\ Ops \subseteq AllOps
    /\ IsFiniteSet(CPU) /\ IsFiniteSet(Cell)
    /\ MaxSize \in Nat
    /\ Cell \cap Bucket = {}
    /\ None \notin Node \cup Flow

VARIABLES
    list,    \* the cells of each bucket's list, in order
    key,     \* the 4-tuple in a cell, None when the cell is free
    size,    \* ft.size
    pc, op, flow,   \* what the handler on a CPU does, for which flow
    cur,     \* ptr: a cell, a head_node, or None
    ahead,   \* next of the safe walk, loaded before ptr is inspected
    disturbed,  \* since the handler began, an entry under its pointers was
                \* freed or another handler linked an entry of its flow
    doubtful    \* the entries linked by a disturbed handler

table   == <<list, key, size>>
handler == <<pc, op, flow, cur, ahead>>
history == <<disturbed, doubtful>>
vars    == <<table, handler, history>>

Linked   == UNION {ToSet(list[b]) : b \in Bucket}
Home(c)  == Hash[flow[c]]
Walking  == {"peek", "walk"}

\* Mutant of After: the last entry of a list is passed over.
AfterShort(b, i) == IF i + 1 < Len(list[b]) THEN list[b][i + 1] ELSE b

\* list.next: of a head_node and of a linked cell, of a cell that is allocated
\* and not linked yet (INIT_LIST_HEAD), of a cell that was freed.
Place(s, cell) == CHOOSE i \in DOMAIN s : s[i] = cell
After(b, i) == IF i < Len(list[b]) THEN list[b][i + 1] ELSE b
Follow(n) ==
    IF n \in Bucket THEN After(n, 0)
    ELSE IF n \in Linked THEN LET b == Hash[key[n]] IN After(b, Place(list[b], n))
    ELSE IF n \in Cell /\ key[n] # None THEN n
    ELSE None

Init ==
    /\ list = [b \in Bucket |-> <<>>]
    /\ key  = [x \in Cell |-> None]
    /\ size = 0
    /\ pc   = [c \in CPU |-> "idle"]
    /\ op   = [c \in CPU |-> None]
    /\ flow = [c \in CPU |-> None]
    /\ cur  = [c \in CPU |-> None]
    /\ ahead = [c \in CPU |-> None]
    /\ disturbed = [c \in CPU |-> FALSE]
    /\ doubtful = {}

Goto(c, label) == pc' = [pc EXCEPT ![c] = label]

Finish(c) ==
    /\ Goto(c, "idle")
    /\ op' = [op EXCEPT ![c] = None]
    /\ flow' = [flow EXCEPT ![c] = None]
    /\ cur' = [cur EXCEPT ![c] = None]
    /\ ahead' = [ahead EXCEPT ![c] = None]
    /\ disturbed' = [disturbed EXCEPT ![c] = FALSE]
    /\ UNCHANGED doubtful

\* The kernel sends the packets of one socket one at a time, except that nothing
\* orders the SYN/ACKs of one connection request.  The probe runs before
\* tcp_sendmsg takes the socket's lock.
SocketFree(o, f) ==
    \A d \in CPU : flow[d] = f => op[d] = "send" \/ (o = "syn" /\ op[d] = "syn")

------------------------------------------------------------------------------
(* PIAS_Search_List, and the walk of PIAS_Delete_List                      *)

Begin(c, o, f) ==
    /\ pc[c] = "idle"
    /\ o \in Ops
    /\ o # "send" => SocketFree(o, f)
    /\ o = "syn" => size < MaxSize
    /\ Goto(c, IF o = "end" THEN "peek" ELSE "walk")
    /\ op' = [op EXCEPT ![c] = o]
    /\ flow' = [flow EXCEPT ![c] = f]
    /\ cur' = [cur EXCEPT ![c] = Follow(Hash[f])]
    /\ UNCHANGED <<table, ahead, history>>

\* The walk that frees loads the next pointer first.
Peek(c) ==
    /\ pc[c] = "peek"
    /\ cur[c] # None
    /\ ahead' = [ahead EXCEPT ![c] = Follow(cur[c])]
    /\ Goto(c, "walk")
    /\ UNCHANGED <<table, op, flow, cur, history>>

\* Mutant of Equal: it compares what the hash does.
EqualHash(c) == cur[c] \in Cell /\ key[cur[c]] # None /\ Hash[key[cur[c]]] = Home(c)

\* PIAS_Equal_Flow: the 4-tuple at the pointer is the handler's.  What lies
\* around the head_node of another list is taken not to be.
Equal(c) == cur[c] \in Cell /\ key[cur[c]] = flow[c]

\* Mutant of WalkOn: the walk does not advance.
WalkOnStay(c) ==
    /\ pc[c] = "walk"
    /\ cur[c] \notin {Home(c), None}
    /\ ~Equal(c)
    /\ UNCHANGED vars

\* The entry is not the handler's: on to the next one.
WalkOn(c) ==
    /\ pc[c] = "walk"
    /\ cur[c] \notin {Home(c), None}
    /\ ~Equal(c)
    /\ IF op[c] = "end"
       THEN cur' = [cur EXCEPT ![c] = ahead[c]] /\ Goto(c, "peek")
       ELSE cur' = [cur EXCEPT ![c] = Follow(cur[c])] /\ UNCHANGED pc
    /\ UNCHANGED <<table, op, flow, ahead, history>>

\* Mutant of Found: a SYN that finds its entry adds one all the same.
FoundAdds(c) ==
    /\ pc[c] = "walk"
    /\ Equal(c)
    /\ Goto(c, CASE op[c] = "end" -> "unlink" [] op[c] = "syn" -> "alloc" [] OTHER -> "use")
    /\ UNCHANGED <<table, op, flow, cur, ahead, history>>

Found(c) ==
    /\ pc[c] = "walk"
    /\ Equal(c)
    /\ Goto(c, IF op[c] = "end" THEN "unlink" ELSE "use")
    /\ UNCHANGED <<table, op, flow, cur, ahead, history>>

\* The walk is back at its head_node.  A data packet or a write without an entry
\* is not tracked; so is the end of a flow that has none.
NotFound(c) ==
    /\ pc[c] = "walk"
    /\ cur[c] = Home(c)
    /\ IF op[c] = "syn"
       THEN Goto(c, "alloc") /\ UNCHANGED <<op, flow, cur, ahead, history>>
       ELSE Finish(c)
    /\ UNCHANGED table

------------------------------------------------------------------------------
(* What the handlers do with the entry                                     *)

\* The info of the entry is read and written: under the flow's lock for a data
\* packet and a write, without it when a SYN clears the entry.
Use(c) ==
    /\ pc[c] = "use"
    /\ IF op[c] = "syn"
       THEN Goto(c, "inc") /\ UNCHANGED <<op, flow, cur, ahead, history>>
       ELSE Finish(c)
    /\ UNCHANGED table

\* kmalloc; the new entry is initialised before it is linked
Alloc(c, cell) ==
    /\ pc[c] = "alloc"
    /\ key[cell] = None
    /\ key' = [key EXCEPT ![cell] = flow[c]]
    /\ cur' = [cur EXCEPT ![c] = cell]
    /\ Goto(c, "link")
    /\ UNCHANGED <<list, size, op, flow, ahead, history>>

AllocFails(c) ==
    /\ pc[c] = "alloc"
    /\ Finish(c)
    /\ UNCHANGED table

\* list_add_tail under the list's lock
Link(c) ==
    /\ pc[c] = "link"
    /\ list' = [list EXCEPT ![Home(c)] = Append(@, cur[c])]
    /\ Goto(c, "inc")
    /\ disturbed' = [d \in CPU |-> disturbed[d] \/ (d # c /\ flow[d] = flow[c])]
    /\ doubtful' = IF disturbed[c] THEN doubtful \cup {cur[c]} ELSE doubtful
    /\ cur' = [cur EXCEPT ![c] = None]
    /\ UNCHANGED <<key, size, op, flow, ahead>>

\* atomic_inc(&ft->size), for a cleared entry too
IncSize(c) ==
    /\ pc[c] = "inc"
    /\ size' = size + 1
    /\ Finish(c)
    /\ UNCHANGED <<list, key>>

Disturbs(c, cell) ==
    [d \in CPU |-> \/ disturbed[d]
                   \/ d # c /\ pc[d] \in Walking /\ cell \in {cur[d], ahead[d]}]

\* Mutant of Unlink: the cell is unlinked and not freed.
UnlinkOnly(c) ==
    /\ pc[c] = "unlink"
    /\ list' = [list EXCEPT ![Home(c)] = RemoveFirst(@, cur[c])]
    /\ Goto(c, "dec")
    /\ disturbed' = Disturbs(c, cur[c])
    /\ doubtful' = doubtful \ {cur[c]}
    /\ cur' = [cur EXCEPT ![c] = None]
    /\ ahead' = [ahead EXCEPT ![c] = None]
    /\ UNCHANGED <<key, size, op, flow>>

\* list_del and kfree under the list's lock
Unlink(c) ==
    /\ pc[c] = "unlink"
    /\ list' = [list EXCEPT ![Home(c)] = RemoveFirst(@, cur[c])]
    /\ key' = [key EXCEPT ![cur[c]] = None]
    /\ Goto(c, "dec")
    /\ disturbed' = Disturbs(c, cur[c])
    /\ doubtful' = doubtful \ {cur[c]}
    /\ cur' = [cur EXCEPT ![c] = None]
    /\ ahead' = [ahead EXCEPT ![c] = None]
    /\ UNCHANGED <<size, op, flow>>

DecSize(c) ==
    /\ pc[c] = "dec"
    /\ size' = size - 1
    /\ Finish(c)
    /\ UNCHANGED <<list, key>>

\* PIAS_Exit_Table, once the hooks are unregistered and the last handler is
\* gone; the module may be loaded again.
Exit ==
    /\ \A c \in CPU : pc[c] = "idle"
    /\ Linked # {}
    /\ list' = [b \in Bucket |-> <<>>]
    /\ key' = [x \in Cell |-> IF x \in Linked THEN None ELSE key[x]]
    /\ size' = 0
    /\ doubtful' = {}
    /\ UNCHANGED <<handler, disturbed>>

Step(c) ==
    \/ Peek(c) \/ WalkOn(c) \/ Found(c) \/ NotFound(c) \/ Use(c)
    \/ (\E x \in Cell : Alloc(c, x)) \/ AllocFails(c) \/ Link(c) \/ IncSize(c)
    \/ Unlink(c) \/ DecSize(c)

Next ==
    \/ \E c \in CPU, o \in Ops, f \in Flow : Begin(c, o, f)
    \/ \E c \in CPU : Step(c)
    \/ Exit

Spec == Init /\ [][Next]_vars
LiveSpec == Spec /\ \A c \in CPU : WF_vars(Step(c))

------------------------------------------------------------------------------
(* properties                                                              *)

\* The shape of the state.
TypeOK ==
    /\ list \in [Bucket -> Seq(Cell)]
    /\ key \in [Cell -> Flow \cup {None}]
    /\ size \in Int
    /\ pc \in [CPU -> {"idle", "peek", "walk", "use", "alloc", "link", "inc", "unlink", "dec"}]
    /\ op \in [CPU -> AllOps \cup {None}]
    /\ flow \in [CPU -> Flow \cup {None}]
    /\ cur \in [CPU -> Node \cup {None}] /\ ahead \in [CPU -> Node \cup {None}]
    /\ disturbed \in [CPU -> BOOLEAN]
    /\ doubtful \subseteq Cell

Entries(f) == {x \in Linked : key[x] = f}
InPhase(label) == {c \in CPU : pc[c] = label}

\* Two handlers search a list and append to it without keeping its lock in
\* between (flow.c:212-238).  A flow gets a second entry only when, between the
\* search and the append, an entry under the walk was freed or another SYN
\* handler of the flow linked its own; any other append or delete of the bucket
\* leaves the flow with one entry.
NoDuplicateFlow ==
    \A f \in Flow : \A x, y \in Entries(f) : x # y => x \in doubtful \/ y \in doubtful

\* A search that comes back to its head_node, and the append it leads to, have
\* overlooked no entry of the flow, whatever others append and delete around the
\* walk, as long as no entry under it is freed (flow.c:175-181, 279-292).
NothingOverlooked ==
    \A c \in CPU :
        /\ (pc[c] = "walk" /\ cur[c] = Home(c)) \/ pc[c] \in {"alloc", "link"}
        /\ ~disturbed[c]
        => Entries(flow[c]) = {}

\* Every allocated cell is an entry of the bucket of its flow, or the handler
\* that allocated it is about to link it; no cell is in two places
\* (flow.c:226-238, flow.c:281-288).  The number of flows the table reports, with
\* the updates under way, is never below that of its entries (257-261, 309-311).
\* A walk astray in freed memory changes nothing of this.
NoLeak ==
    /\ \A b \in Bucket : /\ IsInjective(list[b])
                         /\ \A x \in ToSet(list[b]) : key[x] \in Flow /\ Hash[key[x]] = b
    /\ \A x \in Cell \ Linked : key[x] # None =>
          \E c \in CPU : pc[c] = "link" /\ cur[c] = x /\ key[x] = flow[c]
    /\ \A c \in CPU : pc[c] = "link" => cur[c] \notin Linked
    /\ size + Cardinality(InPhase("inc")) - Cardinality(InPhase("dec"))
           >= Cardinality(Linked)

\* Wherever the frees of other handlers have taken a walk, what the hook then
\* writes or frees is an entry of its own flow (main.c:178-193, flow.c:219); a
\* data packet and the delete have it still linked, so nothing is freed twice
\* (flow.c:281-288).  The probe is left out: it may write to a freed entry.
UsesOwnEntry ==
    \A c \in CPU : (pc[c] \in {"use", "unlink"} /\ op[c] # "send") =>
        /\ Equal(c)
        /\ op[c] # "syn" => cur[c] \in Linked

\* The pointers of a walk point to live entries of the list that is walked or to
\* its head_node, with other handlers linking and freeing entries meanwhile
\* (flow.c:175, flow.c:279).
WalkOnLiveEntries ==
    \A c \in CPU : pc[c] \in {"peek", "walk", "use", "unlink"} =>
        cur[c] \in ToSet(list[Home(c)]) \cup {Home(c)}

\* A handler does not walk forever, although others append to the list it walks
\* (flow.c:175, flow.c:236): it ends, or an entry under it is freed, or its
\* bucket has a delete under way.
HandlerEnds ==
    \A c \in CPU : pc[c] # "idle" ~>
        \/ pc[c] = "idle"
        \/ disturbed[c]
        \/ \E d \in CPU \ {c} : pc[d] = "unlink" /\ Home(d) = Home(c)

==============================================================================
