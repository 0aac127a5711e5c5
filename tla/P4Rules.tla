------------------------------ MODULE P4Rules ------------------------------
(***************************************************************************)
(* The range table that maps the weight of a packet to a queue             *)
(* (queueIdTable of p4/qcluster.p4) and the part of the control plane that *)
(* rewrites it: set_qcluster_threholds of p4/qcluster.py from the averages *)
(* on.  Packets are classified between any two of its operations.          *)
(*                                                                         *)
(* Averages and weights are numbers with a fraction: one is Unit units.    *)
(***************************************************************************)
EXTENDS Integers, Sequences, FiniteSets

CONSTANTS
    Ports,     \* number of ports under control
    Queues,    \* 8
    Top,       \* end of the last range, 2^18
    MaxCount,  \* largest md.minCount, 2^20 - 1
    Unit,      \* units in one
    Averages   \* what the counters of a queue may average, in units

ASSUME RuleAssumption ==
    /\ Ports \in Nat \ {0}
    /\ Queues \in Nat /\ Queues >= 2
    /\ Top \in Nat /\ MaxCount \in Nat /\ Top <= MaxCount
    /\ Unit \in Nat \ {0}
    /\ Averages \subseteq 0 .. MaxCount * Unit

VARIABLES
    loop_time,   \* 0 in the first loop, then 1
    phase,       \* what the control plane does next
    port_i,      \* the port it works on
    index,       \* the index of its innermost loop
    avgs,        \* averages of that port, smallest class first, in units
    thresholds,  \* their boundaries, rounded down
    new_hdls,    \* handles of the rules added for that port in this loop
    hdls_save,   \* queueIdTable_hdls_save: handles of each port's rules
    table        \* queueIdTable: the rule of each handle in use

control   == <<loop_time, phase, port_i, index>>
rulesVars == <<control, avgs, thresholds, new_hdls, hdls_save, table>>

Classes == 0 .. Queues - 1
Rule    == [port : 1 .. Ports, start : Nat, end : Nat, qid : Classes]

\* The rules of all ports and once more those of the port that is being
\* rewritten.  The table has room for 64, that is for 7 ports.
MaxRules == Queues * (Ports + 1)
Handles  == 1 .. MaxRules + 1

RulesInit ==
    /\ loop_time = 0 /\ phase = "measure" /\ port_i = 1 /\ index = 0
    /\ avgs = [k \in Classes |-> 0]
    /\ thresholds = <<>>
    /\ new_hdls = <<>>
    /\ hdls_save = [p \in 1 .. Ports |-> [k \in 1 .. Queues |-> 0]]
    /\ table = <<>>

------------------------------------------------------------------------------
(* The control plane                                                       *)

\* The averages of the port's queues, in the reverse order of the queues.
Measure ==
    /\ phase = "measure"
    /\ avgs' \in [Classes -> Averages \cup {Unit}]
    /\ thresholds' = <<>>
    /\ phase' = "raise" /\ index' = 1
    /\ UNCHANGED <<loop_time, port_i, new_hdls, hdls_save, table>>

\* t is the square root of the product of two averages, rounded down.
IsRoot(t, product) ==
    (t * Unit) * (t * Unit) <= product /\ product < (t * Unit + Unit) * (t * Unit + Unit)

Larger(a, b) == IF a >= b THEN a ELSE b

\* Mutant of Raised: equal averages stay equal.
RaisedEqual(a, before) == Larger(a, before)

\* An average is at least one more than the one before it.
Raised(a, before) == Larger(a, before + Unit)

Raise ==
    /\ phase = "raise" /\ index < Queues
    /\ avgs' = [avgs EXCEPT ![index] = Raised(avgs[index], avgs[index - 1])]
    /\ \E t \in 0 .. MaxCount + Queues :
          /\ IsRoot(t, avgs[index - 1] * avgs'[index])
          /\ thresholds' = Append(thresholds, t)
    /\ index' = index + 1
    /\ UNCHANGED <<loop_time, phase, port_i, new_hdls, hdls_save, table>>

\* Mutant of Close: the old rules go first.
CloseDeleteFirst ==
    /\ phase = "raise" /\ index = Queues
    /\ thresholds' = Append(thresholds, Top)
    /\ phase' = IF loop_time # 0 THEN "delete" ELSE "add"
    /\ index' = loop_time
    /\ new_hdls' = <<>>
    /\ UNCHANGED <<loop_time, port_i, avgs, hdls_save, table>>

\* The last boundary; the batch begins.
Close ==
    /\ phase = "raise" /\ index = Queues
    /\ thresholds' = Append(thresholds, Top)
    /\ phase' = "add" /\ index' = 0
    /\ new_hdls' = <<>>
    /\ UNCHANGED <<loop_time, port_i, avgs, hdls_save, table>>

\* thresholds[k] is the code's thresholds[k - 1].
Start(k) == IF k > 0 THEN thresholds[k] + 1 ELSE 0

\* The queue of the k-th class; the highest takes the lightest packets.
Qid(k) == Queues - 1 - k

\* The driver gives the rule a handle that is not in use.
AddRule ==
    /\ phase = "add" /\ index < Queues
    /\ LET hdl == CHOOSE h \in Handles : h \notin DOMAIN table
       IN  /\ table' = [h \in DOMAIN table \cup {hdl} |->
                           IF h = hdl
                           THEN [port |-> port_i, start |-> Start(index),
                                 end |-> thresholds[index + 1], qid |-> Qid(index)]
                           ELSE table[h]]
           /\ new_hdls' = Append(new_hdls, hdl)
    /\ index' = index + 1
    /\ UNCHANGED <<loop_time, phase, port_i, avgs, thresholds, hdls_save>>

\* All rules are added: in the first loop there are no old ones.
Added ==
    /\ phase = "add" /\ index = Queues
    /\ phase' = IF loop_time # 0 THEN "delete" ELSE "save"
    /\ index' = 1
    /\ UNCHANGED <<loop_time, port_i, avgs, thresholds, new_hdls, hdls_save, table>>

DeleteOld ==
    /\ phase = "delete" /\ index <= Queues
    /\ hdls_save[port_i][index] \in DOMAIN table
    /\ table' = [h \in DOMAIN table \ {hdls_save[port_i][index]} |-> table[h]]
    /\ index' = index + 1
    /\ UNCHANGED <<loop_time, phase, port_i, avgs, thresholds, new_hdls, hdls_save>>

Deleted ==
    /\ phase = "delete" /\ index = Queues + 1
    /\ phase' = "save"
    /\ UNCHANGED <<loop_time, port_i, index, avgs, thresholds, new_hdls, hdls_save, table>>

\* Mutant of Save: the handles are kept for another port.
SaveOther ==
    /\ phase = "save"
    /\ hdls_save' = [hdls_save EXCEPT ![1] = new_hdls]
    /\ phase' = "measure" /\ index' = 0
    /\ port_i' = IF port_i = Ports THEN 1 ELSE port_i + 1
    /\ loop_time' = IF port_i = Ports THEN 1 ELSE loop_time
    /\ avgs' = [k \in Classes |-> 0] /\ thresholds' = <<>> /\ new_hdls' = <<>>
    /\ UNCHANGED table

\* The handles are kept, the batch ends; the next port, or the next loop, which
\* builds averages, boundaries and handles anew.
Save ==
    /\ phase = "save"
    /\ hdls_save' = [hdls_save EXCEPT ![port_i] = new_hdls]
    /\ phase' = "measure" /\ index' = 0
    /\ port_i' = IF port_i = Ports THEN 1 ELSE port_i + 1
    /\ loop_time' = IF port_i = Ports THEN 1 ELSE loop_time
    /\ avgs' = [k \in Classes |-> 0] /\ thresholds' = <<>> /\ new_hdls' = <<>>
    /\ UNCHANGED table

RulesNext ==
    \/ Measure \/ Raise \/ Close \/ AddRule \/ Added
    \/ DeleteOld \/ Deleted \/ Save

RulesSpec == RulesInit /\ [][RulesNext]_rulesVars

------------------------------------------------------------------------------
(* The data plane                                                          *)

RulesOf(p) == {h \in DOMAIN table : table[h].port = p}

\* The queues of the rules a weight matches.
Matches(p, w) ==
    {table[h].qid : h \in {g \in RulesOf(p) : table[g].start <= w /\ w <= table[g].end}}

\* default_queue: no rule matches.
DefaultQueue == Queues - 1

\* The queues a packet of weight w may be put into.
QueueOf(p, w) == IF Matches(p, w) = {} THEN {DefaultQueue} ELSE Matches(p, w)

------------------------------------------------------------------------------
(* Properties                                                              *)

\* The shape of the state.
RulesTypeOK ==
    /\ loop_time \in 0 .. 1
    /\ phase \in {"measure", "raise", "add", "delete", "save"}
    /\ port_i \in 1 .. Ports /\ index \in 0 .. Queues + 1
    /\ avgs \in [Classes -> Nat]
    /\ thresholds \in Seq(Nat) /\ new_hdls \in Seq(Handles)
    /\ hdls_save \in [1 .. Ports -> [1 .. Queues -> Handles \cup {0}]]
    /\ DOMAIN table \subseteq Handles /\ \A h \in DOMAIN table : table[h] \in Rule

\* A port has rules once its first ones have been saved.
Ruled(p) == hdls_save[p][1] # 0

\* The rules of a port are not being rewritten.
AtRest(p) == ~(phase \in {"add", "delete", "save"} /\ port_i = p)

\* New rules go in before old ones go out (qcluster.py:243-269): from the first
\* exchange on, every weight up to the last boundary finds a rule at every moment.
\* Outside of an exchange a lighter packet never goes to a lower queue than a
\* heavier one, and no weight matches two queues (qcluster.py:235-261).
Covered ==
    \A p \in 1 .. Ports :
        /\ Ruled(p) => \A w \in 0 .. Top : Matches(p, w) # {}
        /\ AtRest(p) => \A w1 \in 0 .. Top : \A q1 \in Matches(p, w1), w2 \in 0 .. Top :
               w1 <= w2 => \A q2 \in Matches(p, w2) : q1 >= q2

\* Whatever the averages are, every class but the last has a weight of its own:
\* boundaries differ after they have been rounded (qcluster.py:235-252).
EveryClassHasWeights ==
    \A h \in DOMAIN table : table[h].qid # 0 => table[h].start <= table[h].end

\* The handles the control plane holds are those of the rules in the table: none
\* is lost and none is deleted twice (qcluster.py:245-266), and at no moment does
\* the table hold more than one exchange adds to the rules of all ports.
HandlesCurrent ==
    /\ Cardinality(DOMAIN table) <= MaxRules
    /\ phase = "measure" =>
         DOMAIN table = UNION {{hdls_save[p][k] : k \in 1 .. Queues} :
                               p \in {p \in 1 .. Ports : Ruled(p)}}

\* Least attained service first, at every weight: "LAS (least attained service
\* first) in P4" (README.md:15), "7 is the highest priority" (qcluster.py:232).
\* Weights above the last boundary find no rule and get the default queue.
LeastAttainedFirst ==
    \A p \in 1 .. Ports : AtRest(p) /\ Ruled(p) =>
        \A w1, w2 \in 0 .. MaxCount : w1 < w2 =>
            \A q1 \in QueueOf(p, w1), q2 \in QueueOf(p, w2) : q1 >= q2
=============================================================================
