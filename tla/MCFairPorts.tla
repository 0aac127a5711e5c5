---------------------------- MODULE MCFairPorts ----------------------------
(***************************************************************************)
(* The ports for fair queuing, FairQC, AFQ and IdealFQ, one of a kind on   *)
(* three queues.  All keep their packets in q, the first two what they     *)
(* know of a flow in message_id and flow_count; what another kind has      *)
(* stays as it was.                                                        *)
(***************************************************************************)
EXTENDS FairQC

CONSTANTS Kind, BpR, LastRound, MaxAFQCount, Node, ListHead

VARIABLES kind, R, next, qid, tail, turns

\* Two messages share a queue.
Hash == [m \in 1 .. NumQueues + 1 |-> m % NumQueues]

Approximate == INSTANCE AFQ WITH MaxCount <- MaxAFQCount
Ideal == INSTANCE IdealFQ

ASSUME PortsAssumption == Approximate!AFQAssumption /\ Ideal!IdealAssumption

qcOnly    == <<current_flow, rr_times>>
idealOnly == <<next, qid, tail, turns>>
portVars  == <<kind, vars, R, idealOnly>>

MCInit ==
    /\ kind \in Kind
    /\ Init /\ R = 0
    /\ IF kind = "ideal" THEN Ideal!Init
       ELSE next = <<>> /\ qid = <<>> /\ tail = ListHead /\ turns = <<>>

MCDepart == kind = "qc" /\ Depart /\ UNCHANGED <<kind, R, idealOnly>>

MCNext ==
    \/ MCDepart
    \/ kind = "qc" /\ Arrive /\ UNCHANGED <<kind, R, idealOnly>>
    \/ kind = "afq" /\ Approximate!Next /\ UNCHANGED <<kind, qcOnly, idealOnly>>
    \/ /\ kind = "ideal" /\ Ideal!Next
       /\ UNCHANGED <<kind, R, message_id, flow_count, qcOnly>>

\* The link asks for the next packet whenever it is idle.
MCSpec == MCInit /\ [][MCNext]_portVars /\ WF_portVars(MCDepart)

------------------------------------------------------------------------------
(* Properties                                                              *)

\* FairQC's tables say what its queues hold, no queue is asked for more, and a
\* packet leaves whenever the port holds one (FQ_QC.cc:91-95, 123-152).
QCServes == kind = "qc" => FlowsAreContents /\ RoundFits /\ WorkConserving

\* FairQC lets no queue starve: while the first queue keeps receiving new flows, a
\* queue that holds packets is served again and again (FQ_QC.cc:126-144).
QCNoStarvation ==
    \A i \in Queues :
        <>[](kind = "qc" /\ q[i] # <<>>) => []<><<kind = "qc" /\ Deque(i)>>_vars

\* AFQ keeps the packets of a message in order and gives it no more than BpR
\* packets of a round (FQ_AFQ.cc:56-63).
AFQRounds == kind = "afq" => Approximate!NearInOrder /\ Approximate!RoundShare

\* FQ_Ideal's list stays a permutation of the queues, none of which is served
\* twice while another one waits (FQ_Ideal.cc:64-83).
IdealTurns == kind = "ideal" => Ideal!ListIsPermutation /\ Ideal!FairTurn
=============================================================================
