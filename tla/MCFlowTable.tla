---------------------------- MODULE MCFlowTable ----------------------------
(***************************************************************************)
(* FlowTable with three flows, two of them in one bucket.                  *)
(***************************************************************************)
EXTENDS FlowTable

CONSTANTS f1, f2, f3

TwoBuckets == [f \in Flow |-> IF f = f3 THEN 2 ELSE 1]
=============================================================================
