------------------------------ MODULE MCCounts ------------------------------
(***************************************************************************)
(* The places that count what was sent, FlowBytes on the end host,         *)
(* CMSketch in the simulator, P4Sketch, P4Counters and P4Depth for the     *)
(* switch, and P4Rules, the rules made from it; one of them at a time,     *)
(* what the others have stays as it was.                                   *)
(*                                                                         *)
(* FlowBytes has a sequence space of 16 numbers, of which the top 4 count  *)
(* as "about to wrap" (2^32 and 67,296 in the code); the initial sequence  *)
(* numbers put the connection before, on and behind the wrap.  CMSketch    *)
(* has two hash functions into four positions: f1 and f2 share a position  *)
(* and have one each, f3 lies on one position of each kind and f4 is       *)
(* hashed twice to one.  P4Counters has registers of a few bits.  In       *)
(* P4Sketch s1 and s2 share a cell of the first and of the third register, *)
(* s1 and s3 one of the second; 32 bits of time go around after 4 ticks.   *)
(* P4Rules has three queues and weights of a few bytes.                    *)
(***************************************************************************)
EXTENDS FlowBytes, CMSketch, P4Counters, P4Sketch, P4Depth, P4Rules

CONSTANTS Part, f1, f2, f3, f4, p1, p2, p3, p4, s1, s2, s3, c1, c2

VARIABLE part

Hashes ==
    [f \in Flow |->
        CASE f = f1 -> (0 :> p1 @@ 1 :> p2)
          [] f = f2 -> (0 :> p2 @@ 1 :> p3)
          [] f = f3 -> (0 :> p4 @@ 1 :> p3)
          [] f = f4 -> (0 :> p4 @@ 1 :> p4)]

Cells ==
    <<(s1 :> c1 @@ s2 :> c1 @@ s3 :> c2),
      (s1 :> c1 @@ s2 :> c2 @@ s3 :> c1),
      (s1 :> c1 @@ s2 :> c1 @@ s3 :> c2)>>

MCInit ==
    /\ part \in Part
    /\ SketchInit /\ DepthInit /\ RulesInit
    /\ Init /\ CountersInit
    /\ BytesInit /\ (part # "bytes" => isn = CHOOSE x \in InitialSeqs : TRUE)

MCNext ==
    /\ UNCHANGED part
    /\ part = "bytes"    \/ UNCHANGED bytesVars
    /\ part = "sketch"   \/ UNCHANGED vars
    /\ part = "counters" \/ UNCHANGED countersVars
    /\ part = "ingress"  \/ UNCHANGED sketchVars
    /\ part = "egress"   \/ UNCHANGED depthVars
    /\ part = "rules"    \/ UNCHANGED rulesVars
    /\ \/ part = "bytes"    /\ BytesNext
       \/ part = "sketch"   /\ Next
       \/ part = "counters" /\ CountersNext
       \/ part = "ingress"  /\ SketchNext
       \/ part = "egress"   /\ DepthNext
       \/ part = "rules"    /\ RulesNext

MCSpec ==
    MCInit /\ [][MCNext]_<<part, vars, bytesVars, countersVars, sketchVars, depthVars, rulesVars>>
=============================================================================
