--------------------------- MODULE MCAdaptivePort ---------------------------
(***************************************************************************)
(* AdaptivePort with three classes and packets of one and two bytes.       *)
(***************************************************************************)
EXTENDS AdaptivePort
=============================================================================
