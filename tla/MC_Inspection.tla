--------------------------- MODULE MC_Inspection ---------------------------
(* Inspection with three probes of two attempts each, as the pipeline asks for.*)
EXTENDS Inspection

ThreeProbes == 1 .. 3
=============================================================================
