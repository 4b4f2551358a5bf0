--------------------------- MODULE MC_RunLifecycle ---------------------------
(* Small instances of RunLifecycle for TLC. *)
EXTENDS RunLifecycle, TLC

Symmetry == Permutations(Answers)
=============================================================================
