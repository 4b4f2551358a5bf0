------------------------- MODULE MC_ExecutionControl -------------------------
(* Small instances of ExecutionControl for TLC. *)
EXTENDS ExecutionControl, TLC

CONSTANTS a, b

(* With the first contract either process may execute, one may stop, and the   *)
(* other may cancel and report; what is left of them meets the second.         *)
FirstContractCommands == {<<a, 1, "stop">>, <<b, 1, "cancel">>, <<b, 1, "report">>}

NoCommands == {}

Symmetry == Permutations(Controllers)
=============================================================================
