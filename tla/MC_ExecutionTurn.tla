--------------------------- MODULE MC_ExecutionTurn ---------------------------
(* A small instance of ExecutionTurn for TLC.                                  *)
EXTENDS ExecutionTurn

(* A turn that completes, with one file change that stays inside the contract  *)
(* and a diff that does not.                                                   *)
TurnNotices ==
  {[method |-> "turn/started", status |-> "inProgress"],
   [method |-> "turn/completed", status |-> "completed"],
   [method |-> "turn/diff/updated", verdict |-> "outside"]}
  \cup {m \in ItemEvent : m.type = "fileChange" /\ m.verdict = "inside"}

(* An approval that the announcement of its item decides, and a request that   *)
(* cannot be read.                                                             *)
TurnAsks == {m \in ServerRequest : m.method \in {"fileChange", "malformed"}}
=============================================================================
