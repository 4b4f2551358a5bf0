----------------------------- MODULE ApprovalGate -----------------------------
(***************************************************************************)
(* What PromptTripwire promises about one run, with nothing of how it keeps *)
(* the promise: an execution happens only under a contract that was offered *)
(* to a human and granted; a contract is offered once and started at most   *)
(* once; an execution that halts can go on only under a new contract, which *)
(* must be granted again; and a run that is over stays over.                *)
(***************************************************************************)
CONSTANTS
  Contract,     \* the contracts that may ever be offered
  NoContract,   \* no contract is on the table
  Ending        \* how a run may end, other than by being deleted

VARIABLES
  phase,        \* where the run is with respect to the gate
  contract,     \* the contract on the table, or NoContract
  offered,      \* the contracts offered so far
  spent,        \* the contracts that were started
  ending        \* how the run ended, "deleted", or "none"

vars == <<phase, contract, offered, spent, ending>>

Phase == {"closed", "offered", "granted", "executing", "halted", "over"}

Init ==
  /\ phase = "closed"
  /\ contract = NoContract
  /\ offered = {}
  /\ spent = {}
  /\ ending = "none"

(* A new contract is put before the human, on a closed gate or after a halt. *)
Offer(c) ==
  /\ phase \in {"closed", "halted"}
  /\ c \in Contract \ offered
  /\ phase' = "offered"
  /\ contract' = c
  /\ offered' = offered \cup {c}
  /\ UNCHANGED <<spent, ending>>

(* The human goes back to the questions; that contract is never offered again. *)
Withdraw ==
  /\ phase = "offered"
  /\ phase' = "closed"
  /\ contract' = NoContract
  /\ UNCHANGED <<offered, spent, ending>>

Grant ==
  /\ phase = "offered"
  /\ phase' = "granted"
  /\ UNCHANGED <<contract, offered, spent, ending>>

Start ==
  /\ phase = "granted"
  /\ contract \notin spent
  /\ phase' = "executing"
  /\ spent' = spent \cup {contract}
  /\ UNCHANGED <<contract, offered, ending>>

Halt ==
  /\ phase = "executing"
  /\ phase' = "halted"
  /\ UNCHANGED <<contract, offered, spent, ending>>

End ==
  /\ phase # "over"
  /\ phase' = "over"
  /\ contract' = NoContract
  /\ offered' = {}
  /\ spent' = {}
  /\ ending' \in Ending \cup {"deleted"}

Forget ==
  /\ phase = "over"
  /\ ending' = "deleted"
  /\ UNCHANGED <<phase, contract, offered, spent>>

Next ==
  \/ \E c \in Contract : Offer(c)
  \/ Withdraw
  \/ Grant
  \/ Start
  \/ Halt
  \/ End
  \/ Forget

Spec == Init /\ [][Next]_vars
=============================================================================
