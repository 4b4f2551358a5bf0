----------------------------- MODULE EventLedger -----------------------------
(***************************************************************************)
(* ProtocolEventLedger (packages/codex-app-server/src/event-ledger.ts): the *)
(* notifications about one turn that a client takes for true, whatever      *)
(* arrives, duplicated or out of order.  Everything the ledger keeps is     *)
(* keyed by the turn, and is a function of the set of notifications it      *)
(* accepted, so that set stands for it.                                     *)
(*                                                                          *)
(* A notification is a record; two that differ in any field are different   *)
(* identities.                                                              *)
(***************************************************************************)
CONSTANT Items   \* the items of the turn

TurnStatus == {"completed", "interrupted", "failed", "inProgress"}

ItemType == {"fileChange", "command"}

(* What the contract has to say of an item: its paths or commands are inside   *)
(* it, or not, or the item says of itself that it was declined.                *)
Verdict == {"inside", "outside", "declined"}

TurnEvent == [method : {"turn/started", "turn/completed"}, status : TurnStatus]

ItemEvent ==
  [method : {"item/started", "item/completed"}, item : Items, type : ItemType, verdict : Verdict]

DiffEvent == [method : {"turn/diff/updated"}, verdict : {"inside", "outside"}]

Notification == TurnEvent \cup ItemEvent \cup DiffEvent

TurnStarted(seen) == \E m \in seen : m.method = "turn/started"

TurnCompleted(seen) == \E m \in seen : m.method = "turn/completed"

Active(seen) == TurnStarted(seen) /\ ~TurnCompleted(seen)

StartedItems(seen) == {i \in Items : \E m \in seen : m.method = "item/started" /\ m.item = i}

CompletedItems(seen) == {i \in Items : \E m \in seen : m.method = "item/completed" /\ m.item = i}

StartedAs(seen, i, type) ==
  \E m \in seen : m.method = "item/started" /\ m.item = i /\ m.type = type

(* A second, different notification of the same step of the same lifecycle.    *)
Conflicting(seen, m) ==
  \/ m \in TurnEvent /\ \E n \in seen : n.method = m.method /\ n # m
  \/ m \in ItemEvent /\ \E n \in seen : n.method = m.method /\ n.item = m.item /\ n # m

(* Mutant of Accepts: a turn may complete while an item is in progress.        *)
AcceptsUnfinished(seen, m) ==
  /\ ~Conflicting(seen, m)
  /\ m.method = "turn/started" => ~TurnCompleted(seen)
  /\ m.method = "turn/completed" => TurnStarted(seen)
  /\ m.method \in {"item/started", "item/completed", "turn/diff/updated"} => Active(seen)
  /\ m.method = "item/completed" => StartedAs(seen, m.item, m.type)

(* accept() does not throw.                                                    *)
Accepts(seen, m) ==
  /\ ~Conflicting(seen, m)
  /\ m.method = "turn/started" => ~TurnCompleted(seen)
  /\ m.method = "turn/completed" =>
       /\ TurnStarted(seen)
       /\ m.status = "completed" => StartedItems(seen) \subseteq CompletedItems(seen)
  /\ m.method \in {"item/started", "item/completed", "turn/diff/updated"} => Active(seen)
  /\ m.method = "item/started" => m.item \notin StartedItems(seen) \cup CompletedItems(seen)
  /\ m.method = "item/completed" => StartedAs(seen, m.item, m.type)
=============================================================================
