------------------------------ MODULE RunStates ------------------------------
(***************************************************************************)
(* The run state machine of packages/domain/src/state-machine.ts as         *)
(* constant operators: the fourteen states, which of them end a run, which  *)
(* of them a reviewer may act on, and the table of allowed transitions.     *)
(* "absent" and "deleted" stand for a run that has no row yet, or no longer,*)
(* in the runs table.                                                       *)
(***************************************************************************)

Terminal   == {"completed", "failed", "cancelled", "stale"}

Reviewable == {"needs_review", "ready_for_approval", "paused"}

RunState ==
  {"created", "snapshotting", "probing", "comparing", "needs_review",
   "ready_for_approval", "approved", "running", "pausing", "paused"}
  \cup Terminal

StoredState == RunState \cup {"absent", "deleted"}

NoRow == {"absent", "deleted"}

(***************************************************************************)
(* ALLOWED_TRANSITIONS: no row of the table leaves a terminal state, and    *)
(* "running" is entered from "approved" alone.                              *)
(***************************************************************************)
Allowed(from, to) ==
  \/ from = "created"            /\ to \in {"snapshotting", "cancelled", "failed"}
  \/ from = "snapshotting"       /\ to \in {"probing", "stale", "cancelled", "failed"}
  \/ from = "probing"            /\ to \in {"comparing", "needs_review", "cancelled", "failed", "stale"}
  \/ from = "comparing"          /\ to \in {"needs_review", "ready_for_approval", "cancelled", "failed", "stale"}
  \/ from = "needs_review"       /\ to \in {"ready_for_approval", "cancelled", "failed", "stale"}
  \/ from = "ready_for_approval" /\ to \in {"approved", "needs_review", "cancelled", "failed", "stale"}
  \/ from = "approved"           /\ to \in {"running", "cancelled", "failed", "stale"}
  \/ from = "running"            /\ to \in {"pausing", "completed", "cancelled", "failed", "stale"}
  \/ from = "pausing"            /\ to \in {"paused", "cancelled", "failed"}
  \/ from = "paused"             /\ to \in {"needs_review", "cancelled", "failed", "stale"}
=============================================================================
