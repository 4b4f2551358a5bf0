--------------------------- MODULE ExecutionPromise ---------------------------
(***************************************************************************)
(* What the execution of a contract promises whoever asked for it, with     *)
(* nothing of the protocol it is held to and of how the promise is kept:    *)
(* each piece of work is taken up once and finished once, before the turn   *)
(* ends; the turn ends once; the required checks are run on nothing but the *)
(* finished work of a turn that completed inside the contract; the outcome  *)
(* is drawn once, from what will not change any more, and after that can    *)
(* only become worse.                                                       *)
(***************************************************************************)
CONSTANTS
  Item,      \* the pieces of work
  Check,     \* the required checks
  Ending     \* how a turn may end; "completed" is one way

VARIABLES
  stage,     \* "starting", "turn", "concluded", "returned", or "lost" with its process
  taken,     \* the work that was taken up
  finished,  \* the work that was finished
  inside,    \* nothing outside the contract has been reported
  ending,    \* how the turn ended, or "none"
  passed,    \* the checks that passed
  outcome    \* "none", "completed", "paused" or "failed"

vars == <<stage, taken, finished, inside, ending, passed, outcome>>

Init ==
  /\ stage = "starting"
  /\ taken = {} /\ finished = {} /\ inside = TRUE
  /\ ending = "none" /\ passed = {} /\ outcome = "none"

(* The turn may be under way before its asker hears of it, and may go on after *)
(* the asker gave it up.                                                       *)
Ongoing == stage \notin {"returned", "lost"}

TakeUp(i) ==
  /\ Ongoing /\ ending = "none"
  /\ i \notin taken
  /\ taken' = taken \cup {i}
  /\ inside' \in {inside, FALSE}
  /\ UNCHANGED <<stage, finished, ending, passed, outcome>>

Finish(i) ==
  /\ Ongoing /\ ending = "none"
  /\ i \in taken \ finished
  /\ finished' = finished \cup {i}
  /\ inside' \in {inside, FALSE}
  /\ UNCHANGED <<stage, taken, ending, passed, outcome>>

(* The sum of all changes is reported to be outside the contract.              *)
Stray ==
  /\ Ongoing /\ ending = "none"
  /\ inside' = FALSE
  /\ UNCHANGED <<stage, taken, finished, ending, passed, outcome>>

EndTurn(e) ==
  /\ Ongoing /\ ending = "none"
  /\ e = "completed" => finished = taken
  /\ ending' = e
  /\ UNCHANGED <<stage, taken, finished, inside, passed, outcome>>

Begin ==
  /\ stage = "starting"
  /\ stage' = "turn"
  /\ UNCHANGED <<taken, finished, inside, ending, passed, outcome>>

PassCheck(c) ==
  /\ stage = "turn" /\ ending = "completed" /\ inside
  /\ passed' = passed \cup {c}
  /\ UNCHANGED <<stage, taken, finished, inside, ending, outcome>>

Conclude(o) ==
  /\ stage \in {"starting", "turn"}
  /\ o = "completed" => stage = "turn" /\ ending = "completed" /\ inside /\ passed = Check
  /\ stage' = "concluded"
  /\ outcome' = o
  /\ UNCHANGED <<taken, finished, inside, ending, passed>>

(* What is left behind may turn any outcome into a failure.                    *)
Return ==
  /\ stage = "concluded"
  /\ stage' = "returned"
  /\ outcome' \in {outcome, "failed"}
  /\ UNCHANGED <<taken, finished, inside, ending, passed>>

Lose ==
  /\ Ongoing
  /\ stage' = "lost"
  /\ UNCHANGED <<taken, finished, inside, ending, passed, outcome>>

Next ==
  \/ \E i \in Item : TakeUp(i) \/ Finish(i)
  \/ Stray
  \/ \E e \in Ending : EndTurn(e)
  \/ Begin
  \/ \E c \in Check : PassCheck(c)
  \/ \E o \in {"completed", "paused", "failed"} : Conclude(o)
  \/ Return
  \/ Lose

Spec == Init /\ [][Next]_vars
=============================================================================
