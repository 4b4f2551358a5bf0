---------------------------- MODULE ExecutionTurn ----------------------------
(***************************************************************************)
(* One execution of a contract over the App Server: runContractExecution    *)
(* and the handlers of CodexAppServerClient, the gate that judges what the  *)
(* turn asks for and does (packages/contract-runtime/src/execution-gate.ts) *)
(* and the outcome that start() of ContractExecutionPort draws from it.     *)
(*                                                                          *)
(* The App Server is not trusted: it may send any message, in any order,    *)
(* any number of times, once it has been asked for the turn.  A message is  *)
(* handled without interruption; what the code continues after an await, or *)
(* in a timer, is a step of its own, which other messages may precede.      *)
(***************************************************************************)
EXTENDS EventLedger, Connection

CONSTANTS
  RpcIds,   \* bound: the identifiers of the App Server's own requests
  Notices,  \* bound: the notifications it may send
  Asks      \* bound: the requests it may make

(* What requests are for; each required check of the contract is one more.     *)
Purpose == {"thread", "turn", "pause", "giveUp", "stop"}

RequiredChecks == Requests \ Purpose

(* An approval the App Server asks for, or something else it asks for: an      *)
(* elicitation need not name a turn, a malformed request fails its schema, and *)
(* an unsupported one is refused before it is looked at.                       *)
ServerRequest ==
  [method : {"fileChange"}, item : Items]
  \cup [method : {"command"}, verdict : {"inside", "outside"}]
  \cup [method : {"permissions", "elicitation", "malformed", "unsupported"}]

ASSUME TurnAssumption ==
  /\ Purpose \subseteq Requests
  /\ Notices \subseteq Notification
  /\ Asks \subseteq ServerRequest

VARIABLES
  seen,          \* the notifications the ledger accepted
  turn,          \* TurnState, and the promise of waitForTurn
  interrupting,  \* has requestExecutionPause asked for an interrupt?
  pauseTimer,    \* a pause is to be requested when the current message is done
  served,        \* serverRequests: what was asked under each identifier, and the answer
  replies,       \* the answers sent for each identifier
  deviated,      \* the gate has recorded a deviation
  pc,            \* how far start() has come
  result,        \* the status that runContractExecution returned
  passed,        \* the required checks that passed
  aborted,       \* the abort signal of the execution
  outcome        \* what start() will return

turnVars == <<seen, turn, interrupting, pauseTimer>>
gateVars == <<served, replies, deviated>>
portVars == <<pc, result, passed, aborted, outcome>>
vars     == <<connectionVars, turnVars, gateVars, portVars>>

Waiter == {"none", "waiting", "resolved", "failed", "cancelled"}

Turn == [status : TurnStatus \cup {"none"}, error : BOOLEAN, waiter : Waiter]

NotAsked == [method |-> "none"]

Answer == {"accept", "decline", "error"}

Served ==
  [asked : ServerRequest \cup {NotAsked}, answer : Answer \cup {"none"}, repeated : BOOLEAN]

Unserved == [asked |-> NotAsked, answer |-> "none", repeated |-> FALSE]

PortPc ==
  {"thread", "turn", "waiting", "giveUp", "checks", "check", "inspect", "diff",
   "cleaning", "closing", "done", "crashed"}

TypeOK ==
  /\ ConnectionType
  /\ seen \subseteq Notification
  /\ turn \in Turn
  /\ interrupting \in {"no", "asked", "done"}
  /\ pauseTimer \in BOOLEAN
  /\ served \in [RpcIds -> Served]
  /\ replies \in [RpcIds -> SUBSET Answer]
  /\ deviated \in BOOLEAN
  /\ pc \in PortPc
  /\ result \in {"none", "completed", "interrupted", "failed"}
  /\ passed \subseteq RequiredChecks
  /\ aborted \in BOOLEAN
  /\ outcome \in {"none", "completed", "paused", "failed"}

Init ==
  /\ request = [r \in Requests |-> IF r = "thread" THEN "pending" ELSE "unsent"]
  /\ completed = [r \in Requests |-> "none"]
  /\ failure = FALSE
  /\ link = "open"
  /\ seen = {}
  /\ turn = [status |-> "none", error |-> FALSE, waiter |-> "none"]
  /\ interrupting = "no"
  /\ pauseTimer = FALSE
  /\ served = [id \in RpcIds |-> Unserved]
  /\ replies = [id \in RpcIds |-> {}]
  /\ deviated = FALSE
  /\ pc = "thread"
  /\ result = "none"
  /\ passed = {}
  /\ aborted = FALSE
  /\ outcome = "none"

Ongoing == pc \notin {"done", "crashed"}
Over(t) == t.status \in {"completed", "interrupted", "failed"}

-----------------------------------------------------------------------------
(* Turns *)

SettleTurn(t) ==
  IF t.waiter = "waiting" /\ (t.error \/ Over(t))
  THEN [t EXCEPT !.waiter = IF t.error THEN "failed" ELSE "resolved"]
  ELSE t

FailTurn(t) == IF t.error THEN t ELSE SettleTurn([t EXCEPT !.error = TRUE])

FailProtocol ==
  /\ failure' = TRUE
  /\ request' = Rejected
  /\ turn' = FailTurn(turn)
  /\ UNCHANGED completed

(* requestExecutionPause: one interrupt for the turn, whoever asks first.      *)
RequestExecutionPause ==
  IF interrupting = "no"
  THEN interrupting' = "asked" /\ request' = Sent("pause")
  ELSE UNCHANGED <<interrupting, request>>

-----------------------------------------------------------------------------
(* What the App Server sends *)

ReceiveResponse(r, a) ==
  /\ Ongoing /\ Listening
  /\ \/ Answered(r, a) /\ UNCHANGED turn
     \/ Corrupt(r, a) /\ FailProtocol /\ UNCHANGED link
  /\ UNCHANGED <<seen, interrupting, pauseTimer, gateVars, portVars>>

(* The turn is known to the App Server from the moment it is asked for it.     *)
TurnIsKnown == request["turn"] # "unsent"

(* A repetition of an accepted notification changes nothing, and is left out.  *)
ReceiveTurnEvent(m) ==
  /\ Ongoing /\ Listening /\ TurnIsKnown
  /\ m \in (Notices \cap TurnEvent) \ seen
  /\ IF Accepts(seen, m)
     THEN /\ seen' = seen \cup {m}
          /\ turn' = IF m.method = "turn/completed"
                     THEN SettleTurn([turn EXCEPT !.status = m.status]) ELSE turn
          /\ UNCHANGED connectionVars
     ELSE FailProtocol /\ UNCHANGED <<link, seen>>
  /\ UNCHANGED <<interrupting, pauseTimer, gateVars, portVars>>

(* Mutant of ReceiveWork: what was announced is judged, the diff is not.       *)
ReceiveWorkUnjudged(m) ==
  /\ Ongoing /\ Listening /\ TurnIsKnown
  /\ m \in (Notices \ TurnEvent) \ seen
  /\ IF Accepts(seen, m)
     THEN /\ seen' = seen \cup {m}
          /\ IF m.verdict = "outside" /\ m.method = "item/started"
             THEN deviated' = TRUE /\ RequestExecutionPause
             ELSE UNCHANGED <<deviated, interrupting, request>>
          /\ UNCHANGED <<turn, completed, failure, link>>
     ELSE FailProtocol /\ UNCHANGED <<link, seen, deviated, interrupting>>
  /\ UNCHANGED <<pauseTimer, served, replies, portVars>>

(* An item or an aggregate diff outside the contract is a deviation.           *)
ReceiveWork(m) ==
  /\ Ongoing /\ Listening /\ TurnIsKnown
  /\ m \in (Notices \ TurnEvent) \ seen
  /\ IF Accepts(seen, m)
     THEN /\ seen' = seen \cup {m}
          /\ IF m.verdict = "outside"
             THEN deviated' = TRUE /\ RequestExecutionPause
             ELSE UNCHANGED <<deviated, interrupting, request>>
          /\ UNCHANGED <<turn, completed, failure, link>>
     ELSE FailProtocol /\ UNCHANGED <<link, seen, deviated, interrupting>>
  /\ UNCHANGED <<pauseTimer, served, replies, portVars>>

Replied(id, answer) == replies' = [replies EXCEPT ![id] = @ \cup {answer}]

(* A message that is no message, one that fails its schema, an error.          *)
ReceiveGarbage ==
  /\ Ongoing /\ Listening
  /\ FailProtocol
  /\ UNCHANGED <<link, seen, interrupting, pauseTimer, gateVars, portVars>>

(* A request under a known identifier is answered as the first was, as soon as *)
(* the first is; an answer that cannot be sent ends the process, since nobody  *)
(* handles the rejection.  A request of a kind without a handler is refused.   *)
ReceiveServerRequest(id, asked) ==
  /\ Ongoing /\ Listening /\ TurnIsKnown
  /\ LET known == served[id].asked IN
     \/ /\ asked.method = "unsupported" \/ known \notin {NotAsked, asked}
        /\ FailProtocol
        /\ UNCHANGED <<link, served, replies, pc>>
     \/ /\ asked.method # "unsupported" /\ known = NotAsked
        /\ served' = [served EXCEPT ![id].asked = asked]
        /\ UNCHANGED <<connectionVars, turn, replies, pc>>
     \/ /\ known = asked /\ served[id].answer = "none"
        /\ served' = [served EXCEPT ![id].repeated = TRUE]
        /\ UNCHANGED <<connectionVars, turn, replies, pc>>
     \/ /\ known = asked /\ served[id].answer # "none"
        /\ IF link = "open"
           THEN Replied(id, served[id].answer) /\ UNCHANGED pc
           ELSE pc' = "crashed" /\ UNCHANGED replies
        /\ UNCHANGED <<connectionVars, turn, served>>
  /\ UNCHANGED <<seen, interrupting, pauseTimer, deviated, result, passed, aborted, outcome>>

(* validatedFileItems: the file changes that were announced inside the contract. *)
ValidatedFileItems ==
  {i \in Items : \E m \in seen :
     m = [method |-> "item/started", item |-> i, type |-> "fileChange", verdict |-> "inside"]}

(* decideApproval *)
Decision(asked) ==
  IF \/ asked.method = "fileChange" /\ asked.item \in ValidatedFileItems
     \/ asked.method = "command" /\ asked.verdict = "inside"
  THEN "accept" ELSE "decline"

(* Mutant of HandleServerRequest: the answer is not kept, so that a repetition *)
(* is decided again.                                                           *)
HandleServerRequestAfresh(id) ==
  /\ Ongoing
  /\ served[id].asked.method \notin {"none", "malformed"} /\ served[id].answer = "none"
  /\ LET answer == Decision(served[id].asked) IN
       /\ served' = [served EXCEPT ![id] = Unserved]
       /\ Replied(id, answer)
       /\ deviated' = (deviated \/ answer = "decline")
       /\ pauseTimer' = (pauseTimer \/ answer = "decline")
  /\ UNCHANGED <<connectionVars, turn, seen, interrupting, portVars>>

(* handleServerRequest runs once per identifier, after the message it came in. *)
(* A declined request that names its turn pauses it.  Neither an answer that   *)
(* cannot be sent nor the repetition of a malformed request has a handler for  *)
(* its rejection, which ends the process.                                      *)
HandleServerRequest(id) ==
  /\ Ongoing
  /\ served[id].asked # NotAsked /\ served[id].answer = "none"
  /\ LET asked  == served[id].asked
         answer == IF asked.method = "malformed" THEN "error" ELSE Decision(asked)
         crash  == link # "open" \/ (answer = "error" /\ served[id].repeated) IN
       /\ served' = [served EXCEPT ![id].answer = answer]
       /\ deviated' = (deviated \/ answer = "decline")
       /\ pauseTimer' = (pauseTimer \/ (answer = "decline" /\ asked.method # "elicitation"))
       /\ IF crash THEN pc' = "crashed" /\ UNCHANGED replies ELSE Replied(id, answer) /\ UNCHANGED pc
       /\ IF answer = "error" /\ ~crash
          THEN FailProtocol /\ UNCHANGED link
          ELSE UNCHANGED <<connectionVars, turn>>
  /\ UNCHANGED <<seen, interrupting, result, passed, aborted, outcome>>

(* The process exits, or the transport gives it up.  An exit after close() is  *)
(* expected, and leaves only the timers to end what is in progress.            *)
Disconnect ==
  /\ Ongoing /\ link # "closed"
  /\ link' = "closed"
  /\ \/ FailProtocol
     \/ link = "ended" /\ UNCHANGED <<completed, failure, request, turn>>
  /\ UNCHANGED <<seen, interrupting, pauseTimer, gateVars, portVars>>

-----------------------------------------------------------------------------
(* Timers *)

(* Mutant of RequestTimeout: an interrupt waits for its answer forever.        *)
RequestTimeoutOfStart(r) ==
  /\ Ongoing /\ r \in {"thread", "turn"}
  /\ TimedOut(r)
  /\ UNCHANGED <<turnVars, gateVars, portVars>>

RequestTimeout(r) ==
  /\ Ongoing
  /\ TimedOut(r)
  /\ UNCHANGED <<turnVars, gateVars, portVars>>

(* The turn's own timer; start() treats it as a cancellation.                  *)
WaitTimeout ==
  /\ Ongoing
  /\ turn.waiter = "waiting"
  /\ turn' = [turn EXCEPT !.waiter = "cancelled"]
  /\ UNCHANGED <<connectionVars, seen, interrupting, pauseTimer, gateVars, portVars>>

PauseAfterDecision ==
  /\ Ongoing /\ pauseTimer
  /\ pauseTimer' = FALSE
  /\ RequestExecutionPause
  /\ UNCHANGED <<completed, failure, link, seen, turn, gateVars, portVars>>

(* Mutant of PauseAnswered: a failed interrupt leaves the turn as it is.       *)
PauseAnsweredResolved ==
  /\ Ongoing
  /\ interrupting = "asked" /\ request["pause"] \in Settled
  /\ interrupting' = "done"
  /\ turn' = IF request["pause"] = "resolved" /\ ~Over(turn)
             THEN SettleTurn([turn EXCEPT !.status = "interrupted"]) ELSE turn
  /\ UNCHANGED <<connectionVars, seen, pauseTimer, gateVars, portVars>>

(* The interrupt was answered or failed: the turn is interrupted either way.   *)
PauseAnswered ==
  /\ Ongoing
  /\ interrupting = "asked" /\ request["pause"] \in Settled
  /\ interrupting' = "done"
  /\ turn' = SettleTurn(IF Over(turn) THEN turn ELSE [turn EXCEPT !.status = "interrupted"])
  /\ UNCHANGED <<connectionVars, seen, pauseTimer, gateVars, portVars>>

-----------------------------------------------------------------------------
(* interrupt() and the abort signal *)

(* interrupt() reaches the turn once its session has started; before that it   *)
(* closes the client.                                                          *)
Interrupt ==
  /\ request["stop"] = "unsent"
  /\ \/ /\ pc \in {"thread", "turn"} /\ link = "open"
        /\ link' = "ended"
        /\ UNCHANGED request
     \/ /\ pc \in {"waiting", "giveUp", "checks", "check", "inspect", "diff"}
        /\ request' = Sent("stop")
        /\ UNCHANGED link
  /\ UNCHANGED <<completed, failure, turnVars, gateVars, portVars>>

Abort ==
  /\ Ongoing /\ ~aborted
  /\ aborted' = TRUE
  /\ turn' = IF turn.waiter = "waiting" THEN [turn EXCEPT !.waiter = "cancelled"] ELSE turn
  /\ UNCHANGED <<connectionVars, seen, interrupting, pauseTimer, gateVars, pc, result, passed, outcome>>

-----------------------------------------------------------------------------
(* start() *)

StartTurn ==
  /\ pc = "thread" /\ request["thread"] = "resolved"
  /\ request' = Sent("turn")
  /\ pc' = "turn"
  /\ UNCHANGED <<completed, failure, link, turnVars, gateVars, result, passed, aborted, outcome>>

(* A request that failed, or an answer that names another model or fails its   *)
(* schema, before there is a turn to interrupt.                                *)
StartFails ==
  /\ pc \in {"thread", "turn"} /\ request[pc] \in Settled
  /\ pc' = "cleaning"
  /\ outcome' = "failed"
  /\ UNCHANGED <<connectionVars, turnVars, gateVars, result, passed, aborted>>

(* waitForTurn: the turn may be over before anybody waits for it, and may be   *)
(* reported again before the one who waited goes on.                           *)
WaitForTurn ==
  /\ pc = "turn" /\ request["turn"] = "resolved"
  /\ pc' = "waiting"
  /\ turn' = [turn EXCEPT !.waiter = IF failure \/ turn.error THEN "failed"
                                     ELSE IF Over(turn) THEN "resolved"
                                     ELSE IF aborted THEN "cancelled" ELSE "waiting"]
  /\ UNCHANGED <<connectionVars, seen, interrupting, pauseTimer, gateVars, result, passed, aborted, outcome>>

(* Mutant of TurnReturns: what the gate found out about the turn is looked at  *)
(* when the outcome is drawn, after the checks.                                *)
TurnReturnsUnjudged ==
  /\ pc = "waiting" /\ turn.waiter = "resolved" /\ Over(turn)
  /\ result' = turn.status
  /\ pc' = IF turn.status = "completed" THEN "checks" ELSE "diff"
  /\ UNCHANGED <<connectionVars, turnVars, gateVars, passed, aborted, outcome>>

(* The required checks are run only after a turn that completed as agreed.     *)
TurnReturns ==
  /\ pc = "waiting" /\ turn.waiter = "resolved" /\ Over(turn)
  /\ result' = turn.status
  /\ pc' = IF turn.status = "completed" /\ ~deviated THEN "checks" ELSE "diff"
  /\ UNCHANGED <<connectionVars, turnVars, gateVars, passed, aborted, outcome>>

GiveUp ==
  /\ pc = "waiting"
  /\ turn.waiter \in {"failed", "cancelled"} \/ (turn.waiter = "resolved" /\ ~Over(turn))
  /\ request' = Sent("giveUp")
  /\ pc' = "giveUp"
  /\ UNCHANGED <<completed, failure, link, turnVars, gateVars, result, passed, aborted, outcome>>

GaveUp ==
  /\ pc = "giveUp" /\ request["giveUp"] \in Settled
  /\ outcome' = IF turn.waiter = "cancelled" THEN "paused" ELSE "failed"
  /\ pc' = "cleaning"
  /\ UNCHANGED <<connectionVars, turnVars, gateVars, result, passed, aborted>>

RunCheck ==
  /\ pc = "checks" /\ ~aborted
  /\ \E c \in RequiredChecks \ passed : request' = Sent(c)
  /\ pc' = "check"
  /\ UNCHANGED <<completed, failure, link, turnVars, gateVars, result, passed, aborted, outcome>>

(* The execution was cancelled, or the contract does not allow the check.      *)
SkipCheck ==
  /\ pc = "checks" /\ RequiredChecks # passed
  /\ deviated' = TRUE
  /\ pc' = "diff"
  /\ UNCHANGED <<connectionVars, turnVars, served, replies, result, passed, aborted, outcome>>

(* command/exec answered, with an exit code of zero or another, or failed.     *)
CheckEnds ==
  /\ pc = "check"
  /\ \E c \in RequiredChecks \ passed :
       \/ /\ request[c] = "resolved"
          /\ passed' = passed \cup {c}
          /\ pc' = "inspect"
          /\ UNCHANGED deviated
       \/ /\ request[c] \in Settled
          /\ deviated' = TRUE
          /\ pc' = "diff"
          /\ UNCHANGED passed
  /\ UNCHANGED <<connectionVars, turnVars, served, replies, result, aborted, outcome>>

(* The worktree may have, or no longer have, a change outside the contract.     *)
InspectAfterCheck ==
  /\ pc = "inspect"
  /\ \/ pc' = "checks" /\ UNCHANGED deviated
     \/ pc' = "diff" /\ deviated' = TRUE
  /\ UNCHANGED <<connectionVars, turnVars, served, replies, result, passed, aborted, outcome>>

ChecksDone ==
  /\ pc = "checks" /\ passed = RequiredChecks
  /\ pc' = "diff"
  /\ UNCHANGED <<connectionVars, turnVars, gateVars, result, passed, aborted, outcome>>

Outcome(deviation) ==
  IF deviation \/ result = "interrupted" THEN "paused"
  ELSE IF result = "failed" THEN "failed"
  ELSE IF passed = RequiredChecks THEN "completed" ELSE "paused"

(* The worktree is inspected a last time, and the outcome is decided.          *)
InspectAndDecide ==
  /\ pc = "diff"
  /\ deviated' \in {deviated, TRUE}
  /\ outcome' = Outcome(deviated')
  /\ pc' = "cleaning"
  /\ UNCHANGED <<connectionVars, turnVars, served, replies, result, passed, aborted>>

(* The worktree cannot be inspected.                                           *)
InspectionFails ==
  /\ pc \in {"inspect", "diff"}
  /\ pc' = "cleaning"
  /\ outcome' = "failed"
  /\ UNCHANGED <<connectionVars, turnVars, gateVars, result, passed, aborted>>

(* A client that start() was given is not closed by it.                        *)
CloseClient ==
  /\ pc = "cleaning"
  /\ link' \in {link, IF link = "open" THEN "ended" ELSE link}
  /\ pc' = "closing"
  /\ UNCHANGED <<request, completed, failure, turnVars, gateVars, result, passed, aborted, outcome>>

(* The worktree is removed, or cannot be, and the deviations are recorded.     *)
CleanUp ==
  /\ pc = "closing"
  /\ outcome' \in {outcome, "failed"}
  /\ pc' = "done"
  /\ UNCHANGED <<connectionVars, turnVars, gateVars, result, passed, aborted>>

-----------------------------------------------------------------------------
ServerStep ==
  \/ \E r \in Requests, a \in Response : ReceiveResponse(r, a)
  \/ \E m \in Notices : ReceiveTurnEvent(m)
  \/ \E m \in Notices : ReceiveWork(m)
  \/ \E id \in RpcIds, asked \in Asks : ReceiveServerRequest(id, asked)
  \/ ReceiveGarbage
  \/ Disconnect

PortStep ==
  \/ StartTurn \/ StartFails \/ WaitForTurn \/ TurnReturns \/ GiveUp \/ GaveUp
  \/ RunCheck \/ SkipCheck \/ CheckEnds \/ InspectAfterCheck \/ ChecksDone
  \/ InspectAndDecide \/ InspectionFails \/ CloseClient \/ CleanUp

Next ==
  \/ ServerStep
  \/ \E id \in RpcIds : HandleServerRequest(id)
  \/ \E r \in Requests : RequestTimeout(r)
  \/ WaitTimeout \/ PauseAfterDecision \/ PauseAnswered
  \/ Interrupt \/ Abort
  \/ PortStep

(* Code that runs goes on, and timers fire; the App Server need not do         *)
(* anything.  The turn's own timer, of half an hour, is left out here.         *)
Fairness ==
  /\ WF_vars(PortStep)
  /\ WF_vars(PauseAfterDecision)
  /\ WF_vars(PauseAnswered)
  /\ \A id \in RpcIds : WF_vars(HandleServerRequest(id))
  /\ \A r \in Requests : WF_vars(RequestTimeout(r))

Spec == Init /\ [][Next]_vars

FairSpec == Spec /\ Fairness

-----------------------------------------------------------------------------
(* Properties *)

(* Nobody waits for what is over: a wait is in progress only while the turn    *)
(* is, no request outlives a protocol failure, and an abort ends the wait,     *)
(* whichever of the turn, the wait and the failure came first.                 *)
NothingWaitsInVain ==
  /\ turn.waiter = "waiting" => ~failure /\ ~turn.error /\ ~Over(turn) /\ ~aborted
  /\ failure => \A r \in Requests : request[r] # "pending"

(* A completed execution is one whose turn said so once, after every item it   *)
(* had started, whose required checks all passed, and none of whose items and  *)
(* diffs was outside the contract, even those that arrived afterwards.         *)
CompletedMeansClean ==
  outcome = "completed" =>
    /\ \A m \in seen : m.method = "turn/completed" => m.status = "completed"
    /\ TurnCompleted(seen) /\ StartedItems(seen) = CompletedItems(seen)
    /\ passed = RequiredChecks
    /\ \A m \in seen : m \notin TurnEvent => m.verdict # "outside"

(* A repeated request gets the answer the first one got, although what the     *)
(* gate knows may have changed; and a file change that was accepted had been   *)
(* announced inside the contract.                                              *)
ApprovalsAgree ==
  \A id \in RpcIds :
    /\ \A a, b \in replies[id] : a = b
    /\ "accept" \in replies[id] /\ served[id].asked.method = "fileChange" =>
         served[id].asked.item \in ValidatedFileItems

(* A pause, once decided, ends the wait, although the App Server never answers *)
(* the interrupt and the turn's own timer never fires.                         *)
PauseEndsWait ==
  ((pauseTimer \/ interrupting # "no") /\ turn.waiter = "waiting")
    ~> (turn.waiter # "waiting" \/ ~Ongoing)

(* With that timer, the execution ends whatever the App Server does.           *)
ExecutionEnds == WF_vars(WaitTimeout) => <>~Ongoing

-----------------------------------------------------------------------------
(* The inductive invariant *)

(* Each step of a lifecycle was taken once, and a turn that completed as agreed *)
(* left nothing open.                                                          *)
EndedWell == \E m \in seen : m.method = "turn/completed" /\ m.status = "completed"

LedgerInOrder ==
  /\ \A m, n \in seen : m \in TurnEvent /\ n \in TurnEvent /\ m.method = n.method => m = n
  /\ CompletedItems(seen) \subseteq StartedItems(seen)
  /\ EndedWell => StartedItems(seen) \subseteq CompletedItems(seen)

(* A status of completed, now or when the wait ended, came from the ledger.    *)
StatusFromLedger == turn.status = "completed" \/ result = "completed" => EndedWell

(* Nothing outside the contract was accepted without a deviation.              *)
SeenInside == \A m \in seen : m \notin TurnEvent => m.verdict # "outside"

DeviationsSeen == ~deviated => SeenInside

(* The outcome is decided at the end, from what was then known.                *)
OutcomeDrawn ==
  /\ pc \in {"checks", "check", "inspect", "diff"} => result # "none"
  /\ outcome # "none" => pc \in {"cleaning", "closing", "done", "crashed"}
  /\ outcome = "completed" => result = "completed" /\ passed = RequiredChecks /\ SeenInside

(* Checks are run only when the turn completed inside the contract.            *)
ChecksAfterTurn ==
  pc \in {"checks", "check", "inspect"} => result = "completed" /\ SeenInside

(* An answer is given once, and is the only one sent.                          *)
AnswersKept ==
  \A id \in RpcIds :
    /\ served[id].asked = NotAsked => served[id].answer = "none"
    /\ \A a \in replies[id] : a = served[id].answer
    /\ served[id].answer = "accept" /\ served[id].asked.method = "fileChange" =>
         served[id].asked.item \in ValidatedFileItems

(* The inductive invariant of the turn.                                        *)
IInv ==
  /\ TypeOK
  /\ NothingWaitsInVain
  /\ LedgerInOrder
  /\ StatusFromLedger
  /\ DeviationsSeen
  /\ OutcomeDrawn
  /\ ChecksAfterTurn
  /\ AnswersKept

-----------------------------------------------------------------------------
(* The promise, and how the execution keeps it. *)

StageOf(p) ==
  CASE p \in {"thread", "turn"}       -> "starting"
    [] p \in {"cleaning", "closing"}  -> "concluded"
    [] p = "done"                     -> "returned"
    [] p = "crashed"                  -> "lost"
    [] OTHER                          -> "turn"

EndingOf(notifications) ==
  IF TurnCompleted(notifications)
  THEN (CHOOSE m \in notifications : m.method = "turn/completed").status
  ELSE "none"

Promised == INSTANCE ExecutionPromise WITH
  Item     <- Items,
  Check    <- RequiredChecks,
  Ending   <- TurnStatus,
  stage    <- StageOf(pc),
  taken    <- StartedItems(seen),
  finished <- CompletedItems(seen),
  inside   <- SeenInside,
  ending   <- EndingOf(seen)

(* Every execution over the App Server is one the promise allows.              *)
ImplementsPromise == Promised!Spec
=============================================================================
