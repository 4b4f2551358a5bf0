---------------------------- MODULE RunLifecycle ----------------------------
(***************************************************************************)
(* The persisted record of one run: its rows in the SQLite store            *)
(* (packages/persistence/src/repository.ts) and the operations that         *)
(* controllers, review listeners and CLI processes perform on them.         *)
(*                                                                          *)
(* Every store operation is one BEGIN IMMEDIATE transaction, so it is one   *)
(* step here.  What is not atomic is the client around it: a browser tab, a *)
(* CLI invocation or a controller reads the run, decides what to ask for,   *)
(* and asks later, perhaps several times.  A client's slot holds the        *)
(* request it built from what it read; between the read and the             *)
(* transaction any other client may commit.                                 *)
(*                                                                          *)
(* A contract is named by its version number, which the table's             *)
(* UNIQUE(run_id, version) makes a name.                                    *)
(***************************************************************************)
EXTENDS Integers, FiniteSets, RunStates

CONSTANTS
  Clients,        \* processes and browser tabs that act on the run
  Listeners,      \* those of them that are review listeners (browser tabs)
  Decisions,      \* the decision points the inspection may raise
  Answers,        \* the answers a human may give to one
  CancelOption,   \* the _cancel and _rerun options of a decision
  NoAnswer,       \* no row in human_decisions
  NoDecision,     \* a request that names no decision
  NoRequest,      \* an idle client
  MaxVersion,     \* bound: the highest run version explored
  MaxContracts,   \* bound: the number of contracts explored
  MaxLease        \* bound: the number of review capabilities issued

ASSUME LifecycleAssumption ==
  /\ Listeners \subseteq Clients
  /\ CancelOption \notin Answers
  /\ NoAnswer \notin Answers \cup {CancelOption}
  /\ NoDecision \notin Decisions
  /\ MaxVersion \in Nat
  /\ MaxContracts \in Nat
  /\ MaxLease \in Nat

VARIABLES
  state,      \* runs.state
  version,    \* runs.version
  active,     \* runs.active_contract_id, 0 for null
  blocking,   \* runs.blocking_decision_ids_json
  points,     \* decision_points: the rows
  status,     \* decision_points.status
  answer,     \* human_decisions: the answer per decision, or NoAnswer
  issued,     \* contracts: the versions inserted
  approved,   \* contracts: the versions with approved_at set
  basis,      \* contracts: the human decisions each one was built from
  keys,       \* idempotency_keys: the requests that took effect
  pinned,     \* runs.pinned
  lease,      \* review_capability_leases.generation, 0 for no row
  current,    \* does the working tree still give the run's snapshot hash?
  slot        \* the request each client is about to send, or send again

runVars      == <<state, version, active, blocking>>
reviewVars   == <<points, status, answer>>
contractVars == <<issued, approved, basis>>
leaseVars    == <<pinned, lease>>
storeVars    == <<runVars, reviewVars, contractVars, keys, leaseVars>>
vars         == <<storeVars, current, slot>>

-----------------------------------------------------------------------------
(* Requests *)

Contracts == 1 .. MaxContracts
Answer    == Answers \cup {CancelOption}
NoAnswers == [d \in Decisions |-> NoAnswer]

Operation ==
  {"decide", "defer", "reopen", "approve", "cancel", "amend", "start", "move", "delete"}

Outcome == {"unknown", "review_only", "ready_with_contract", "cancelled"}

Request ==
  [op : Operation, version : 0 .. MaxVersion, decision : Decisions \cup {NoDecision},
   answer : Answer \cup {NoAnswer}, contract : 0 .. MaxContracts, target : RunState,
   fresh : BOOLEAN, outcome : Outcome, gen : 0 .. MaxLease]

ASSUME NoRequestAssumption == NoRequest \notin Request

(* What a client asks for when it has just read the run.  A listener sends the *)
(* generation it was issued, which is never ahead of the stored one.           *)
Ask(op, g) ==
  [op |-> op, version |-> version, decision |-> NoDecision, answer |-> NoAnswer,
   contract |-> active, target |-> "created", fresh |-> TRUE,
   outcome |-> "unknown", gen |-> g]

(* The part of a request the idempotency row is matched against: the outcome   *)
(* and the capability are not in the fingerprint.                              *)
KeyOf(r) == [r EXCEPT !.outcome = "unknown", !.gen = 0]

(* The start key is cli:start:<contract>, whatever else the request says.      *)
KeyTaken(r) ==
  \/ KeyOf(r) \in keys
  \/ r.op = "start" /\ \E k \in keys : k.op = "start" /\ k.contract = r.contract

Keep(r) == keys' = keys \cup {KeyOf(r)}

(* Every write but recovery and deletion names the version it read.            *)
Current(r) == version = r.version

(* assertUnpinned and assertReviewCapabilityCurrent: a listener's request      *)
(* carries both conditions, a CLI request neither.                             *)
Boundary(r) == r.gen # 0 => ~pinned /\ r.gen = lease

-----------------------------------------------------------------------------
(* Writing the run row: updateRun is a compare-and-swap on the version.        *)

Write(next, steps) ==
  /\ version + steps <= MaxVersion
  /\ state' = next
  /\ version' = version + steps

Move(next) == Allowed(state, next) /\ Write(next, 1)

(* nextContractVersion: COALESCE(MAX(version), 0) + 1.                         *)
NextContractVersion ==
  CHOOSE n \in 1 .. MaxContracts + 1 :
    /\ \A c \in issued : c < n
    /\ n = 1 \/ n - 1 \in issued

(* Mutant of InsertContract: approved_at is copied from the contract replaced. *)
InsertContractInheritingApproval(c, humanDecisions) ==
  /\ c \in Contracts \ issued
  /\ issued' = issued \cup {c}
  /\ basis' = [basis EXCEPT ![c] = humanDecisions]
  /\ approved' = IF active \in approved THEN approved \cup {c} ELSE approved

(* insertContract, refused by UNIQUE(run_id, version).                         *)
InsertContract(c, humanDecisions) ==
  /\ c \in Contracts \ issued
  /\ issued' = issued \cup {c}
  /\ basis' = [basis EXCEPT ![c] = humanDecisions]
  /\ UNCHANGED approved

(* Mutant of OfferContract: the run keeps naming the contract it had.          *)
OfferContractKeepingOld(c, humanDecisions) ==
  /\ InsertContract(c, humanDecisions)
  /\ active' = IF active = 0 THEN c ELSE active

OfferContract(c, humanDecisions) ==
  /\ InsertContract(c, humanDecisions)
  /\ active' = c

-----------------------------------------------------------------------------
Init ==
  /\ state = "absent"
  /\ version = 0
  /\ active = 0
  /\ blocking = {}
  /\ points = {}
  /\ status = [d \in Decisions |-> "unresolved"]
  /\ answer = NoAnswers
  /\ issued = {}
  /\ approved = {}
  /\ basis = [c \in Contracts |-> NoAnswers]
  /\ keys = {}
  /\ pinned = FALSE
  /\ lease = 0
  /\ current = TRUE
  /\ slot = [c \in Clients |-> NoRequest]

-----------------------------------------------------------------------------
(* Inspection: LocalController.inspect and the pipeline it runs.  Its expected *)
(* version is the one its own last write returned; the only other writes these *)
(* states admit end the run, so the state says that the version is current.    *)

CreateRun ==
  /\ state = "absent"
  /\ Write("created", 0)
  /\ UNCHANGED <<active, blocking, reviewVars, contractVars, keys, leaseVars, current, slot>>

(* ingestEvent with a transition, twice: run.snapshotting and run.probing.     *)
IngestEvent ==
  /\ \/ state = "created" /\ Move("snapshotting")
     \/ state = "snapshotting" /\ Move("probing")
  /\ UNCHANGED <<active, blocking, reviewVars, contractVars, keys, leaseVars, current, slot>>

(* The pipeline saves the decision points of the normalised comparison.        *)
SaveDecisionPoints(raised) ==
  /\ state = "probing"
  /\ points = {}
  /\ points' = raised
  /\ UNCHANGED <<runVars, status, answer, contractVars, keys, leaseVars, current, slot>>

(* setBlockingDecisionsAndTransition: every saved decision blocks.             *)
SetBlockingDecisions ==
  /\ state = "probing"
  /\ Move("comparing")
  /\ blocking' = points
  /\ UNCHANGED <<active, reviewVars, contractVars, keys, leaseVars, current, slot>>

AwaitReview ==
  /\ state = "comparing"
  /\ blocking # {}
  /\ Move("needs_review")
  /\ UNCHANGED <<active, blocking, reviewVars, contractVars, keys, leaseVars, current, slot>>

(* saveContractAndReady: nothing to ask, so the first contract is offered.     *)
SaveContractAndReady ==
  /\ state = "comparing"
  /\ blocking = {}
  /\ Move("ready_for_approval")
  /\ OfferContract(1, answer)
  /\ UNCHANGED <<blocking, reviewVars, keys, leaseVars, current, slot>>

-----------------------------------------------------------------------------
(* Building a request from what was just read.  A request whose read already   *)
(* rules it out would be refused by its transaction, so it is not built.       *)

Generations(c) == IF c \in Listeners THEN 1 .. lease ELSE {0}

Fill(c, r) ==
  /\ slot[c] = NoRequest
  /\ slot' = [slot EXCEPT ![c] = r]
  /\ UNCHANGED <<storeVars, current>>

AskDecide(c) ==
  /\ state = "needs_review"
  /\ \E g \in Generations(c), d \in points, a \in Answer :
       Fill(c, [Ask("decide", g) EXCEPT !.decision = d, !.answer = a])

AskDefer(c) ==
  /\ state = "needs_review"
  /\ \E g \in Generations(c), d \in points :
       Fill(c, [Ask("defer", g) EXCEPT !.decision = d])

AskReopen(c) ==
  /\ state = "ready_for_approval"
  /\ \E g \in Generations(c) : Fill(c, Ask("reopen", g))

AskApprove(c) ==
  /\ state = "ready_for_approval"
  /\ \E g \in Generations(c) : Fill(c, Ask("approve", g))

(* cancelVersioned reads no state: a terminal run is asked to cancel too.      *)
AskCancel(c) ==
  /\ state \notin NoRow
  /\ \E g \in Generations(c) : Fill(c, Ask("cancel", g))

(* LocalController.amend: a paused run with an active contract.                *)
AskAmend(c) ==
  /\ c \notin Listeners
  /\ state = "paused"
  /\ active # 0
  /\ Fill(c, Ask("amend", 0))

(* tripwire run: the contract is approved; prepareSnapshot has run and says    *)
(* whether the working tree still has the approved snapshot.                   *)
AskStart(c) ==
  /\ c \notin Listeners
  /\ state = "approved"
  /\ Fill(c, [Ask("start", 0) EXCEPT !.fresh = current])

(* The states a controller moves a run to by a plain transitionRun call, by    *)
(* the state it has just read: cancel and failActiveRun, markCompatibilityStale*)
(* and the outcome of an execution (run, stop).                                *)
CallerTargets ==
  (IF state \in Terminal \cup NoRow THEN {} ELSE {"cancelled", "failed"})
  \cup (IF state \in {"ready_for_approval", "approved"} THEN {"stale"} ELSE {})
  \cup (IF state = "running" THEN {"pausing", "completed"} ELSE {})
  \cup (IF state = "pausing" THEN {"paused"} ELSE {})

AskMove(c) ==
  /\ c \notin Listeners
  /\ \E t \in CallerTargets : Fill(c, [Ask("move", 0) EXCEPT !.target = t])

(* deleteRun reads the state before its transaction, not in it.                *)
AskDelete(c) ==
  /\ c \notin Listeners
  /\ state \notin NoRow \cup {"running", "pausing"}
  /\ Fill(c, Ask("delete", 0))

(* A client that has its answer, or gives up waiting for one.                  *)
Forget(c) ==
  /\ slot[c] # NoRequest
  /\ slot' = [slot EXCEPT ![c] = NoRequest]
  /\ UNCHANGED <<storeVars, current>>

-----------------------------------------------------------------------------
(* Carrying a request out.  The slot keeps a request that carries a retry key, *)
(* so it may be sent again; KeyTaken makes that a replay, which changes nothing.*)

Sent(c, op) ==
  /\ slot[c] # NoRequest
  /\ slot[c].op = op
  /\ state \notin NoRow

Keyed(c, op) ==
  /\ Sent(c, op)
  /\ Boundary(slot[c])
  /\ ~KeyTaken(slot[c])
  /\ Keep(slot[c])

(* LocalController.decide chooses the outcome from reads outside the           *)
(* transaction.  The last branch is its re-derivation from an active contract, *)
(* which a transaction at the asked version never accepts.                     *)
ChooseOutcome(c) ==
  /\ Sent(c, "decide")
  /\ slot[c].outcome = "unknown"
  /\ LET r == slot[c]
         final == state = "needs_review" /\ version = r.version /\ blocking = {r.decision}
         choose(o) == slot' = [slot EXCEPT ![c] = [r EXCEPT !.outcome = o]]
     IN  \/ r.answer = CancelOption /\ choose("cancelled")
         \/ r.answer # CancelOption /\ final /\ choose("ready_with_contract")
         \/ r.answer # CancelOption /\ ~final /\ choose("review_only")
         \/ r.answer # CancelOption /\ ~final /\ active # 0 /\ choose("ready_with_contract")
  /\ UNCHANGED <<storeVars, current>>

(* Mutant of ResolveDecision: INSERT OR REPLACE, an answer may be given again. *)
ResolveDecisionAgain(r) ==
  /\ state = "needs_review" /\ Current(r) /\ r.decision \in points
  /\ status' = [status EXCEPT ![r.decision] = "resolved"]
  /\ answer' = [answer EXCEPT ![r.decision] = r.answer]
  /\ blocking' = blocking \ {r.decision}
  /\ UNCHANGED points

(* prepareHumanDecision and writeHumanDecision: what every outcome of          *)
(* recordHumanDecisionOutcome shares.                                          *)
ResolveDecision(r) ==
  /\ state = "needs_review"
  /\ Current(r)
  /\ r.decision \in points
  /\ status[r.decision] # "resolved"
  /\ answer[r.decision] = NoAnswer
  /\ status' = [status EXCEPT ![r.decision] = "resolved"]
  /\ answer' = [answer EXCEPT ![r.decision] = r.answer]
  /\ blocking' = blocking \ {r.decision}
  /\ UNCHANGED points

DecideReviewOnly(c) ==
  /\ Keyed(c, "decide")
  /\ slot[c].outcome = "review_only"
  /\ ResolveDecision(slot[c])
  /\ Write(state, 1)
  /\ UNCHANGED <<active, contractVars, leaseVars, current, slot>>

(* The last answer, the contract and the offer are one transaction.            *)
DecideReady(c) ==
  LET r == slot[c] IN
  /\ Keyed(c, "decide")
  /\ r.outcome = "ready_with_contract"
  /\ ResolveDecision(r)
  /\ blocking = {r.decision}
  /\ \A d \in points : status'[d] = "resolved" /\ answer'[d] # NoAnswer
  /\ Allowed(state, "ready_for_approval")
  /\ Write("ready_for_approval", 2)
  /\ OfferContract(NextContractVersion, answer')
  /\ UNCHANGED <<leaseVars, current, slot>>

DecideCancelled(c) ==
  LET r == slot[c] IN
  /\ Keyed(c, "decide")
  /\ r.outcome = "cancelled"
  /\ r.answer = CancelOption
  /\ ResolveDecision(r)
  /\ Allowed(state, "cancelled")
  /\ Write("cancelled", 2)
  /\ UNCHANGED <<active, contractVars, leaseVars, current, slot>>

DeferDecision(c) ==
  LET r == slot[c] IN
  /\ Keyed(c, "defer")
  /\ state = "needs_review"
  /\ Current(r)
  /\ r.decision \in points
  /\ status[r.decision] = "unresolved"
  /\ status' = [status EXCEPT ![r.decision] = "deferred"]
  /\ Write(state, 1)
  /\ UNCHANGED <<active, blocking, points, answer, contractVars, leaseVars, current, slot>>

(* Mutants of ResetReview: the blocking questions are left as they are; the    *)
(* contract stays active; a column is reset to the value of its neighbour.     *)
ResetReviewUnblocked ==
  /\ status' = [d \in Decisions |-> "unresolved"]
  /\ answer' = NoAnswers
  /\ active' = 0
  /\ UNCHANGED <<blocking, points>>

ResetReviewKeepingContract ==
  /\ status' = [d \in Decisions |-> "unresolved"]
  /\ answer' = NoAnswers
  /\ blocking' = points
  /\ UNCHANGED <<active, points>>

ResetReview ==
  /\ status' = [d \in Decisions |-> "unresolved"]
  /\ answer' = NoAnswers
  /\ blocking' = points
  /\ active' = 0
  /\ UNCHANGED points

ReopenReview(c) ==
  /\ Keyed(c, "reopen")
  /\ state = "ready_for_approval"
  /\ Current(slot[c])
  /\ points # {}
  /\ Move("needs_review")
  /\ ResetReview
  /\ UNCHANGED <<contractVars, leaseVars, current, slot>>

ApproveContract(c) ==
  LET r == slot[c] IN
  /\ Keyed(c, "approve")
  /\ active = r.contract
  /\ r.contract \in issued
  /\ Current(r)
  /\ Move("approved")
  /\ approved' = approved \cup {r.contract}
  /\ UNCHANGED <<active, blocking, reviewVars, issued, basis, leaseVars, current, slot>>

(* cancelRun: a terminal run is returned as it is, and the key is kept.        *)
CancelRun(c) ==
  /\ Keyed(c, "cancel")
  /\ Current(slot[c])
  /\ \/ state \in Terminal /\ UNCHANGED <<state, version>>
     \/ state \notin Terminal /\ Move("cancelled")
  /\ UNCHANGED <<active, blocking, reviewVars, contractVars, leaseVars, current, slot>>

(* amendPausedContract: paused, through needs_review, to ready_for_approval,   *)
(* with a new contract that keeps the human decisions of the old one.          *)
AmendPausedContract(c) ==
  /\ Keyed(c, "amend")
  /\ state = "paused"
  /\ Current(slot[c])
  /\ active # 0
  /\ active = slot[c].contract
  /\ OfferContract(active + 1, basis[active])
  /\ Write("ready_for_approval", 2)
  /\ blocking' = {}
  /\ UNCHANGED <<reviewVars, leaseVars, current, slot>>

StartExecution(c) ==
  LET r == slot[c] IN
  /\ Keyed(c, "start")
  /\ Current(r)
  /\ state = "approved"
  /\ r.contract \in approved
  /\ blocking = {}
  /\ active = r.contract
  /\ r.fresh
  /\ Write("running", 1)
  /\ UNCHANGED <<active, blocking, reviewVars, contractVars, leaseVars, current, slot>>

(* A start refused with STALE_SNAPSHOT: the controller reads the run again and *)
(* asks for it to be made stale.                                               *)
RefuseStaleStart(c) ==
  /\ Sent(c, "start")
  /\ ~KeyTaken(slot[c])
  /\ Current(slot[c])
  /\ state = "approved"
  /\ ~slot[c].fresh
  /\ slot' = [slot EXCEPT ![c] = [Ask("move", 0) EXCEPT !.target = "stale"]]
  /\ UNCHANGED <<storeVars, current>>

(* transitionRun, called by cancel, failActiveRun, markCompatibilityStale, run *)
(* and stop with the version they read; it has no retry key.                   *)
TransitionRun(c) ==
  /\ Sent(c, "move")
  /\ Current(slot[c])
  /\ Move(slot[c].target)
  /\ slot' = [slot EXCEPT ![c] = NoRequest]
  /\ UNCHANGED <<active, blocking, reviewVars, contractVars, keys, leaseVars, current>>

(* Mutants of RecoverInterruptedRuns: a restart pauses whatever is not paused  *)
(* or completed; a restart queues the run for another start.                   *)
RecoverWhateverIsOpen ==
  /\ state \notin NoRow \cup {"paused", "completed"}
  /\ Write("paused", 1)
  /\ UNCHANGED <<active, blocking, reviewVars, contractVars, keys, leaseVars, current, slot>>

RecoverByRequeueing ==
  /\ state \in {"running", "pausing"}
  /\ Write("approved", 1)
  /\ UNCHANGED <<active, blocking, reviewVars, contractVars, keys, leaseVars, current, slot>>

(* recoverInterruptedRuns, by the start() of any controller process.           *)
RecoverInterruptedRuns ==
  /\ \/ state = "running" /\ Write("paused", 2)
     \/ state = "pausing" /\ Write("paused", 1)
  /\ UNCHANGED <<active, blocking, reviewVars, contractVars, keys, leaseVars, current, slot>>

(* The transaction of deleteRun, with the cascade of every row of the run.     *)
DeleteRun(c) ==
  /\ Sent(c, "delete")
  /\ state' = "deleted"
  /\ version' = 0
  /\ active' = 0
  /\ blocking' = {}
  /\ points' = {}
  /\ status' = [d \in Decisions |-> "unresolved"]
  /\ answer' = NoAnswers
  /\ issued' = {}
  /\ approved' = {}
  /\ basis' = [k \in Contracts |-> NoAnswers]
  /\ keys' = {}
  /\ pinned' = FALSE
  /\ lease' = 0
  /\ slot' = [slot EXCEPT ![c] = NoRequest]
  /\ UNCHANGED current

(* archive and unarchive.                                                      *)
SetPinned ==
  /\ state \notin NoRow
  /\ pinned' = ~pinned
  /\ UNCHANGED <<runVars, reviewVars, contractVars, keys, lease, current, slot>>

ClaimReviewCapability ==
  /\ ~pinned
  /\ state \in Reviewable
  /\ lease < MaxLease
  /\ lease' = lease + 1
  /\ UNCHANGED <<runVars, reviewVars, contractVars, keys, pinned, current, slot>>

(* Someone edits the working tree, or puts it back.                            *)
EditRepository ==
  /\ current' = ~current
  /\ UNCHANGED <<storeVars, slot>>

-----------------------------------------------------------------------------
Inspect ==
  \/ CreateRun
  \/ IngestEvent
  \/ \E raised \in SUBSET Decisions \ {{}} : SaveDecisionPoints(raised)
  \/ SetBlockingDecisions
  \/ AwaitReview
  \/ SaveContractAndReady

Prepare(c) ==
  \/ AskDecide(c) \/ AskDefer(c) \/ AskReopen(c) \/ AskApprove(c) \/ AskCancel(c)
  \/ AskAmend(c) \/ AskStart(c) \/ AskMove(c) \/ AskDelete(c) \/ Forget(c)

Serve(c) ==
  \/ ChooseOutcome(c) \/ DecideReviewOnly(c) \/ DecideReady(c) \/ DecideCancelled(c)
  \/ DeferDecision(c) \/ ReopenReview(c) \/ ApproveContract(c) \/ CancelRun(c)
  \/ AmendPausedContract(c) \/ StartExecution(c) \/ RefuseStaleStart(c)
  \/ TransitionRun(c) \/ DeleteRun(c)

Environment ==
  \/ RecoverInterruptedRuns
  \/ SetPinned
  \/ ClaimReviewCapability
  \/ EditRepository

Next ==
  \/ Inspect
  \/ \E c \in Clients : Prepare(c) \/ Serve(c)
  \/ Environment

Spec == Init /\ [][Next]_vars

-----------------------------------------------------------------------------
(* Properties *)

TypeOK ==
  /\ state \in StoredState
  /\ version \in 0 .. MaxVersion
  /\ active \in 0 .. MaxContracts
  /\ blocking \subseteq Decisions
  /\ points \subseteq Decisions
  /\ status \in [Decisions -> {"unresolved", "deferred", "resolved"}]
  /\ answer \in [Decisions -> Answer \cup {NoAnswer}]
  /\ issued \subseteq Contracts
  /\ approved \subseteq Contracts
  /\ basis \in [Contracts -> [Decisions -> Answer \cup {NoAnswer}]]
  /\ keys \subseteq Request
  /\ pinned \in BOOLEAN
  /\ lease \in 0 .. MaxLease
  /\ current \in BOOLEAN
  /\ slot \in [Clients -> Request \cup {NoRequest}]

(* While a run waits for its reviewer, the questions that block it are exactly *)
(* the saved ones without an answer, and there is one: a review that is over   *)
(* has already moved on in the transaction that recorded its last answer.  Once*)
(* a contract is offered nothing blocks, however often the review was reopened.*)
ReviewAgreement ==
  /\ state = "needs_review" =>
       /\ blocking # {}
       /\ blocking = {d \in points : answer[d] = NoAnswer}
  /\ state \in {"ready_for_approval", "approved", "running", "pausing", "paused", "completed"} =>
       blocking = {}

(* The contract a run would execute was built from the answers now on record:  *)
(* no interleaving of answers, reopenings and amendments leaves a contract     *)
(* active that quotes answers the human has since withdrawn.                   *)
ContractQuotesAnswers ==
  active # 0 => active \in issued /\ basis[active] = answer

(* The active contract is the newest one.  amendPausedContract numbers the new *)
(* contract from the active one and not from the table, so on anything else it *)
(* would run into UNIQUE(run_id, version) and the run could never be amended.  *)
NewestContractIsActive ==
  active # 0 => \A c \in issued : c <= active

(* Whatever has run, or is running, ran under a contract a human approved, and *)
(* the contract on offer has not been approved yet.                            *)
RunsUnderApproval ==
  /\ state \in {"approved", "running", "pausing", "paused", "completed"} => active \in approved
  /\ state = "ready_for_approval" => active \in issued \ approved

(* An answer is withdrawn only by reopening the whole review, which takes the  *)
(* contract back with it, or by deleting the run; no retry, late request or    *)
(* second tab replaces one answer by another.                                  *)
AnswersStand ==
  [][\A d \in Decisions :
       answer[d] # NoAnswer /\ answer'[d] # answer[d] =>
         answer' = NoAnswers /\ active' = 0]_vars

(* A run that is over is not brought back, by any retry, recovery or amendment *)
(* that was prepared while it was still alive.                                 *)
TerminalIsFinal ==
  [][(state \in Terminal) => state' \in {state, "deleted"}]_vars

(* docs/SECURITY.md:382 says that deletion is refused while execution is       *)
(* active.                                                                     *)
DeletionSparesActiveRuns ==
  [][state' = "deleted" => state \notin {"running", "pausing"}]_vars

-----------------------------------------------------------------------------
(* The inductive invariant behind the properties above. *)

(* Before the first review, and after deletion, there is nothing to lose.      *)
BeforeReview ==
  /\ state \in {"absent", "created", "snapshotting", "probing", "comparing", "deleted"} =>
       issued = {} /\ approved = {} /\ active = 0 /\ answer = NoAnswers
  /\ state = "comparing" => blocking = points
  /\ state = "needs_review" => active = 0

(* Contracts are numbered from 1 without a gap.                                *)
ContractsInOrder ==
  /\ \E n \in 0 .. MaxContracts : issued = 1 .. n
  /\ approved \subseteq issued

(* No request is ahead of the run it was built from; a plain transition only   *)
(* halts or ends a run; and an answer that was judged not to be the last one is*)
(* not the last one, or is out of date.                                        *)
RequestsBehind ==
  /\ state = "absent" => slot = [c \in Clients |-> NoRequest]
  /\ \A c \in Clients : slot[c] # NoRequest /\ state \notin NoRow =>
       slot[c].version <= version
  /\ \A c \in Clients : slot[c] # NoRequest /\ slot[c].op = "decide" =>
       slot[c].answer # NoAnswer
  /\ \A c \in Clients : slot[c] # NoRequest /\ slot[c].op = "move" =>
       slot[c].target \in {"pausing", "paused"} \cup Terminal
  /\ \A c \in Clients :
       /\ slot[c] # NoRequest
       /\ slot[c].outcome = "review_only"
       /\ slot[c].version = version
       /\ state = "needs_review"
       => blocking # {slot[c].decision}

(* What every step preserves: the four safety properties and what they need.   *)
IInv ==
  /\ TypeOK
  /\ BeforeReview
  /\ ContractsInOrder
  /\ RequestsBehind
  /\ ReviewAgreement
  /\ ContractQuotesAnswers
  /\ NewestContractIsActive
  /\ RunsUnderApproval

-----------------------------------------------------------------------------
(* The promise, and how the store keeps it. *)

PhaseOf(s) ==
  CASE s = "ready_for_approval"     -> "offered"
    [] s = "approved"               -> "granted"
    [] s \in {"running", "pausing"} -> "executing"
    [] s = "paused"                 -> "halted"
    [] s \in Terminal \cup {"deleted"} -> "over"
    [] OTHER                        -> "closed"

Phase == PhaseOf(state)

StartedContracts == {k.contract : k \in {r \in keys : r.op = "start"}}

Gate == INSTANCE ApprovalGate WITH
  Contract   <- Contracts,
  NoContract <- 0,
  Ending     <- Terminal,
  phase      <- Phase,
  contract   <- IF Phase = "over" THEN 0 ELSE active,
  offered    <- IF Phase = "over" THEN {} ELSE issued,
  spent      <- IF Phase = "over" THEN {} ELSE StartedContracts,
  ending     <- IF Phase = "over" THEN state ELSE "none"

(* Every behaviour of the store is one the gate allows.                        *)
ImplementsGate == Gate!Spec
=============================================================================
