------------------------------ MODULE Inspection ------------------------------
(***************************************************************************)
(* One inspection of a run: LocalController.inspect, the pipeline it runs   *)
(* under a timeout (apps/controller/src/inspection-pipeline.ts), the probes *)
(* ProbeCoordinator runs concurrently, each in a disposable worktree of its *)
(* own, the comparator with its retry and its manual fallback, the          *)
(* normalizer, the translation, and the rows all of them leave behind.      *)
(*                                                                         *)
(* A worktree is the pair <<p, n>> of a probe and an attempt.  What a plan  *)
(* says is abstracted to what the review makes of it: which policy blockers *)
(* it triggers and which subjects the comparison leaves open.  Temporary    *)
(* directories of the comparator and the translator lie under the root of   *)
(* the App Server session and go with it; they are not kept apart here.  A   *)
(* process that dies leaves disk and store as some state here shows them.   *)
(***************************************************************************)
EXTENDS Integers, FiniteSets, Sequences, RunStates

CONSTANTS
  Probes,       \* the probes of a batch, 1 .. probeCount
  MaxAttempts,  \* attempts of a probe
  MaxTries,     \* attempts of the comparator
  Blockers,     \* bound: the policy blockers the plans may trigger
  Elsewhere     \* bound: what other commands do to the run, of "cancel", "delete"

ASSUME InspectionAssumption ==
  /\ Probes \subseteq Nat /\ IsFiniteSet(Probes) /\ Cardinality(Probes) \in 1 .. 3
  /\ MaxAttempts \in Nat \ {0} /\ MaxTries \in Nat \ {0}
  /\ Blockers \cap {"divergence", "degraded"} = {}
  /\ Elsewhere \subseteq {"cancel", "delete"}

VARIABLES
  stage,     \* how far inspect() is
  aborted,   \* the signal of withTimeout is aborted
  run,       \* the state of the run row
  step,      \* what each probe is doing
  results,   \* its attempts so far
  held,      \* the result of an attempt whose worktree is being removed
  queue,     \* the probes that wait for a worktree: creationTail
  disk,      \* worktrees on disk
  handed,    \* worktreeResults: the trees that were created and cleaned up
  unclean,   \* those of them whose cleanup was not verified
  rows,      \* what the store holds about the inspection
  tries,     \* attempts of the comparator so far
  candidate, \* the comparison: who made it and the subjects it leaves open
  contract   \* the run is ready with a contract

probeVars == <<step, results, held, queue, disk, handed, unclean>>
modelVars == <<tries, candidate>>
vars      == <<stage, aborted, run, probeVars, rows, modelVars, contract>>

Stage == {"idle", "snapshot", "saving", "probing", "recording", "comparing", "normalizing",
          "deciding", "translating", "concluding", "presenting", "closing", "ended"}
Result  == {"completed", "failed", "cancelled", "violation"}
Tree    == Probes \X (1 .. MaxAttempts)
Subject == {"divergence"}
Decision == Blockers \cup Subject \cup {"degraded"}
NoCandidate == [by |-> "nobody", open |-> {}]
NoRows == [trees |-> <<>>, attempts |-> <<>>, plans |-> {}, comparison |-> NoCandidate,
           decisions |-> {}, presentation |-> "none"]

TypeOK ==
  /\ stage \in Stage /\ aborted \in BOOLEAN
  /\ run \in StoredState
  /\ step \in [Probes -> {"queued", "running", "cleaning", "done"}]
  /\ results \in [Probes -> Seq(Result)] /\ \A p \in Probes : Len(results[p]) <= MaxAttempts
  /\ held \in [Probes -> Result \cup {"none"}]
  /\ queue \in Seq(Probes) /\ Len(queue) <= Cardinality(Probes)
  /\ disk \subseteq Tree /\ handed \subseteq Tree /\ unclean \subseteq handed
  /\ DOMAIN rows.trees \subseteq Tree
  /\ \A t \in DOMAIN rows.trees : rows.trees[t] \in {"pending", "removed", "failed"}
  /\ rows.plans \subseteq Probes /\ rows.decisions \subseteq Decision
  /\ rows.presentation \in {"none", "available", "unavailable"}
  /\ tries \in 0 .. MaxTries
  /\ candidate \in [by : {"nobody", "model", "fallback"}, open : SUBSET Subject]
  /\ contract \in BOOLEAN

(* The probes start in order, and each asks for a worktree before it waits.    *)
InOrder(S) ==
  {s \in [1 .. Cardinality(S) -> S] : \A i, j \in DOMAIN s : i < j => s[i] < s[j]}

Init ==
  /\ stage = "idle" /\ aborted = FALSE /\ run = "absent"
  /\ step = [p \in Probes |-> "queued"]
  /\ results = [p \in Probes |-> <<>>]
  /\ held = [p \in Probes |-> "none"]
  /\ queue \in InOrder(Probes)
  /\ disk = {} /\ handed = {} /\ unclean = {}
  /\ rows = NoRows
  /\ tries = 0 /\ candidate = NoCandidate /\ contract = FALSE

-----------------------------------------------------------------------------
(* The run row.  Every transition names the version it expects: it succeeds    *)
(* exactly when the row is still in the state the inspection left it in.       *)

HasRow == run \notin NoRow

(* failActiveRun, and the finally of inspect: the session is closed last.      *)
Abandon ==
  /\ run' = IF HasRow /\ run \notin Terminal THEN "failed" ELSE run
  /\ stage' = "closing"

Advance(from, to, next) ==
  IF run = from
  THEN run' = to /\ stage' = next
  ELSE Abandon

(* Writes below the run row fail when the run was deleted.                     *)
Store(next, at) ==
  IF HasRow
  THEN rows' = next /\ stage' = at /\ UNCHANGED run
  ELSE Abandon /\ UNCHANGED rows

(* The session is opened and the snapshot prepared; then the run is created,   *)
(* or the failure leaves no run.                                               *)
Prepare ==
  /\ stage = "idle"
  /\ \/ run' = "created" /\ stage' = "snapshot"
     \/ stage' = "closing" /\ UNCHANGED run
  /\ UNCHANGED <<aborted, probeVars, rows, modelVars, contract>>

(* ingestEvent run.snapshotting; then saveSnapshot and run.probing.            *)
BeginSnapshot ==
  /\ stage = "snapshot"
  /\ Advance("created", "snapshotting", "saving")
  /\ UNCHANGED <<aborted, probeVars, rows, modelVars, contract>>

BeginProbing ==
  /\ stage = "saving"
  /\ Advance("snapshotting", "probing", "probing")
  /\ UNCHANGED <<aborted, probeVars, rows, modelVars, contract>>

-----------------------------------------------------------------------------
(* The probes.                                                                 *)

Attempt(p) == Len(results[p]) + 1
TreeOf(p)  == <<p, Attempt(p)>>

(* Mutant of Counted: an attempt that got no worktree is not counted.          *)
OnlyRuns(p, r) == IF r = "failed" /\ step[p] = "queued" THEN results[p] ELSE Append(results[p], r)

Counted(p, r) == Append(results[p], r)

(* An attempt is over.  The next one starts unless this one completed or broke *)
(* containment, or it was the last; when the batch was cancelled meanwhile the *)
(* next attempt is recorded as cancelled without a worktree.  rest is the queue*)
(* without p.                                                                  *)
Conclude(p, r, rest) ==
  LET so == Counted(p, r)
      last == r \in {"completed", "violation"} \/ Len(so) = MaxAttempts
  IN /\ results' = [results EXCEPT ![p] = IF ~last /\ aborted THEN Append(so, "cancelled") ELSE so]
     /\ step' = [step EXCEPT ![p] = IF last \/ aborted THEN "done" ELSE "queued"]
     /\ queue' = IF last \/ aborted THEN rest ELSE Append(rest, p)

(* createDisposableWorktree, one at a time: the tree is handed over, or the    *)
(* creation fails and is undone, or the undoing fails as well and the tree     *)
(* stays; the caller cannot tell the last two apart.                           *)
CreateWorktree(p) ==
  /\ stage = "probing" /\ queue # <<>> /\ p = Head(queue)
  /\ \/ /\ disk' = disk \cup {TreeOf(p)}
        /\ step' = [step EXCEPT ![p] = "running"]
        /\ queue' = Tail(queue)
        /\ UNCHANGED results
     \/ Conclude(p, "failed", Tail(queue)) /\ UNCHANGED disk
     \/ Conclude(p, "failed", Tail(queue)) /\ disk' = disk \cup {TreeOf(p)}
  /\ UNCHANGED <<stage, aborted, run, held, handed, unclean, rows, modelVars, contract>>

(* How runPlanProbe settles: a plan that parses; a failure of the protocol, of *)
(* the artifact or of the turn, its timeout among them; a denied request or    *)
(* effect; and, once the signal is aborted, cancellation.                      *)
Settles == {"completed", "failed", "violation"}
           \cup (IF aborted THEN {"cancelled"} ELSE {})

RunProbe(p) ==
  /\ stage = "probing" /\ step[p] = "running"
  /\ \E r \in Settles : held' = [held EXCEPT ![p] = r]
  /\ step' = [step EXCEPT ![p] = "cleaning"]
  /\ UNCHANGED <<stage, aborted, run, results, queue, disk, handed, unclean, rows, modelVars, contract>>

HandOver(p) == handed \cup {TreeOf(p)}

(* cleanupDisposableWorktree: the tree is removed, or not, or it is removed and*)
(* the source checkout cannot be shown unchanged.  A failed cleanup turns the  *)
(* attempt into a containment violation, whatever it was.                      *)
CleanUp(p) ==
  /\ stage = "probing" /\ step[p] = "cleaning"
  /\ \E removed, verified \in BOOLEAN :
       LET clean == removed /\ verified
       IN /\ disk' = IF removed THEN disk \ {TreeOf(p)} ELSE disk
          /\ unclean' = IF clean THEN unclean ELSE unclean \cup {TreeOf(p)}
          /\ handed' = HandOver(p)
          /\ Conclude(p, IF clean THEN held[p] ELSE "violation", queue)
  /\ held' = [held EXCEPT ![p] = "none"]
  /\ UNCHANGED <<stage, aborted, run, rows, modelVars, contract>>

-----------------------------------------------------------------------------
(* The batch: recordProbeBatch writes every tree and its cleanup, then the     *)
(* attempts; then the batch decides whether it may be compared.                *)

Settled == \A p \in Probes : step[p] = "done"

(* Mutant of Suspect: too few plans are noticed, a suspect one is not.         *)
SuspectIgnored == FALSE

(* Some cleanup failed, or some attempt broke containment: no plan is used.    *)
Suspect ==
  \/ unclean # {}
  \/ \E p \in Probes : \E n \in 1 .. Len(results[p]) : results[p][n] = "violation"

Plans == IF Suspect THEN {}
         ELSE {p \in Probes : results[p] # <<>> /\ results[p][Len(results[p])] = "completed"}

Degraded == Cardinality(Plans) = 2
Blocked  == Suspect \/ Cardinality(Plans) < 2

FinishBatch ==
  /\ stage = "probing" /\ Settled
  /\ stage' = "recording"
  /\ UNCHANGED <<aborted, run, probeVars, rows, modelVars, contract>>

Before(t, u) == t[1] < u[1] \/ (t[1] = u[1] /\ t[2] < u[2])

Unrecorded == handed \ DOMAIN rows.trees
Pending    == {t \in DOMAIN rows.trees : rows.trees[t] = "pending"}

With(t, status) ==
  [rows EXCEPT !.trees = [u \in DOMAIN rows.trees \cup {t} |->
                            IF u = t THEN status ELSE rows.trees[u]]]

RecordTree ==
  /\ stage = "recording" /\ Pending = {}
  /\ \E t \in Unrecorded :
       /\ \A u \in Unrecorded \ {t} : Before(t, u)
       /\ Store(With(t, "pending"), stage)
  /\ UNCHANGED <<aborted, probeVars, modelVars, contract>>

(* Mutant of Outcome: only a tree that is still there counts as failed.        *)
Hopeful(t) == "removed"

Outcome(t) == IF t \in unclean THEN "failed" ELSE "removed"

RecordCleanup ==
  /\ stage = "recording"
  /\ \E t \in Pending : Store(With(t, Outcome(t)), stage)
  /\ UNCHANGED <<aborted, probeVars, modelVars, contract>>

RecordAttempts ==
  /\ stage = "recording" /\ Pending = {} /\ Unrecorded = {} /\ rows.attempts = <<>>
  /\ Store([rows EXCEPT !.attempts = results], stage)
  /\ UNCHANGED <<aborted, probeVars, modelVars, contract>>

(* Mutant of Overdue: an inspection that has an answer may return it late.     *)
OverdueWithoutAnswer == aborted /\ rows.decisions = {}

(* throwIfAborted, and withTimeout, whose timeout wins over a late result.     *)
Overdue == aborted

SavePlans ==
  /\ stage = "recording" /\ rows.attempts # <<>>
  /\ IF Overdue \/ Blocked
     THEN Abandon /\ UNCHANGED rows
     ELSE Store([rows EXCEPT !.plans = Plans], "comparing")
  /\ UNCHANGED <<aborted, probeVars, modelVars, contract>>

-----------------------------------------------------------------------------
(* The comparison and the review.                                              *)

(* bindCandidate: an answer that refers to the plans, their probes and their   *)
(* evidence alone; it may leave subjects open.                                 *)
Bound == [by : {"model"}, open : SUBSET Subject]

(* createManualComparisonFallback: one unknown, left to a person.  It counts as*)
(* a divergence here: each of them becomes a decision.                         *)
Fallback == [by |-> "fallback", open |-> Subject]

(* runComparison returned, also when the signal was aborted meanwhile.         *)
CompareAnswers ==
  /\ stage = "comparing"
  /\ \E answer \in Bound : candidate' = answer
  /\ stage' = "normalizing"
  /\ UNCHANGED <<aborted, run, probeVars, rows, tries, contract>>

(* Anything else is an attempt that failed, retried unless the inspection was  *)
(* cancelled; after the last one the comparison falls back.                    *)
CompareFails ==
  /\ stage = "comparing"
  /\ tries' = tries + 1
  /\ IF aborted
     THEN Abandon /\ UNCHANGED candidate
     ELSE IF tries' = MaxTries
     THEN candidate' = Fallback /\ stage' = "normalizing" /\ UNCHANGED run
     ELSE UNCHANGED <<stage, run, candidate>>
  /\ UNCHANGED <<aborted, probeVars, rows, contract>>

SaveComparison ==
  /\ stage = "normalizing"
  /\ Store([rows EXCEPT !.comparison = candidate], "deciding")
  /\ UNCHANGED <<aborted, probeVars, modelVars, contract>>

(* Mutant of Review: reduced coverage is not put to a person.                  *)
ReviewFullCoverage(found) == found \cup candidate.open

(* normalizeReview: the policy blockers, the subjects the comparison leaves    *)
(* open, and the reduced coverage of a batch of two plans.                     *)
Review(found) ==
  found \cup candidate.open \cup (IF Degraded THEN {"degraded"} ELSE {})

SaveDecisions ==
  /\ stage = "deciding"
  /\ \E found \in SUBSET Blockers :
       Store([rows EXCEPT !.decisions = Review(found)], "translating")
  /\ UNCHANGED <<aborted, probeVars, modelVars, contract>>

(* runReviewTranslation returned in time and the answer binds to the decisions.*)
TranslationAnswers ==
  /\ stage = "translating" /\ ~aborted
  /\ Store([rows EXCEPT !.presentation = "available"], "concluding")
  /\ UNCHANGED <<aborted, probeVars, modelVars, contract>>

(* Otherwise the review is stored as untranslated, unless it is overdue.       *)
TranslationFails ==
  /\ stage = "translating"
  /\ IF Overdue
     THEN Abandon /\ UNCHANGED rows
     ELSE Store([rows EXCEPT !.presentation = "unavailable"], "concluding")
  /\ UNCHANGED <<aborted, probeVars, modelVars, contract>>

(* The end of inspect(), withTimeout, and setBlockingDecisionsAndTransition.   *)
EnterComparing ==
  /\ stage = "concluding"
  /\ IF Overdue THEN Abandon ELSE Advance("probing", "comparing", "presenting")
  /\ UNCHANGED <<aborted, probeVars, rows, modelVars, contract>>

(* The run goes to a reviewer, or straight to the approval of a contract.      *)
Present ==
  /\ stage = "presenting"
  /\ IF rows.decisions # {}
     THEN Advance("comparing", "needs_review", "closing") /\ UNCHANGED contract
     ELSE /\ Advance("comparing", "ready_for_approval", "closing")
          /\ contract' = (run' = "ready_for_approval")
  /\ UNCHANGED <<aborted, probeVars, rows, modelVars>>

Close ==
  /\ stage = "closing" /\ stage' = "ended"
  /\ UNCHANGED <<aborted, run, probeVars, rows, modelVars, contract>>

-----------------------------------------------------------------------------
(* What the process does not decide.                                           *)

(* The timer of withTimeout fires while the pipeline waits for something.      *)
Abort ==
  /\ ~aborted
  /\ \/ stage = "probing" /\ ~Settled
     \/ stage \in {"comparing", "translating"}
  /\ aborted' = TRUE
  /\ UNCHANGED <<stage, run, probeVars, rows, modelVars, contract>>

(* Another command cancels the run, or deletes it with everything below it,    *)
(* which deleteRun refuses while a worktree row is pending.                    *)
CancelElsewhere ==
  /\ "cancel" \in Elsewhere
  /\ HasRow /\ run \notin Terminal
  /\ run' = "cancelled"
  /\ UNCHANGED <<stage, aborted, probeVars, rows, modelVars, contract>>

DeleteElsewhere ==
  /\ "delete" \in Elsewhere
  /\ HasRow /\ Pending = {}
  /\ run' = "deleted" /\ rows' = NoRows /\ contract' = FALSE
  /\ UNCHANGED <<stage, aborted, probeVars, modelVars>>

Inspect ==
  \/ Prepare \/ BeginSnapshot \/ BeginProbing
  \/ \E p \in Probes : CreateWorktree(p) \/ RunProbe(p) \/ CleanUp(p)
  \/ FinishBatch \/ RecordTree \/ RecordCleanup \/ RecordAttempts \/ SavePlans
  \/ CompareAnswers \/ CompareFails \/ SaveComparison \/ SaveDecisions
  \/ TranslationAnswers \/ TranslationFails
  \/ EnterComparing \/ Present \/ Close

Next == Inspect \/ Abort \/ CancelElsewhere \/ DeleteElsewhere

Spec == Init /\ [][Next]_vars

(* Every wait of the pipeline has a timer of its own (a probe turn, a model    *)
(* turn, a request), and the rest is synchronous: the inspection keeps moving. *)
(* The timer of the whole inspection and other commands may be absent.         *)
FairSpec == Spec /\ WF_vars(Inspect)

-----------------------------------------------------------------------------
(* Properties.                                                                 *)

Reviewed == {"comparing", "needs_review", "ready_for_approval"}

(* One probe that broke containment, or one worktree whose cleanup was not     *)
(* verified, taints the batch of all of them: no plan of it is stored and the  *)
(* run does not go on to review (ProbeCoordinator.run, inspect).               *)
SuspectBatchLeavesNoPlan ==
  \/ unclean # {}
  \/ \E p \in Probes : \E n \in 1 .. Len(results[p]) : results[p][n] = "violation"
  => rows.plans = {} /\ run \notin Reviewed

(* A run the inspection hands over rests on what the store holds: a comparison *)
(* of at least two stored plans and a presentation.  It waits for a reviewer   *)
(* exactly when it has decisions, and skips the reviewer only when every probe *)
(* completed and the model itself left nothing open (inspect, normalizeReview).*)
ReviewIsBacked ==
  run \in {"needs_review", "ready_for_approval"} =>
    /\ Cardinality(rows.plans) >= 2
    /\ rows.comparison # NoCandidate /\ rows.presentation # "none"
    /\ (run = "ready_for_approval") = contract
    /\ contract = (rows.decisions = {})
    /\ contract => rows.plans = Probes /\ rows.comparison = [by |-> "model", open |-> {}]

(* When the inspection has ended, every worktree it used has a settled row, and*)
(* no row says "removed" of a worktree that is still there (recordProbeBatch). *)
TreesAreAccounted ==
  /\ stage = "ended" /\ HasRow => handed = DOMAIN rows.trees /\ Pending = {}
  /\ \A t \in DOMAIN rows.trees : rows.trees[t] = "removed" => t \notin disk

(* An inspection that timed out never reaches a reviewer, however late and from*)
(* whichever wait its answers still arrive (withTimeout, throwIfAborted).      *)
AbortIsFinal == aborted => run \notin Reviewed

(* An inspection ends, whatever fails on the way and however often: every probe*)
(* settles, so does the comparator, and nothing waits for a worktree in vain.  *)
InspectionEnds == <>(stage = "ended")
=============================================================================
