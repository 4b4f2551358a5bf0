# PromptTripwire in TLA+

PromptTripwire puts a gate between a coding task and its execution.  It probes a
repository with several planning turns, turns their disagreements into
questions for a human, builds a contract from the answers, and executes only a
contract the human has approved, in a disposable worktree, pausing on every
deviation.  This directory holds TLA+ modules of the parts of it where the
difficulty is in the order of things (several processes and browser tabs over
one SQLite store, a checkout somebody works in, retries, late requests,
timeouts, crashes and restarts) and of the decisions everything else rests on:
what needs a question, what a contract covers, what the gate lets through.

Paths below are relative to the repository; `controller.ts` is
`apps/controller/src/controller.ts`, `repository.ts` is
`packages/persistence/src/repository.ts`, `runtime.ts` is
`packages/contract-runtime/src/runtime.ts`, and `client.ts`, `event-ledger.ts` and
`transport.ts` are those of `packages/codex-app-server/src`.

## Inventory

| Component | State it keeps | Operations | What is hard | Modelled in |
| --- | --- | --- | --- | --- |
| Run state machine (`domain/src/state-machine.ts`) | none: a table of transitions | `transitionRun`, `startExecution` | fourteen states; terminal means terminal | `RunStates`, `ApprovalGate` |
| Run store (`repository.ts`) | run row with a version, decision points, human decisions, contracts, retry keys, review capability, worktree and execution rows | one `BEGIN IMMEDIATE` transaction per operation, compare-and-swap on the version, retry keys in the same transaction | requests built from an old read; retries; two tabs; deletion | `RunLifecycle`, `Storage`, `Inspection` |
| Retention, deletion, artifacts (`repository.ts`, `artifacts.ts`) | deadlines, pins, shared snapshots, files by content hash | archive, purge, delete, save and read a report | rows and files are written in separate steps by several processes | `Storage` |
| Controller (`controller.ts`, `timeout.ts`) | `started`, `activeExecutionIds` | `start`, `stop`, `inspect`, `run`, `decide`, `defer`, `reopenReview`, `approve`, `amend`, `cancel`, `report`, `deleteRun` | store reads before an await, used after it; recovery by another process; timeouts | `RunLifecycle`, `ExecutionControl`, `Inspection` |
| Contract execution port (`runtime.ts`) | active client per run | `start`, `interrupt` | worktree, row, outcome and cleanup in order, on every path | `ExecutionControl`, `ExecutionTurn` |
| Execution gate, change monitor, command parser (`contract-runtime/src`) | announced items, deviations, actions, checks | approval requests, item and diff observation, checks, the final look at the worktree | correlating approvals, items and diffs; files nobody announced | `ContractGate` |
| App Server client, ledger, transport (`codex-app-server/src`) | pending requests, turns, ledger | `request`, `receive`, `waitForTurn`, `interrupt`, `close` | late, duplicated and reordered messages | `Connection`, `EventLedger`, `ExecutionTurn` |
| Probe coordinator, inspection pipeline (`probe-coordinator.ts`, `inspection-pipeline.ts`) | probe attempts, worktrees, the chain of their creations | three concurrent probes with one retry, comparison, decision points, translation | partial failure and cancellation of siblings; cleanup on every path | `Inspection` |
| Comparator (`openai-comparator/src`) | attempts | at most two attempts, manual fallback | a fallback must still block | `Inspection` |
| Normalizer, contracts (`normalizer.ts`, `contracts.ts`) | none | questions from blockers, divergences and unknowns; a contract from answers | two sources of one question; support of an option | `Boundary` |
| Policies (`policy/src`) | none | path patterns, command classes, effects a task or plan states | a negation, a quotation or a second clause that hides an effect | `PathPolicy`, `CommandPolicy`, `PlanPolicy` |
| Review listener, tab, `review` command (`ui/src/server.ts`, `web/main.tsx`) | capability, streams, timers; what the tab displays | request boundary, mutations, event stream, lifecycle poll, close | supersession with requests in flight; a display read in two parts | `DecisionInbox` |
| Snapshots, worktrees (`git-snapshot/src`) | the checkout, worktrees, branches, directories | prepare, check, create, clean up | the checkout is read in pieces while a person edits it; undoing half a creation | `Checkout` |
| Redaction, hashing, schemas | none | pure functions over strings | unit-tested | no |
| Compatibility profile | none | compares schemas of an external program | external | no |
| Distribution, scripts, plugin | none | packaging | no protocol | no |

How they interact: the CLI creates one controller per process over its own
connection to the shared database.  The controller calls the inspection port and
the execution port, which call the App Server client.  The review listener calls
the controller for every mutation, with a capability generation the store checks
again.  Nothing but the database, the artifact directory and the checkout is
shared between processes; within one process JavaScript runs everything between
two awaits without interleaving.

What can go wrong in each is listed under `hazards` in `PROJECT.json`, at the line
where it bites, with the properties that would show it.

## Modules

| Module | Models | Role |
| --- | --- | --- |
| `RunStates` | `state-machine.ts` | the states and the transition table, used by the others |
| `ApprovalGate` | nothing in particular | the promise: an execution needs a contract that was offered and granted, once; after a halt a new contract is needed; what is over stays as it ended, until it is deleted |
| `RunLifecycle` | `repository.ts`, and the review and approval operations of `controller.ts` | the store of one run and the clients that act on it; implements `ApprovalGate` |
| `ExecutionControl` | `start`, `run`, `stop`, `cancel`, `report` of `controller.ts`, `timeout.ts`, `runtime.ts` | several processes that execute the contracts of one run |
| `EventLedger` | `event-ledger.ts` | which notifications of a turn the client takes for true |
| `Connection` | the requests of `client.ts` | answers, timeouts, protocol failure |
| `ExecutionTurn` | `runContractExecution` and the handlers of `client.ts`, the turn, checks and outcome of `runtime.ts` | one execution against an App Server that may send anything; what `FinishTurn` of `ExecutionControl` is in detail; implements `ExecutionPromise` |
| `ExecutionPromise` | nothing in particular | the promise of one execution: work is taken up and finished once, before the turn ends; checks are run on the finished work of a turn inside the contract; one outcome, drawn from what does not change any more, which can then only become a failure |
| `Inspection` | `inspect`, the pipeline, the coordinator, the comparator's attempts, the translation, the timeout around them | one inspection from the snapshot to the review or the contract |
| `Checkout` | `snapshot-service.ts`, `worktrees.ts` | a checkout that changes while it is read, and one worktree of it |
| `DecisionInbox` | `server.ts`, `main.tsx`, `serveReview` of the CLI | listeners with their tabs over the row of a run |
| `PathPolicy`, `CommandPolicy`, `PlanPolicy` | `policy/src` | pure operators, each extending the one before it where it uses it |
| `ContractGate` | `execution-gate.ts`, `change-monitor.ts`, `command-parser.ts`, the end of `runtime.ts` | one execution under a contract, against a free agent |
| `Boundary` | `normalizer.ts`, `contracts.ts` | composes the policies, the questions, the answers and `ContractGate`: from plans to files |
| `Storage` | retention, deletion and reports of `repository.ts`, `artifacts.ts` | several processes over one database and one artifact directory |
| `X_proofs` | | theorems about `X`: `RunLifecycle`, `ExecutionControl`, `ExecutionTurn`, `Storage`, `Inspection`, `Checkout`, `DecisionInbox`, `Boundary` |
| `MC_X` | | the instance of `X` that TLC checks |

### RunLifecycle

The variables are the columns that decide anything: the run row (`state`,
`version`, `active`, `blocking`, `pinned`), the decision points (`points`,
`status`), the answers (`answer`), the contracts (`issued`, `approved`, and in
`basis` the answers each was built from), the retry keys (`keys`) and the review
lease (`lease`).  `current` says whether the working tree still has the snapshot
the run was inspected on.  A contract is its version number; a question and an
answer are model values; an answer is distinguished only by whether it is one of
the options that cancel the run.

Every store operation is a transaction, hence one action, with the checks of the
code as guards; a transaction that throws is rolled back, hence no step at all.
What is *not* atomic is modelled by `slot`: a client reads the run and builds a
request (`AskDecide`, `AskApprove`, ...), with the version it read; the request is
carried out by a later step (`DecideReady`, `ApproveContract`, ...), any number of
commits of others later, and it stays in the slot, so that it may be sent again.
`KeyTaken` is the lookup of the retry key: a request that already took effect is a
replay and changes nothing.  A listener's request carries its capability
generation, and the operator `Boundary` is the store's check of it.  `ChooseOutcome` is the part
of `decide()` that runs before the transaction.  `RefuseStaleStart` is the part of
`run()` that runs after a refused one.

Two things are coarser than the code.  The writes of `inspect()` name the version
its own previous write returned; in the states concerned every other write ends
the run, so the state stands for the version.  And an inspection whose run was
cancelled by another process may still save its decision points, which nothing
reads any more: `SaveDecisionPoints` leaves that out.

### ExecutionControl

The store is reduced to what an execution touches: the run row, and per contract
the execution row (`row`), the worktree row (`tree`) and, for the run, the state
its stored report shows (`report`).  A contract is started at most once (that is
`ImplementsGate`), so it names its execution.  `task[k]` is the call of `run()` for
contract `k` with its program counter, the process it runs in, the outcome it will
return, whether `withTimeout` fired (`late`) and the version it read (`seen`).
`helper[p]` is a `stop()`, `cancel()` or `report()` in progress.

Each store operation is a step.  Steps of one process that the code runs without
an await between them must not interleave with each other: `InSection` says when a
task is inside such a stretch, and `Free`, `TaskMay` and `HelperMay` keep the rest
of that process still.  Other processes, and crashes, come in between everywhere.
`stop()` closes the store, so what is left of a `run()` in that process can no
longer write: `Leave` is shared by `StopController` and `Crash`.  The turn, the
checks and the gate are one step, `FinishTurn`, with any outcome; cleaning up may
turn it into a failure.  Compatibility sessions and snapshot preparation before
`startExecution` are left out (they write nothing but what `RunLifecycle` has), and
so are failures of the store itself (a full disk, a corrupted file).

### ExecutionTurn

The App Server is another program and is not trusted: in every state it may answer
any request, send any of `Notices` and make any of `Asks`, again and out of order.
`Connection` has the promise of each request (`request`), the answers already taken
(`completed`), `protocolFailure` (`failure`) and the transport (`link`).  Identifiers
are never reused, so a request is named by what it is for: starting the thread and
the turn, the interrupt of a pause, the interrupt after a failed wait (`giveUp`), the
interrupt a user asks for (`stop`), and one for each required check.  Everything
`ProtocolEventLedger` keeps is a function of the notifications it accepted, so `seen`
is that set, and `Accepts` is `accept()`.  Items, commands and diffs carry the verdict
of the contract on them, which the code computes from paths and commands.

One message is one step, since the handlers are synchronous.  What the code puts
off is a step of its own: the handling of an approval request (a microtask), the
pause after it (`setTimeout`), and whatever follows an `await`.  Lines of one chunk
are handled before any of these, so that a status may be overwritten, and a request
repeated, before the first is looked at.  `pc` is how far `start()` has come.  It is
"crashed" when an answer to the App Server cannot be sent, or a malformed request is
repeated before it is handled: those rejections have no handler and end the process,
and the store is left as `Crash` of `ExecutionControl` leaves it.

Left out: a second turn on the execution's thread, token usage, the canary, probe,
comparison and translation turns on the same client, failures of `updateExecution`,
and the tick between `stdin.end()` and its destruction, in which a write would end
the process.  Whether the worktree has a change outside the contract when it is
inspected is free, and so is whether the contract allows a required check.

### Inspection

`stage` is how far `inspect()` is; each stage ends in an action that has the store
operations of the code in their order, and any of them may fail and lead to the
`catch` of `inspect()`.  A probe goes round `queued`, `running`, `cleaning` and `done`;
`queue` is the chain of worktree creations (`creationTail`), which lets one creation
at a time pass while turns run side by side.  A worktree is named by probe and
attempt; `disk` is what exists, `handed` what the coordinator reports, `unclean` those
whose cleanup was not verified.  An attempt that failed is repeated, one that broke
containment is not and taints the batch.  `rows` is what the store holds of the inspection.
`aborted` is the signal of `withTimeout`: it may be set in any stage, and what is still
under way sees it where the code looks at it.  Another process may cancel or delete
the run between any two steps (`Elsewhere`).  The turns themselves are steps with any
result.  The contents of plans are reduced to the policy blockers they trigger and to
whether the comparison leaves a subject open.

### Checkout

A file is the number of the edit that wrote it, and a commit or a working tree is a
function from files to such numbers.  `seen` holds what has been read; `ReadsOf` lists
what each stage of `prepareWithParameters` reads, and within a stage reads are
concurrent (`Promise.all`), so any order happens.  Between any two reads a person may
edit or commit.  `Compare` is the second look.  The worktree goes through
creating, applying the patch, verifying, and, when a step fails, through undoing what
is there, in the code's order; its removal names the first step that failed.  A `git
worktree add -b` makes the branch before the worktree, so one that fails may leave the
branch (`AddTree`), which the undoing then does not look for (`Undo`).  Coarser:
two files, of which one stands for all instruction files; an edit that restores an
earlier content is not in the model, as no look can see it.  Left out: a reading that
fails by itself, which ends the operation where nothing exists yet or, while a creation
is undone, is reported like a failed cleanup; and git's own entry of a worktree, which
it prunes.

### DecisionInbox

An inbox is a CLI process with a listener and a tab.  `stage`, `gen`, `revoked` and `due`
are the process and its timers; `post` is a mutation whose body has still to arrive, or
which has passed the first boundary and awaits the compatibility check; `stream` is the
version the event stream last sent; `loads` are answers under way to the tab, which
arrive in any order; `shown` is what it displays.  A review answer is read in two parts
(`ReadRow`, `ReadDetails`), since `toReviewDto` reads decisions and contract after the
row.  `rival` is a listener of the same run in another process; `Elsewhere` is any other
move of the row the transition table allows.  Each action is what the code does between
two awaits.  Which question is answered is the business of `RunLifecycle`.

### Policies, ContractGate and Boundary

A path is a sequence of segments and a segment a sequence of characters;
`SegmentMatches` and the path matcher are translated as the loops they are and compared
with what a pattern means.  A command is a program and its words, with what each word
points to when taken for a path; the class it gets follows the tables and special
cases of `command-policy.ts`.  Which of its words are operands follows the option tables
of each program, in which both cases of a letter stand where the code compares options in
lower case.  A text is the set of occurrences of triggers in it, each
with the words around it that make it harmless (negated, quoted, documented, tested) or
take that back; the rules that weigh these words are the code's.  Regular expressions
and the tokenizer, which find the occurrences, are not modelled: every combination of
occurrences a text could have is an input instead.

`ContractGate` has one action per request and notification the gate judges, and a diff
that names no file is one of its own (`ObserveNamelessDiff`).  The agent
announces what it likes; what it writes is visible to nothing before the end of the
turn, so `Left` chooses the content of every file there.  Checks, the final look at the
worktree (`ChangedPaths`, with files git ignores out of sight) and the outcome follow
in the order of `runtime.ts`.  `Boundary` puts the review before it: `NormalizeReview` makes the
questions, `Answer` the answers, `Approve` the contract.  The protocol around the gate is
`ExecutionTurn`'s; there a verdict is free, here it is computed.

### Storage

A run is reduced to the phases retention and deletion tell apart.  `deleteRun` is five
steps (state, worktrees, artifact rows, transaction, removal of files), `saveReport`
three (two files, transaction), a purge a list of runs found by one query, then
deleted one by one; a transaction is atomic and a process may die between any two
steps.  Identifiers of runs are never reused.  A report's content has the id of its run
in it, so its hash belongs to one run, while a snapshot is shared by all runs with the
same inputs.

## Runs

Run any of them in this directory with `tlc -config <cfg> <module>`.

| Run | Module | Instance | Shows |
| --- | --- | --- | --- |
| `lifecycle` | `MC_RunLifecycle` | a CLI and a tab, 2 questions, version at most 10, 2 contracts, 1 capability | `ReviewAgreement`, `ContractQuotesAnswers`, `RunsUnderApproval`, `NewestContractIsActive`, `AnswersStand`, `ImplementsGate` |
| `control` | `MC_ExecutionControl` | 2 processes, 2 contracts, stop, cancel and report with the first, fair; 842 000 states | `CompletionHasEvidence`, `ReturnedExecutionsAreAccounted`, `ReportTellsTheOutcome`, `ConcludedRowsStand`, `RunSettles` |
| `turn` | `MC_ExecutionTurn` | 1 item, 1 required check, 4 notifications and 2 kinds of requests, fair; 743 000 states | `NothingWaitsInVain`, `CompletedMeansClean`, `ApprovalsAgree`, `ImplementsPromise`, `PauseEndsWait`, `ExecutionEnds` |
| `inspection` | `MC_Inspection` | 3 probes of 2 attempts, 2 comparator tries, 1 blocker, cancel and delete, fair; 1.9 million states | `SuspectBatchLeavesNoPlan`, `ReviewIsBacked`, `TreesAreAccounted`, `AbortIsFinal`, `InspectionEnds` |
| `checkout` | `MC_Checkout` | both content modes, both kinds of worktree, 3 edits; 2.6 million states | `PatchIsOneMoment`, `HandedOverAsApproved`, `LeftoversAreNamed` |
| `inbox` | `MC_DecisionInbox` | an inbox and a rival, 2 writes, 2 generations, 2 answers under way, fair | `OneInboxAccepts`, `ActsOnWhatIsShown`, `DisplayNeverGoesBack`, `RevokedIsSilent`, `InboxEnds`, `DisplayCatchesUp` |
| `boundary` | `MC_Boundary` | 3 reviews, 3 choices, 1 item, 2 events; 507 000 states | `EveryEffectIsAnswered`, `SupportIsStated`, `ChangesWerePlanned`, `AcceptedWritesWereDisclosed`, `RefusalsAreOnRecord`, `MatcherIsExact` |
| `storage` | `MC_Storage` | 2 processes, 2 runs with one snapshot, a retention and a clock of 1; 1.7 million states up to symmetry | `RowsHaveTheirFiles`, `SnapshotsGoWithTheLastRun`, `PurgeTakesOnlyWhatExpired` |
| `deletion` | `MC_RunLifecycle` | 2 processes, 1 question | **violated**: `DeletionSparesActiveRuns` |
| `completion` | `MC_ExecutionControl` | 2 processes, 2 contracts | **violated**: `OwnExecutionCompletes` |
| `superseded` | `MC_DecisionInbox` | as `inbox`, not fair | **violated**: `UiWritesHoldTheLease` |
| `collision` | `MC_Boundary` | as `boundary` | **violated**: `EveryReferenceIsKept` |

The type invariants of the eight proved modules are theorems, and no run repeats them.

Bounds.
* `lifecycle`: `MaxVersion` bounds a run's history.  Ten versions are enough for
  inspection (3), two answers and an offer (3), a reopening and a second round, or for
  approval, start, pause and an amended contract.  Two contracts are what it takes to
  confuse one with another, two questions what it takes for one to be the last.  One
  capability separates a current from a revoked generation, since the store compares
  for equality.
* `control`: two processes are what it takes for one to recover what the other still
  executes, two contracts what it takes for an old execution to meet a new one.
  `Commands` says who may stop, cancel or report with which contract: one process
  stops, the other cancels and reports, while the first contract is active, and what is
  under way then may meet the second.  The version is bounded by the contracts.
* `turn`: items do not interact, except that a turn may not complete while one is open;
  requests under different identifiers share only verdicts, which accumulate.  `Notices`
  are the start and the completion of the turn, the events of a file change inside the
  contract and a diff outside it; `Asks` are an approval of a file change and a request
  that cannot be read.  Command items, other statuses of a turn and the other requests
  are covered by the proofs of the safety properties, which hold for every subset.
* `inspection`: the pipeline starts three probes (`inspection-pipeline.ts:165`), and two are needed for a
  comparison, so a third may fail, be retried or be cancelled beside them.  Two attempts
  and two tries are the code's own numbers.
* `checkout`: three edits allow one before, one between and one after the two looks at a
  file, or an edit, its commit and another edit.
* `inbox`: a stale mutation needs one write, a display that could go back needs two;
  two generations are one takeover, two answers under way are what it takes to swap
  them.  Several inboxes of the model are covered by the proofs.
* `boundary`: one review hides an effect behind a harmless mention of it, one has plans
  that differ and word an effect alike in two fields, one asks for a check the contract
  will not let through.  Two events are an announcement and a request about it, in
  either order.  The agent knows one file only by a link to it, so a name and what it leads to
  differ; what a link leads to is fixed, so a link that is moved between an announcement
  and the write is outside the model.  For `MatcherIsExact` the `Samples` are all segments of up to three letters over two and all
  patterns of up to four characters: a star, what follows it, and a second star to go
  back to.
* `storage`: two runs with one snapshot are what it takes for one deletion to endanger
  the other; one tick separates the kept from the expired.  A run has one possible
  report (`Contents`), so that a report is replaced by an equal one; that one report is
  replaced by a different one is covered by the proof alone.

Deadlock is not checked: a run that was deleted, or has ended, really stops.
Symmetry is used in `completion` (processes) and `storage` (processes and runs), which
check no liveness.

Fairness (`FairSpec`).  In `ExecutionControl` a step of `run()` and of a `stop()`, `cancel()`
or `report()` in progress is weakly fair: nothing in a living process holds it back for
ever, since the App Server answers, closes, or is cut off by the execution timeout that
`withTimeout` puts around the turn.  `StartController` is weakly fair: after a crash
somebody eventually enters another command, and every command starts with
`controller.start()`.  `Timeout`, `Crash` and the commands a user may type are not
fair: they may never happen.  In `ExecutionTurn` the code that runs, the microtask
and the timers of requests and of a pause are weakly fair; the App Server, the
disconnect and the user are not, and the half-hour timer of the turn is not either:
`PauseEndsWait` holds without it, and `ExecutionEnds` assumes it in so many words.  In
`DecisionInbox` the timers and callbacks of the process (`Serve`, `LifecyclePoll`,
`CloseWhenDue`, `End`, `Push`, `ReadRow`, `ReadDetails`) and the delivery of an answer on the
loopback interface are weakly fair; the reviewer, the idle limit, a crash and the
rival are not.  In `Inspection` the steps of the inspection are weakly fair, since each
turn, git command and comparator call has a timer of its own; the timeout around the
whole and what other commands do are not.

## What the violated runs show

* `deletion`.  `deleteRun` (`repository.ts:1552`) looks at the state and the
  worktrees before it opens its transaction, and deletes by run id alone.
  A process that has checked an approved run deletes it after another process has
  started it.  `docs/SECURITY.md:382` says deletion is refused then.
* `completion`.  Every CLI command starts with `recoverInterruptedRuns`, which takes
  any running run for an interrupted one, so a second process pauses a run whose
  execution is alive.  If the run is then amended, approved and started again, the
  first execution, when it settles, finds the run running and completes it
  (`controller.ts:320`), while the execution of the approved contract is still in
  progress.  `docs/SPECIFICATION.md:584` lists what a run needs to complete.
  `CompletionHasEvidence` says what is left of the promise: *some* execution
  completed, with its worktree removed.
* `superseded`.  `approve` awaits its compatibility check and, when it fails, marks the
  run stale (`markCompatibilityStale`, `controller.ts:676-682`) by a transition that
  names no capability generation.  A listener whose capability was taken over
  meanwhile still writes.  `docs/DECISIONS.md:284` asks for the current generation in
  the same transaction.  `RevokedIsSilent` says what holds of all other writes.
* `collision`.  The id of a blocker is a hash of its trigger and descriptions
  (`packages/policy/src/deterministic-policy.ts:299`), while blockers are grouped by a key that keeps
  `compatibilityImpacts` apart.  An effect that one plan words in its summary and another
  lists as an impact gives two blockers with one id, of which the normalizer
  (`normalizer.ts:239`) keeps one.  `deterministic-policy.ts:1322-1323` says that every evidence
  reference remains visible.  `EveryEffectIsAnswered` says what holds: the effect itself
  is still asked about.

Other observations, which the models show or leave room for and which no property
states:

* `report()` (`controller.ts:692`) stores a report of the run it has read; an execution
  that completes in between loses the report with its checks and its diff
  (`docs/SPECIFICATION.md:706`).
* Nothing removes the worktree of an execution whose process died (`repository.ts:1502`
  looks at runs and execution rows only); its row stays pending and `deleteRun` refuses
  the run for ever (`docs/SECURITY.md:378`).  `deleteExpiredRuns` stops at the first run
  that cannot be deleted.
* An approval request that arrives after the outcome was drawn (`runtime.ts:356`) is
  declined and its deviation recorded, and the execution stays completed
  (`runtime.ts:426`, `docs/SPECIFICATION.md:584`).
* A run that is pinned between the purge's query (`repository.ts:1592-1602`) and its turn is
  deleted (`docs/SECURITY.md:377`).
* A worktree whose creation failed half-way and could not be undone has no row
  (`probe-coordinator.ts:111`, `docs/ARCHITECTURE.md:524`).
* When `git worktree add -b` fails after it has made the branch (`worktrees.ts:271-272`), the
  `catch` removes the temporary root alone (`worktrees.ts:289`), and nothing it compares
  afterwards lists branches: the caller is told of a git error and the branch stays.
  `LeftoversAreNamed` has this as its one exception.
* A snapshot that is to include a patch, but whose first look sees no change, has no patch,
  while its instruction hash is read from the working tree (`approved-files.ts:99-102`).  An
  edit before the fingerprint whose commit falls between the two git calls of the second
  look gives it the instructions of another moment than its commit; a worktree is
  then refused rather than handed over wrongly (`HandedOverAsApproved`).
* A statement of `dependencyChanges`, `compatibilityImpacts` or `unknowns` asks one fixed
  question, and `assumptions` are not looked at (`deterministic-policy.ts:1305-1339`): an effect
  that is stated only there is not asked about as such.
* A report that is saved while its run is deleted, or a crash between the transaction and
  the removal of files, leaves files without a row (`docs/SECURITY.md:380`).
* A check such as `pnpm lint` counts as a known verification when the contract is made,
  and its command as unknown when the agent runs it, so the run pauses.
* Files that git ignores are out of sight of the final look at the worktree, as
  `ChangesWerePlanned` says.

## Proofs

`RunLifecycle_proofs` proves, for every set of clients, listeners, questions and
answers and for every value of the bounds, that `IInv` is inductive and hence:
`TypeOK`, `ReviewAgreement`, `ContractQuotesAnswers`, `NewestContractIsActive`,
`RunsUnderApproval`, `AnswersStand`, `TerminalIsFinal`, and that the store
implements `ApprovalGate`.  The assumptions are `LifecycleAssumption` (listeners are
clients, the sentinels are not answers, the bounds are natural numbers) and
`NoRequestAssumption` (the idle slot is not a request).

The safety properties are not inductive alone.  `IInv` adds three facts.
`BeforeReview`: there is no contract, no approval and no answer before the first
review, all saved questions block when the comparison is over, and no contract is
active during a review.  `ContractsInOrder`: the contracts are numbered from 1
without a gap, which is what makes `active + 1`, `MAX(version) + 1` and a free number
the same thing.  `RequestsBehind`: no request is ahead of the run, a plain transition
only halts or ends a run, and an answer that was judged not to be the last one is
not the last one or is out of date, which is why `decide()` may choose the
outcome outside the transaction.  The refinement follows from `IInv` and the proof
that each action maps to a step of the gate or to a stutter.

`ExecutionControl_proofs` proves, for every set of processes, every set of commands
and every number of contracts, that `IInv` of `ExecutionControl` is inductive and
hence `TypeOK`, `CompletionHasEvidence`, `ReturnedExecutionsAreAccounted`,
`ReportTellsTheOutcome` and `ConcludedRowsStand`.  The assumption is
`ControlAssumption`.  The argument has three parts.  `AccountsInStep` ties what an
execution has recorded to how far it has come, which is why a second process that
recovers its row (live rows become paused) cannot make it look returned, and why
a row is written only while it may still change.  `OutcomeIsRecorded` carries the
completed outcome from the cleanup to the row and from the row to the return, so
that the run's own transition to completed finds it there.  `ReportersKnow` carries
the state a report will show from the transition, or from the read, to the write;
in between other processes may act, and the lemma `TerminalStays` says that none of
them brings a run back from its end.

`ExecutionTurn_proofs` proves, for every set of items, required checks, identifiers
and messages, that `IInv` of `ExecutionTurn` is inductive and hence `TypeOK`,
`NothingWaitsInVain`, `CompletedMeansClean` and `ApprovalsAgree`.  The assumption is
`TurnAssumption`.  `NothingWaitsInVain` is inductive with the types.
`CompletedMeansClean` needs four more facts.  `LedgerInOrder`: what the ledger took is
in order, whatever arrived.  `StatusFromLedger`: a status of completed came from a
notification the ledger took, after which it takes no more work.  `DeviationsSeen`:
without a deviation nothing outside the contract was taken.  `OutcomeDrawn`: the
outcome is drawn once from these.  `AnswersKept` ties each answer that was sent to
the one that is kept for its request.

It also proves `ImplementsPromise`, that an execution implements `ExecutionPromise`, for which
`IInv` has `ChecksAfterTurn`: checks are run only when the turn completed and nothing
outside the contract was seen of it.  Each notification the ledger takes is one step of
the promise (`TakingIsPromised`), as is each step of `start()` that it speaks of
(`PortIsPromised`); everything else is a stutter or the loss of the process
(`ElsewhereIsPromised`).  The outcomes an execution may return to `ExecutionControl`, and
that only one whose session started is completed, are those of the promise.

`Inspection_proofs` proves, for one to three probes, any number of attempts and tries and
any policy blockers (`InspectionAssumption`), `TypeOK`, `SuspectBatchLeavesNoPlan`, `ReviewIsBacked`,
`TreesAreAccounted` and `AbortIsFinal`.  Three facts carry them.  `BatchOK`: a probe that
is not done has an attempt left and waits in the queue at most once, and a worktree
handed over belongs to an attempt that is over.  `TreesOK`: the rows of
worktrees are those of the worktrees handed over, a row that says "removed" is of one
whose cleanup was verified, and all are settled before anything else is stored.
`BackingOK` with `ReviewOK`: what each later stage may rely on in the store, and that a
run under review has all of it and was not aborted.

`Checkout_proofs` proves, for any number of edits (`CheckoutAssumption`), `TypeOK`,
`PatchIsOneMoment`, `HandedOverAsApproved` and `LeftoversAreNamed`, the last with the
branch of a failed `git worktree add` as the one thing that may be left unnamed.  `SourceOK` says that
versions only grow and every moment lies in the past.  `PiecesOK` bounds each piece from
below by what was read before it and from above by what is read after it, so that two
equal looks enclose the pieces between them; `MomentOK` names the moment they were all
true in.  `CleanOK`, `SnapshotOK` and `TreeOK` carry that through creation and undoing.

`DecisionInbox_proofs` proves, for any set of inboxes and any bounds (`BoundsAssumption`),
`TypeOK`, `OneInboxAccepts`, `ActsOnWhatIsShown`, `DisplayNeverGoesBack` and `RevokedIsSilent`.
`LeaseOK`: a generation is issued once and never ahead of the stored one.  `SeenOK`: what
is shown and what is under way are versions the row has had, with details no older
than the row they came with; a mutation that expects the stored version therefore
meets details of that very version.

`Storage_proofs` proves, for any processes, runs, reports and retention
(`StorageAssumption`), `TypeOK`, `RowsHaveTheirFiles`, `SnapshotsGoWithTheLastRun` and
`PurgeTakesOnlyWhatExpired`.  `CallOK` says that what a call has found out stays true while
others act: the files a report has written exist as long as its run does, and a run on
a purge's list is `Doomed`: gone, or due.

`Boundary_proofs` proves, for every review, contract, agent and worktree, `TypeOK`,
`RefusalsAreOnRecord`, `EveryEffectIsAnswered`, `SupportIsStated`, `ChangesWerePlanned`,
`AcceptedWritesWereDisclosed`, `MatcherIsExact`, and `CompletedStaysInside`: an execution
that is completed ended by itself, all its checks passed, and every changed file is one
its contract lets it write.  `GateAssumption` has the constants make sense.
`ReviewAssumption` says that a text states finitely many things and that probes have ids
of their own, none of them "task" or "policy" (`probe-coordinator.ts:95`,
`comparator.ts:44`); with two probes of one id, or one called "task", `SupportIsStated`
does not hold.  `SampleAssumption` keeps stars out of the paths the matcher is compared
on, as the code does (`path-policy.ts:71`).

The invariant joins the state of the gate to that of the review.  `PhasesOK` says which phase
of the review goes with which part of the execution; `Completed` carries what was known
before the last step to the outcome.  `Asked`: the questions stand as they were put,
were all answered before the approval, and the contract is the one made of these
answers.  `Disclosed`: what an approved item last announced is writable still, or a
deviation says that it is not.  What these mean for the user rests on facts about the
data, proved in this order.

* The matcher.  `MatchSegmentsExactly`: for every path without stars and every pattern the
  loops end with the verdict of `Denotes`, which says what a pattern means without saying how to
  find out.  The proof reads both as ways to cut the path (`Cuts`): a loop at some place
  answers whether there is a cut from there on, or from the last star a letter later, and
  the greedy choice of the last star loses no cut, since stars take any letters.
  `NormalizeSelects`: normalization drops the "." segments and keeps the order.
* The texts.  `PositiveMatchIsExact`: the search, which goes on behind an occurrence that
  is harmless, finds one that is meant exactly if there is one.
  `EveryEffectIsAnswered` speaks of the texts this search is applied to (`IsSearched`): the
  task, and six fields of a plan.
* The review.  `EffectIsAsked`: each effect has a question, in its own words, whatever
  questions share an id; `SupportHolds`: the probes an option names have stated the effect.
* The contract.  `ContractIsPlanned`: what it allows is in all plans or in all plans behind
  a chosen alternative; `WritableIsProper`: a name the gate takes for writable leads to a
  file these plans mean, and to none that holds secrets.

The loops are recursive functions over finite domains of places.  The library's induction
takes an operator, so induction is done by the least or the greatest place at which a
statement fails (`Least`, `Greatest`); that such a function exists is shown by a witness
where the definition alone does not give it.  A letter is an element of `Chars`, as the provers
know of no string that it is in `STRING`.

The theorems of each module assume only the named assumptions of the module they are
about, which TLC evaluates in its run.

Only model-checked: the six liveness properties, `RunSettles`, `PauseEndsWait`,
`ExecutionEnds`, `InboxEnds`, `DisplayCatchesUp` and `InspectionEnds`, as liveness under
fairness is outside the proof system, and the four violations.  Every safety property of a
passing run is stated by a theorem.

## Not modelled

* Redaction, canonical hashing, schema validation, the tokenizer and the regular
  expressions are functions over strings and unit-tested as such.  The models take a
  content hash for a name, a schema for what it guarantees, and a text for the matches
  it contains.
* The compatibility profile compares schemas of an external program; its verdict is an
  input of `approve` and `run`.
* Prompts, and the validation of a comparator's candidate: an answer is valid or not.
* Probe, comparison and translation turns run on the client that `ExecutionTurn`
  models for the execution turn; in `Inspection` each is one step with any result.  Token
  usage and the canary are left out.
* Git, the file system and the Codex executable are external; the models have their
  outcomes.
* Rendering, logging, argument parsing, packaging and the scripts hold no protocol.

## What could follow

1. The turns of `Inspection` as instances of a promise like `ExecutionPromise`, without
   a contract.
2. The probe turns over `Connection`: three share a client, so what fails the protocol
   for one fails it for all.
3. The command tokenizer over a small alphabet, in the way of `MatcherIsExact`.
