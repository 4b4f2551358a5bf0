--------------------------- MODULE ExecutionControl ---------------------------
(***************************************************************************)
(* Executing approved contracts: LocalController.start, run, stop and       *)
(* cancel (apps/controller/src/controller.ts) around the execution port     *)
(* (packages/contract-runtime/src/runtime.ts), in several processes over    *)
(* one store.                                                               *)
(*                                                                          *)
(* JavaScript runs a process's code between two awaits without interleaving *)
(* it with the rest of that process, but other processes commit between any *)
(* two store operations, and a process may die between them.  So every      *)
(* store operation is a step of its own, and Free, TaskMay and HelperMay    *)
(* keep a process on the synchronous section it is in.                      *)
(*                                                                          *)
(* A contract is started at most once (RunLifecycle, ImplementsGate), so it *)
(* names its execution: its call of run(), its execution row, its worktree. *)
(***************************************************************************)
EXTENDS Integers, RunStates

CONSTANTS
  Controllers,   \* the processes
  Nobody,        \* the process of an execution that is not in progress
  Commands,      \* bound: <<process, contract, command>>, who may use which
                 \* of stop, cancel and report while which contract is active
  MaxContracts   \* bound: the number of contracts, hence of executions

ASSUME ControlAssumption ==
  /\ MaxContracts \in Nat \ {0}
  /\ Commands \subseteq Controllers \X Nat \X {"stop", "cancel", "report"}
  /\ Nobody \notin Controllers

VARIABLES
  state,     \* runs.state
  version,   \* runs.version, counted from the first approval
  active,    \* runs.active_contract_id
  row,       \* execution_runs.state
  tree,      \* worktrees.cleanup_status
  report,    \* the run state the stored report shows
  started,   \* LocalController.started
  tracked,   \* is the run in LocalController.activeExecutionIds?
  task,      \* the call of run() for each contract
  helper     \* a stop(), cancel() or report() in progress in each process

runVars   == <<state, version, active>>
storeVars == <<state, version, active, row, tree, report>>
vars      == <<storeVars, started, tracked, task, helper>>

Contracts == 1 .. MaxContracts
ControlState ==
  {"ready_for_approval", "approved", "running", "pausing", "paused"} \cup Terminal

Outcome   == {"completed", "paused", "failed"}
RowState  == {"none", "starting", "running", "pausing", "paused", "completed", "failed"}
LiveRow   == {"starting", "running", "pausing"}
TreeState == {"none", "pending", "removed", "failed"}

TaskPc ==
  {"none", "opening", "recording", "starting", "turn", "cleaning", "writing",
   "concluding", "settled", "read", "pausing", "report", "failing", "fail", "done", "crashed"}

HelperPc == {"none", "stopping", "halting", "halted", "cancelling", "reporting"}

Task ==
  [pc : TaskPc, by : Controllers \cup {Nobody}, outcome : Outcome, late : BOOLEAN, seen : Nat]

Helper == [pc : HelperPc, seen : Nat, shows : ControlState \cup {"none"}]

Idle == [pc |-> "none", seen |-> 0, shows |-> "none"]

Ended(pc) == [pc |-> pc, by |-> Nobody, outcome |-> "failed", late |-> FALSE, seen |-> 0]

-----------------------------------------------------------------------------
(* Who may run *)

(* A call of run() that will go on to its next store operation without         *)
(* awaiting anything.                                                          *)
InSection(k) ==
  \/ task[k].pc \in {"recording", "writing", "concluding", "pausing", "report", "failing", "fail"}
  \/ task[k].pc = "read" /\ ~task[k].late

HelperInSection(p) == helper[p].pc \in {"halting", "halted", "cancelling", "reporting"}

Of(p) == {k \in Contracts : task[k].by = p}

Free(p) == ~HelperInSection(p) /\ \A k \in Of(p) : ~InSection(k)

TaskMay(k) ==
  /\ task[k].by # Nobody
  /\ ~HelperInSection(task[k].by)
  /\ \A j \in Of(task[k].by) \ {k} : ~InSection(j)

HelperMay(p) == \A k \in Of(p) : ~InSection(k)

Write(next, steps) == state' = next /\ version' = version + steps

(* transitionRun from a version that was read earlier.                         *)
Transition(next, seen) == version = seen /\ Allowed(state, next) /\ Write(next, 1)

Conflict(next, seen) == version # seen \/ ~Allowed(state, next)

At(k, pc) == task[k].pc = pc /\ TaskMay(k)

GoTo(k, pc) == task' = [task EXCEPT ![k].pc = pc]

(* The end of run(): its finally clause forgets the run.                       *)
Return(k) ==
  /\ task' = [task EXCEPT ![k] = Ended("done")]
  /\ tracked' = [tracked EXCEPT ![task[k].by] = FALSE]

-----------------------------------------------------------------------------
Init ==
  /\ state = "approved"
  /\ version = 0
  /\ active = 1
  /\ row = [k \in Contracts |-> "none"]
  /\ tree = [k \in Contracts |-> "none"]
  /\ report = "none"
  /\ started = [p \in Controllers |-> FALSE]
  /\ tracked = [p \in Controllers |-> FALSE]
  /\ task = [k \in Contracts |-> Ended("none")]
  /\ helper = [p \in Controllers |-> Idle]

-----------------------------------------------------------------------------
(* A process comes up: start() pauses whatever it takes for interrupted.       *)

(* Mutant of Recovered: every execution row of the run is set to paused.       *)
RecoveredAll == [k \in Contracts |-> IF row[k] = "none" THEN "none" ELSE "paused"]

Recovered == [k \in Contracts |-> IF row[k] \in LiveRow THEN "paused" ELSE row[k]]

(* Mutant of StartController: recovery selects the running runs only.          *)
StartControllerRunningOnly(p) ==
  /\ ~started[p]
  /\ Free(p)
  /\ started' = [started EXCEPT ![p] = TRUE]
  /\ \/ state = "running" /\ Write("paused", 2) /\ row' = Recovered
     \/ state # "running" /\ UNCHANGED <<state, version, row>>
  /\ UNCHANGED <<active, tree, report, tracked, task, helper>>

StartController(p) ==
  /\ ~started[p]
  /\ Free(p)
  /\ started' = [started EXCEPT ![p] = TRUE]
  /\ \/ state = "running" /\ Write("paused", 2) /\ row' = Recovered
     \/ state = "pausing" /\ Write("paused", 1) /\ row' = Recovered
     \/ state \notin {"running", "pausing"} /\ UNCHANGED <<state, version, row>>
  /\ UNCHANGED <<active, tree, report, tracked, task, helper>>

(* A human amends the paused run and approves the new contract.                *)
Amend(p) ==
  /\ started[p] /\ Free(p)
  /\ state = "paused"
  /\ active < MaxContracts
  /\ Write("ready_for_approval", 2)
  /\ active' = active + 1
  /\ UNCHANGED <<row, tree, report, started, tracked, task, helper>>

Approve(p) ==
  /\ started[p] /\ Free(p)
  /\ state = "ready_for_approval"
  /\ Write("approved", 1)
  /\ UNCHANGED <<active, row, tree, report, started, tracked, task, helper>>

-----------------------------------------------------------------------------
(* run() and ContractExecutionPort.start *)

(* startExecution commits, and the port is called.                             *)
BeginRun(p) ==
  /\ started[p] /\ Free(p)
  /\ state = "approved"
  /\ task[active].pc = "none"
  /\ Write("running", 1)
  /\ tracked' = [tracked EXCEPT ![p] = TRUE]
  /\ task' = [task EXCEPT ![active].pc = "opening", ![active].by = p]
  /\ UNCHANGED <<active, row, tree, report, started, helper>>

(* The port refuses the contract, or no worktree can be made: nothing is       *)
(* recorded of this execution.                                                 *)
RefuseExecution(k) ==
  /\ At(k, "opening")
  /\ task' = [task EXCEPT ![k].pc = "settled", ![k].outcome = "failed"]
  /\ UNCHANGED <<storeVars, started, tracked, helper>>

RecordWorktree(k) ==
  /\ At(k, "opening")
  /\ tree' = [tree EXCEPT ![k] = "pending"]
  /\ GoTo(k, "recording")
  /\ UNCHANGED <<state, version, active, row, report, started, tracked, helper>>

RecordExecution(k) ==
  /\ At(k, "recording")
  /\ row' = [row EXCEPT ![k] = "starting"]
  /\ GoTo(k, "starting")
  /\ UNCHANGED <<state, version, active, tree, report, started, tracked, helper>>

(* onSessionStarted: the row is updated whatever it says by now.               *)
SessionStarted(k) ==
  /\ At(k, "starting")
  /\ row' = [row EXCEPT ![k] = "running"]
  /\ GoTo(k, "turn")
  /\ UNCHANGED <<state, version, active, tree, report, started, tracked, helper>>

(* The turn and the required checks are over, or something failed, or an       *)
(* interrupt or the abort signal ended them.                                   *)
FinishTurn(k) ==
  /\ \E o \in Outcome :
       /\ \/ At(k, "turn")
          \/ At(k, "starting") /\ o # "completed"
       /\ task' = [task EXCEPT ![k].pc = "cleaning", ![k].outcome = o]
  /\ UNCHANGED <<storeVars, started, tracked, helper>>

(* Mutant of Cleaned: a failed cleanup is reported, and changes nothing else.  *)
CleanedRegardless(k, status) ==
  task' = [task EXCEPT ![k].pc = "writing"]

(* A worktree that cannot be removed turns the outcome into a failure.         *)
Cleaned(k, status) ==
  task' = [task EXCEPT ![k].pc = "writing",
                       ![k].outcome = IF status = "failed" THEN "failed" ELSE @]

CleanWorktree(k) ==
  /\ At(k, "cleaning")
  /\ \E status \in {"removed", "failed"} :
       /\ tree' = [tree EXCEPT ![k] = status]
       /\ Cleaned(k, status)
  /\ UNCHANGED <<state, version, active, row, report, started, tracked, helper>>

(* Mutant of WriteExecution: pausing is all that is written of a pause.        *)
WriteExecutionPausing(k) ==
  /\ \/ At(k, "writing") /\ task[k].outcome # "paused"
     \/ At(k, "concluding")
  /\ row' = [row EXCEPT ![k] = IF task[k].outcome = "paused" THEN "pausing" ELSE task[k].outcome]
  /\ GoTo(k, "settled")
  /\ UNCHANGED <<state, version, active, tree, report, started, tracked, helper>>

(* A pausing execution is first written as pausing, then as paused.            *)
WritePausing(k) ==
  /\ At(k, "writing")
  /\ task[k].outcome = "paused"
  /\ row' = [row EXCEPT ![k] = "pausing"]
  /\ GoTo(k, "concluding")
  /\ UNCHANGED <<state, version, active, tree, report, started, tracked, helper>>

WriteExecution(k) ==
  /\ \/ At(k, "writing") /\ task[k].outcome # "paused"
     \/ At(k, "concluding")
  /\ row' = [row EXCEPT ![k] = task[k].outcome]
  /\ GoTo(k, "settled")
  /\ UNCHANGED <<state, version, active, tree, report, started, tracked, helper>>

(* withTimeout's timer: the call is aborted, but run() waits for it to settle. *)
Timeout(k) ==
  /\ task[k].pc \in {"opening", "starting", "turn", "cleaning"}
  /\ TaskMay(k)
  /\ ~task[k].late
  /\ task' = [task EXCEPT ![k].late = TRUE]
  /\ UNCHANGED <<storeVars, started, tracked, helper>>

(* run() goes on and reads the run; a run that is no longer running is left    *)
(* as it is.  After a timeout an interrupt is awaited between this read and    *)
(* the next write.                                                             *)
Settle(k) ==
  /\ At(k, "settled")
  /\ IF state = "running"
     THEN task' = [task EXCEPT ![k].pc = "read", ![k].seen = version] /\ UNCHANGED tracked
     ELSE Return(k)
  /\ UNCHANGED <<storeVars, started, helper>>

(* The state a settled execution moves its run to.                             *)
Target(k) ==
  IF task[k].late \/ task[k].outcome = "paused" THEN "pausing" ELSE task[k].outcome

(* Mutant of Conclude: the report is saved even if the transition is refused.  *)
ConcludeRegardless(k) ==
  /\ At(k, "read")
  /\ \/ Transition(Target(k), task[k].seen)
     \/ Conflict(Target(k), task[k].seen) /\ UNCHANGED <<state, version>>
  /\ IF Target(k) = "pausing"
     THEN task' = [task EXCEPT ![k].pc = "pausing", ![k].seen = version + 1]
     ELSE task' = [task EXCEPT ![k].pc = "report", ![k].seen = 0]
  /\ UNCHANGED <<active, row, tree, report, started, tracked, helper>>

Conclude(k) ==
  /\ At(k, "read")
  /\ Transition(Target(k), task[k].seen)
  /\ IF Target(k) = "pausing"
     THEN task' = [task EXCEPT ![k].pc = "pausing", ![k].seen = version + 1]
     ELSE task' = [task EXCEPT ![k].pc = "report", ![k].seen = 0]
  /\ UNCHANGED <<active, row, tree, report, started, tracked, helper>>

PauseRun(k) ==
  /\ At(k, "pausing")
  /\ Transition("paused", task[k].seen)
  /\ IF task[k].late
     THEN Return(k)
     ELSE task' = [task EXCEPT ![k].pc = "report", ![k].seen = 0] /\ UNCHANGED tracked
  /\ UNCHANGED <<active, row, tree, report, started, helper>>

(* Another process wrote first.  After a timeout the error leaves run() from   *)
(* its catch clause; otherwise the catch clause looks at the run again, and    *)
(* fails it if it is running.                                                  *)
LoseRace(k) ==
  /\ \/ At(k, "read") /\ Conflict(Target(k), task[k].seen)
     \/ At(k, "pausing") /\ Conflict("paused", task[k].seen)
  /\ IF ~task[k].late /\ state = "running"
     THEN task' = [task EXCEPT ![k].pc = "failing", ![k].seen = 0] /\ UNCHANGED tracked
     ELSE Return(k)
  /\ UNCHANGED <<storeVars, started, helper>>

(* failActiveRun: a read, a transition from any state the table lets fail, and *)
(* no word of a conflict.                                                      *)
FailRead(k) ==
  /\ At(k, "failing")
  /\ IF state \in Terminal
     THEN Return(k)
     ELSE task' = [task EXCEPT ![k].pc = "fail", ![k].seen = version] /\ UNCHANGED tracked
  /\ UNCHANGED <<storeVars, started, helper>>

FailActiveRun(k) ==
  /\ At(k, "fail")
  /\ \/ Transition("failed", task[k].seen)
     \/ Conflict("failed", task[k].seen) /\ UNCHANGED <<state, version>>
  /\ Return(k)
  /\ UNCHANGED <<active, row, tree, report, started, helper>>

(* saveExecutionReport shows the state run() reached.  If it throws, the catch *)
(* clause of run() looks at the run again, as after a lost race.               *)
SaveReport(k) ==
  /\ At(k, "report")
  /\ \/ report' = task[k].outcome /\ Return(k)
     \/ /\ UNCHANGED report
        /\ IF state = "running" THEN GoTo(k, "failing") /\ UNCHANGED tracked ELSE Return(k)
  /\ UNCHANGED <<state, version, active, row, tree, started, helper>>

-----------------------------------------------------------------------------
(* stop(), cancel() and report() *)

(* The process is gone, or has closed its store: whatever run() it was in may  *)
(* still interrupt its turn and remove its worktree, but every store operation *)
(* from here on throws.                                                        *)
Leave(p) ==
  /\ started' = [started EXCEPT ![p] = FALSE]
  /\ tracked' = [tracked EXCEPT ![p] = FALSE]
  /\ helper' = [helper EXCEPT ![p] = Idle]
  /\ task' = [k \in Contracts |->
                IF k \in Of(p) THEN Ended("crashed") ELSE task[k]]

(* stop() interrupts what it tracks, and closes the store.                     *)
StopController(p) ==
  /\ <<p, active, "stop">> \in Commands
  /\ started[p] /\ Free(p)
  /\ helper[p].pc = "none"
  /\ IF tracked[p]
     THEN helper' = [helper EXCEPT ![p].pc = "stopping"] /\ UNCHANGED <<started, tracked, task>>
     ELSE Leave(p)
  /\ UNCHANGED storeVars

(* The interrupt was answered, or failed.                                      *)
StopInterrupted(p) ==
  /\ helper[p].pc = "stopping" /\ HelperMay(p)
  /\ \/ state = "running"
        /\ helper' = [helper EXCEPT ![p].pc = "halting", ![p].seen = version]
        /\ UNCHANGED <<started, tracked, task>>
     \/ Leave(p)
  /\ UNCHANGED storeVars

StopHalt(p) ==
  /\ helper[p].pc = "halting"
  /\ \/ /\ Transition("pausing", helper[p].seen)
        /\ helper' = [helper EXCEPT ![p].pc = "halted", ![p].seen = version + 1]
        /\ UNCHANGED <<started, tracked, task>>
     \/ /\ Conflict("pausing", helper[p].seen)
        /\ Leave(p)
        /\ UNCHANGED <<state, version>>
  /\ UNCHANGED <<active, row, tree, report>>

StopPause(p) ==
  /\ helper[p].pc = "halted"
  /\ \/ Transition("paused", helper[p].seen)
     \/ Conflict("paused", helper[p].seen) /\ UNCHANGED <<state, version>>
  /\ Leave(p)
  /\ UNCHANGED <<active, row, tree, report>>

CancelRead(p) ==
  /\ <<p, active, "cancel">> \in Commands
  /\ started[p] /\ Free(p)
  /\ helper[p].pc = "none"
  /\ state \notin Terminal
  /\ helper' = [helper EXCEPT ![p].pc = "cancelling", ![p].seen = version]
  /\ UNCHANGED <<storeVars, started, tracked, task>>

(* The interrupt that follows reaches only an execution of this process, and   *)
(* nothing waits for what it does.                                             *)
CancelWrite(p) ==
  /\ helper[p].pc = "cancelling"
  /\ \/ Transition("cancelled", helper[p].seen)
     \/ Conflict("cancelled", helper[p].seen) /\ UNCHANGED <<state, version>>
  /\ helper' = [helper EXCEPT ![p] = Idle]
  /\ UNCHANGED <<active, row, tree, report, started, tracked, task>>

(* report() of a run without one: it reads the run, and stores what it read.   *)
ReportRead(p) ==
  /\ <<p, active, "report">> \in Commands
  /\ started[p] /\ Free(p)
  /\ helper[p].pc = "none"
  /\ report = "none"
  /\ helper' = [helper EXCEPT ![p].pc = "reporting", ![p].shows = state]
  /\ UNCHANGED <<storeVars, started, tracked, task>>

ReportWrite(p) ==
  /\ helper[p].pc = "reporting"
  /\ report' = helper[p].shows
  /\ helper' = [helper EXCEPT ![p] = Idle]
  /\ UNCHANGED <<state, version, active, row, tree, started, tracked, task>>

-----------------------------------------------------------------------------
(* A process dies, with everything it was doing.                               *)
Crash(p) ==
  /\ started[p] \/ helper[p] # Idle \/ Of(p) # {}
  /\ Leave(p)
  /\ UNCHANGED storeVars

RunStep(k) ==
  \/ RefuseExecution(k) \/ RecordWorktree(k) \/ RecordExecution(k) \/ SessionStarted(k)
  \/ FinishTurn(k) \/ CleanWorktree(k) \/ WritePausing(k) \/ WriteExecution(k)
  \/ Settle(k) \/ Conclude(k) \/ PauseRun(k) \/ LoseRace(k) \/ FailRead(k) \/ FailActiveRun(k) \/ SaveReport(k)

HelperStep(p) ==
  StopInterrupted(p) \/ StopHalt(p) \/ StopPause(p) \/ CancelWrite(p) \/ ReportWrite(p)

Next ==
  \/ \E k \in Contracts : RunStep(k) \/ Timeout(k)
  \/ \E p \in Controllers :
       \/ StartController(p) \/ Amend(p) \/ Approve(p) \/ BeginRun(p)
       \/ StopController(p) \/ CancelRead(p) \/ ReportRead(p) \/ HelperStep(p) \/ Crash(p)

(* A process that lives goes on with what it does: its timers fire, the App    *)
(* Server answers, settles or is closed, and the timeout bounds the turn.      *)
(* After a crash or a stop, somebody eventually runs another command.          *)
Fairness ==
  /\ \A k \in Contracts : WF_vars(RunStep(k))
  /\ \A p \in Controllers : WF_vars(HelperStep(p)) /\ WF_vars(StartController(p))

Spec == Init /\ [][Next]_vars

FairSpec == Spec /\ Fairness

-----------------------------------------------------------------------------
(* Properties *)

TypeOK ==
  /\ state \in ControlState
  /\ version \in Nat
  /\ active \in Contracts
  /\ row \in [Contracts -> RowState]
  /\ tree \in [Contracts -> TreeState]
  /\ report \in ControlState \cup {"none"}
  /\ started \in [Controllers -> BOOLEAN]
  /\ tracked \in [Controllers -> BOOLEAN]
  /\ task \in [Contracts -> Task]
  /\ helper \in [Controllers -> Helper]

(* A run is completed only on the strength of an execution that says so in its *)
(* own row and whose worktree was removed, whatever restarts, recoveries and   *)
(* second processes came between.                                              *)
CompletionHasEvidence ==
  state = "completed" => \E k \in Contracts : row[k] = "completed" /\ tree[k] = "removed"

(* What an execution has concluded stands: recovery by another process, which  *)
(* takes a live execution for an interrupted one, never rewrites it.           *)
ConcludedRowsStand ==
  [][\A k \in Contracts : row[k] \in {"completed", "failed"} => row'[k] = row[k]]_vars

(* An execution that returns, rather than dies, leaves no worktree whose       *)
(* cleanup is pending and no row that looks alive; so the run can be deleted.  *)
ReturnedExecutionsAreAccounted ==
  \A k \in Contracts : task[k].pc = "done" => tree[k] # "pending" /\ row[k] \notin LiveRow

(* A stored report never shows an end the run did not come to: it is written   *)
(* after the transition, and not when the transition lost a race.              *)
ReportTellsTheOutcome == report \in Terminal => state = report

-----------------------------------------------------------------------------
(* The inductive invariant behind the properties above. *)

(* What an execution has recorded so far, by how far it has come.              *)
AccountsInStep(k) ==
  /\ task[k].pc \in {"none", "opening"} => row[k] = "none" /\ tree[k] = "none"
  /\ task[k].pc = "recording" => row[k] = "none" /\ tree[k] = "pending"
  /\ task[k].pc \in {"starting", "turn", "cleaning", "writing", "concluding"} =>
       row[k] \in LiveRow \cup {"paused"}
  /\ task[k].pc \in {"starting", "turn", "cleaning"} => tree[k] = "pending"
  /\ task[k].pc \in {"writing", "concluding"} => tree[k] \in {"removed", "failed"}
  /\ task[k].pc \in {"settled", "read", "pausing", "report", "failing", "fail", "done"} =>
       row[k] \notin LiveRow /\ tree[k] # "pending"

(* A completed outcome is one whose worktree was removed, and from the moment  *)
(* it is returned it is in the row.                                            *)
OutcomeIsRecorded(k) ==
  /\ task[k].pc \in {"writing", "concluding"} /\ task[k].outcome = "completed" =>
       tree[k] = "removed"
  /\ task[k].pc \in {"settled", "read"} /\ task[k].outcome = "completed" =>
       row[k] = "completed" /\ tree[k] = "removed"

(* Whoever is about to write a report knows a state the run has come to.       *)
ReportersKnow ==
  /\ \A k \in Contracts :
       /\ task[k].pc = "pausing" /\ ~task[k].late => task[k].outcome = "paused"
       /\ task[k].pc = "report" => task[k].outcome \in {"paused", state}
  /\ \A p \in Controllers :
       helper[p].pc = "reporting" /\ helper[p].shows \in Terminal => state = helper[p].shows

IInv ==
  /\ TypeOK
  /\ \A k \in Contracts : AccountsInStep(k) /\ OutcomeIsRecorded(k)
  /\ ReportersKnow
  /\ CompletionHasEvidence
  /\ ReturnedExecutionsAreAccounted
  /\ ReportTellsTheOutcome

-----------------------------------------------------------------------------
(* A run does not stay running or pausing for ever: its execution concludes,   *)
(* or a controller that is started after the crash pauses it.                  *)
RunSettles == state \in {"running", "pausing"} ~> state \notin {"running", "pausing"}

(* docs/SPECIFICATION.md:584: a run completes only after its turn completed    *)
(* and its required checks were run; the run's contract is the active one.     *)
OwnExecutionCompletes == state = "completed" => row[active] = "completed"
=============================================================================
