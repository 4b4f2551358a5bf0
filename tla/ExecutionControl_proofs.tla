------------------------ MODULE ExecutionControl_proofs ------------------------
(***************************************************************************)
(* Proofs about ExecutionControl, for any processes, commands and number of *)
(* contracts: IInv is preserved by each action, and the safety properties   *)
(* are conjuncts or consequences of it.                                     *)
(***************************************************************************)
EXTENDS ExecutionControl, TLAPS

-----------------------------------------------------------------------------
(* Types *)

(* Contracts are numbered from one.                                            *)
LEMMA ContractsAreNumbers == Contracts \subseteq Nat /\ 1 \in Contracts
BY ControlAssumption DEF Contracts

(* An execution that ended, however it ended, is a task.                       *)
LEMMA EndedIsTask ==
  ASSUME NEW pc \in TaskPc PROVE Ended(pc) \in Task
BY DEF Ended, Task, Outcome

(* A process with nothing under way has a helper.                              *)
LEMMA IdleIsHelper == Idle \in Helper
BY DEF Idle, Helper, HelperPc

(* What leaves a process with nothing keeps the types.                         *)
LEMMA LeaveKeepsType ==
  ASSUME TypeOK, NEW p \in Controllers, Leave(p)
  PROVE  /\ started' \in [Controllers -> BOOLEAN]
         /\ tracked' \in [Controllers -> BOOLEAN]
         /\ helper' \in [Controllers -> Helper]
         /\ task' \in [Contracts -> Task]
<1>1. Ended("crashed") \in Task
  BY EndedIsTask DEF TaskPc
<1>2. QED
  BY <1>1, IdleIsHelper DEF Leave, TypeOK

(* The end of run() keeps the types.                                           *)
LEMMA ReturnKeepsType ==
  ASSUME TypeOK, NEW k \in Contracts, Return(k)
  PROVE  /\ tracked' \in [Controllers -> BOOLEAN]
         /\ task' \in [Contracts -> Task]
<1>1. Ended("done") \in Task
  BY EndedIsTask DEF TaskPc
<1>2. QED
  BY <1>1 DEF Return, TypeOK

(* A call of run() that goes on keeps the types.                               *)
LEMMA GoToKeepsType ==
  ASSUME TypeOK, NEW k \in Contracts, NEW pc \in TaskPc, GoTo(k, pc)
  PROVE  task' \in [Contracts -> Task]
BY DEF GoTo, TypeOK, Task

(* A transition of the run keeps the types.                                    *)
LEMMA WriteKeepsType ==
  ASSUME TypeOK, NEW next \in ControlState, NEW n \in Nat, Write(next, n)
  PROVE  state' \in ControlState /\ version' \in Nat
BY DEF Write, TypeOK

(* A step of run() keeps the types.                                            *)
LEMMA RunStepKeepsType ==
  ASSUME TypeOK, NEW k \in Contracts, RunStep(k)
  PROVE  TypeOK'
<1>0. task[k] \in Task /\ version \in Nat /\ version + 1 \in Nat /\ 0 \in Nat
  BY DEF TypeOK
<1>1. CASE RefuseExecution(k)
  <2>1. [task[k] EXCEPT !.pc = "settled", !.outcome = "failed"] \in Task
    BY <1>0 DEF Task, TaskPc, Outcome
  <2>2. task' = [task EXCEPT ![k] = [task[k] EXCEPT !.pc = "settled", !.outcome = "failed"]]
    BY <1>1 DEF RefuseExecution, TypeOK
  <2>3. task' \in [Contracts -> Task]
    BY <2>1, <2>2 DEF TypeOK
  <2> QED
    BY <1>1, <2>3 DEF RefuseExecution, storeVars, TypeOK
<1>2. CASE RecordWorktree(k)
  BY <1>2, GoToKeepsType DEF RecordWorktree, TypeOK, TaskPc, TreeState
<1>3. CASE RecordExecution(k)
  BY <1>3, GoToKeepsType DEF RecordExecution, TypeOK, TaskPc, RowState
<1>4. CASE SessionStarted(k)
  BY <1>4, GoToKeepsType DEF SessionStarted, TypeOK, TaskPc, RowState
<1>5. CASE FinishTurn(k)
  <2>1. PICK o \in Outcome : task' = [task EXCEPT ![k].pc = "cleaning", ![k].outcome = o]
    BY <1>5 DEF FinishTurn
  <2>2. [task[k] EXCEPT !.pc = "cleaning", !.outcome = o] \in Task
    BY <1>0 DEF Task, TaskPc
  <2>3. task' \in [Contracts -> Task]
    BY <2>1, <2>2 DEF TypeOK
  <2> QED
    BY <1>5, <2>3 DEF FinishTurn, storeVars, TypeOK
<1>6. CASE CleanWorktree(k)
  <2>1. PICK status \in {"removed", "failed"} :
          tree' = [tree EXCEPT ![k] = status] /\ Cleaned(k, status)
    BY <1>6 DEF CleanWorktree
  <2> DEFINE o == IF status = "failed" THEN "failed" ELSE task[k].outcome
  <2>3. o \in Outcome
    BY <1>0 DEF Task, Outcome
  <2>4. task' = [task EXCEPT ![k].pc = "writing", ![k].outcome = o]
    BY <2>1 DEF Cleaned, TypeOK
  <2> HIDE DEF o
  <2>5. [task[k] EXCEPT !.pc = "writing", !.outcome = o] \in Task
    BY <1>0, <2>3 DEF Task, TaskPc
  <2>2. task' \in [Contracts -> Task]
    BY <2>4, <2>5 DEF TypeOK
  <2> QED
    BY <1>6, <2>1, <2>2 DEF CleanWorktree, TypeOK, TreeState
<1>7. CASE WritePausing(k)
  BY <1>7, GoToKeepsType DEF WritePausing, TypeOK, TaskPc, RowState
<1>8. CASE WriteExecution(k)
  <2>1. task[k].outcome \in RowState
    BY <1>0 DEF Task, Outcome, RowState
  <2> QED
    BY <1>8, <2>1, GoToKeepsType DEF WriteExecution, TypeOK, TaskPc
<1>9. CASE Settle(k)
  <2>1. task' \in [Contracts -> Task] /\ tracked' \in [Controllers -> BOOLEAN]
    <3>1. CASE state = "running"
      BY <1>9, <3>1 DEF Settle, TypeOK, Task, TaskPc
    <3>2. CASE state # "running"
      BY <1>9, <3>2, ReturnKeepsType DEF Settle
    <3> QED
      BY <3>1, <3>2
  <2> QED
    BY <1>9, <2>1 DEF Settle, storeVars, TypeOK
<1>10. CASE Conclude(k)
  <2>1. Target(k) \in ControlState
    BY <1>0 DEF Target, Task, Outcome, ControlState, Terminal
  <2>2. state' \in ControlState /\ version' \in Nat
    BY <1>10, <2>1, WriteKeepsType DEF Conclude, Transition
  <2>3. task' \in [Contracts -> Task]
    BY <1>0, <1>10 DEF Conclude, TypeOK, Task, TaskPc
  <2> QED
    BY <1>10, <2>2, <2>3 DEF Conclude, TypeOK
<1>11. CASE PauseRun(k)
  <2>1. state' \in ControlState /\ version' \in Nat
    BY <1>11, WriteKeepsType DEF PauseRun, Transition, ControlState
  <2>2. task' \in [Contracts -> Task] /\ tracked' \in [Controllers -> BOOLEAN]
    <3>1. CASE task[k].late
      BY <1>11, <3>1, ReturnKeepsType DEF PauseRun
    <3>2. CASE ~task[k].late
      BY <1>0, <1>11, <3>2 DEF PauseRun, TypeOK, Task, TaskPc
    <3> QED
      BY <3>1, <3>2
  <2> QED
    BY <1>11, <2>1, <2>2 DEF PauseRun, TypeOK
<1>12. CASE LoseRace(k)
  <2>1. task' \in [Contracts -> Task] /\ tracked' \in [Controllers -> BOOLEAN]
    <3>1. CASE ~task[k].late /\ state = "running"
      BY <1>12, <3>1 DEF LoseRace, TypeOK, Task, TaskPc
    <3>2. CASE ~(~task[k].late /\ state = "running")
      BY <1>12, <3>2, ReturnKeepsType DEF LoseRace
    <3> QED
      BY <3>1, <3>2
  <2> QED
    BY <1>12, <2>1 DEF LoseRace, storeVars, TypeOK
<1>13. CASE FailRead(k)
  <2>1. task' \in [Contracts -> Task] /\ tracked' \in [Controllers -> BOOLEAN]
    <3>1. CASE state \in Terminal
      BY <1>13, <3>1, ReturnKeepsType DEF FailRead
    <3>2. CASE state \notin Terminal
      BY <1>13, <3>2 DEF FailRead, TypeOK, Task, TaskPc
    <3> QED
      BY <3>1, <3>2
  <2> QED
    BY <1>13, <2>1 DEF FailRead, storeVars, TypeOK
<1>14. CASE FailActiveRun(k)
  <2>1. state' \in ControlState /\ version' \in Nat
    BY <1>14, WriteKeepsType DEF FailActiveRun, Transition, ControlState, Terminal, TypeOK
  <2> QED
    BY <1>14, <2>1, ReturnKeepsType DEF FailActiveRun, TypeOK
<1>15. CASE SaveReport(k)
  <2>1. task[k].outcome \in ControlState
    BY <1>0 DEF Task, Outcome, ControlState, Terminal
  <2>2. task' \in [Contracts -> Task] /\ tracked' \in [Controllers -> BOOLEAN]
    BY <1>15, ReturnKeepsType, GoToKeepsType DEF SaveReport, TypeOK, TaskPc
  <2> QED
    BY <1>15, <2>1, <2>2 DEF SaveReport, TypeOK
<1> QED
  BY <1>1, <1>2, <1>3, <1>4, <1>5, <1>6, <1>7, <1>8, <1>9, <1>10, <1>11, <1>12,
     <1>13, <1>14, <1>15 DEF RunStep

(* A step of a process outside run() keeps the types.                          *)
LEMMA ProcessStepKeepsType ==
  ASSUME TypeOK, NEW p \in Controllers,
         \/ StartController(p) \/ Amend(p) \/ Approve(p) \/ BeginRun(p)
         \/ StopController(p) \/ CancelRead(p) \/ ReportRead(p) \/ HelperStep(p) \/ Crash(p)
  PROVE  TypeOK'
<1>0. helper[p] \in Helper /\ version \in Nat /\ version + 1 \in Nat /\ state \in ControlState
  BY DEF TypeOK
<1>1. CASE StartController(p)
  <2>1. Recovered \in [Contracts -> RowState]
    BY DEF Recovered, TypeOK, RowState, LiveRow
  <2> QED
    BY <1>1, <2>1 DEF StartController, Write, TypeOK, ControlState
<1>2. CASE Amend(p)
  BY <1>2, ControlAssumption DEF Amend, Write, TypeOK, ControlState, Contracts
<1>3. CASE Approve(p)
  BY <1>3 DEF Approve, Write, TypeOK, ControlState
<1>4. CASE BeginRun(p)
  <2>2. active \in Contracts /\ task[active] \in Task
    BY DEF TypeOK
  <2>3. [task[active] EXCEPT !.pc = "opening", !.by = p] \in Task
    BY <2>2 DEF Task, TaskPc
  <2>1. task' \in [Contracts -> Task]
    BY <1>4, <2>2, <2>3 DEF BeginRun, TypeOK
  <2> QED
    BY <1>4, <2>1 DEF BeginRun, Write, TypeOK, ControlState
<1>5. CASE StopController(p)
  <2>1. CASE tracked[p]
    BY <1>5, <2>1 DEF StopController, storeVars, TypeOK, Helper, HelperPc
  <2>2. CASE ~tracked[p]
    BY <1>5, <2>2, LeaveKeepsType DEF StopController, storeVars, TypeOK
  <2> QED
    BY <2>1, <2>2
<1>6. CASE CancelRead(p)
  <2>1. [helper[p] EXCEPT !.pc = "cancelling", !.seen = version] \in Helper
    BY <1>0 DEF Helper, HelperPc
  <2>2. helper' \in [Controllers -> Helper]
    BY <1>6, <2>1 DEF CancelRead, TypeOK
  <2> QED
    BY <1>6, <2>2 DEF CancelRead, storeVars, TypeOK
<1>7. CASE ReportRead(p)
  BY <1>7 DEF ReportRead, storeVars, TypeOK, Helper, HelperPc
<1>8. CASE StopInterrupted(p)
  <2>1. CASE Leave(p)
    BY <1>8, <2>1, LeaveKeepsType DEF StopInterrupted, storeVars, TypeOK
  <2>2. CASE ~Leave(p)
    BY <1>8, <2>2 DEF StopInterrupted, storeVars, TypeOK, Helper, HelperPc
  <2> QED
    BY <2>1, <2>2
<1>9. CASE StopHalt(p)
  <2>1. CASE Leave(p) /\ UNCHANGED <<state, version>>
    BY <1>9, <2>1, LeaveKeepsType DEF StopHalt, TypeOK
  <2>2. CASE ~(Leave(p) /\ UNCHANGED <<state, version>>)
    <3>1. Transition("pausing", helper[p].seen) /\ UNCHANGED <<started, tracked, task>>
          /\ helper' = [helper EXCEPT ![p].pc = "halted", ![p].seen = version + 1]
      BY <1>9, <2>2 DEF StopHalt
    <3> QED
      BY <1>0, <1>9, <3>1 DEF StopHalt, Transition, Write, TypeOK, Helper, HelperPc, ControlState
  <2> QED
    BY <2>1, <2>2
<1>10. CASE StopPause(p)
  <2>1. state' \in ControlState /\ version' \in Nat
    BY <1>0, <1>10 DEF StopPause, Transition, Write, ControlState
  <2> QED
    BY <1>10, <2>1, LeaveKeepsType DEF StopPause, TypeOK
<1>11. CASE CancelWrite(p)
  <2>1. state' \in ControlState /\ version' \in Nat
    BY <1>0, <1>11 DEF CancelWrite, Transition, Write, ControlState, Terminal
  <2> QED
    BY <1>11, <2>1, IdleIsHelper DEF CancelWrite, TypeOK
<1>12. CASE ReportWrite(p)
  <2>1. helper[p].shows \in ControlState \cup {"none"}
    BY <1>0 DEF Helper
  <2> QED
    BY <1>12, <2>1, IdleIsHelper DEF ReportWrite, TypeOK
<1>13. CASE Crash(p)
  BY <1>13, LeaveKeepsType DEF Crash, storeVars, TypeOK
<1> QED
  BY <1>1, <1>2, <1>3, <1>4, <1>5, <1>6, <1>7, <1>8, <1>9, <1>10, <1>11, <1>12,
     <1>13 DEF HelperStep

(* Every step keeps the types.                                                 *)
LEMMA TypeStep ==
  ASSUME TypeOK, [Next]_vars
  PROVE  TypeOK'
<1>1. CASE UNCHANGED vars
  BY <1>1 DEF vars, storeVars, TypeOK
<1>2. ASSUME NEW k \in Contracts, Timeout(k) PROVE TypeOK'
  BY <1>2 DEF Timeout, storeVars, TypeOK, Task
<1> QED
  BY <1>1, <1>2, RunStepKeepsType, ProcessStepKeepsType DEF Next

-----------------------------------------------------------------------------
(* What a step leaves alone *)

(* No transition leaves a terminal state: every write goes through the table,  *)
(* or starts from a state that is not terminal.                                *)
LEMMA TerminalStays ==
  ASSUME TypeOK, [Next]_vars, state \in Terminal
  PROVE  state' = state
<1>1. \A next \in ControlState, n \in Nat : ~Transition(next, n)
  BY DEF Transition, Allowed, Terminal
<1>2. ASSUME NEW k \in Contracts, RunStep(k) PROVE state' = state
  <2>1. task[k] \in Task /\ task[k].seen \in Nat
    BY DEF TypeOK, Task
  <2>2. Target(k) \in ControlState
    BY <2>1 DEF Target, Task, Outcome, ControlState, Terminal
  <2>3. ~Conclude(k)
    BY <1>1, <2>1, <2>2 DEF Conclude
  <2>4. ~PauseRun(k)
    BY <1>1, <2>1 DEF PauseRun, ControlState
  <2>5. FailActiveRun(k) => state' = state
    BY <1>1, <2>1 DEF FailActiveRun, ControlState, Terminal
  <2> QED
    BY <1>2, <2>3, <2>4, <2>5 DEF RunStep, RefuseExecution, RecordWorktree, RecordExecution,
       SessionStarted, FinishTurn, CleanWorktree, WritePausing, WriteExecution, Settle,
       LoseRace, FailRead, SaveReport, storeVars
<1>3. ASSUME NEW p \in Controllers, HelperStep(p) PROVE state' = state
  <2>1. helper[p].seen \in Nat
    BY DEF TypeOK, Helper
  <2>2. StopHalt(p) => state' = state
    BY <1>1, <2>1 DEF StopHalt, ControlState
  <2>3. StopPause(p) => state' = state
    BY <1>1, <2>1 DEF StopPause, ControlState
  <2>4. CancelWrite(p) => state' = state
    BY <1>1, <2>1 DEF CancelWrite, ControlState, Terminal
  <2> QED
    BY <1>3, <2>2, <2>3, <2>4 DEF HelperStep, StopInterrupted, ReportWrite, storeVars
<1>4. ASSUME NEW p \in Controllers,
             StartController(p) \/ Amend(p) \/ Approve(p) \/ BeginRun(p)
             \/ StopController(p) \/ CancelRead(p) \/ ReportRead(p) \/ Crash(p)
      PROVE  state' = state
  BY <1>4 DEF StartController, Amend, Approve, BeginRun, StopController, CancelRead,
     ReportRead, Crash, storeVars, Terminal
<1> QED
  BY <1>2, <1>3, <1>4 DEF Next, Timeout, vars, storeVars

(* A step of one execution leaves the others, and their records, as they are.  *)
LEMMA RunStepSparesOthers ==
  ASSUME TypeOK, NEW k \in Contracts, RunStep(k), NEW j \in Contracts \ {k}
  PROVE  task'[j] = task[j] /\ row'[j] = row[j] /\ tree'[j] = tree[j]
<1>1. \A pc : GoTo(k, pc) => task'[j] = task[j]
  BY DEF GoTo, TypeOK
<1>2. Return(k) => task'[j] = task[j]
  BY DEF Return, TypeOK
<1>3. task'[j] = task[j]
  BY <1>1, <1>2 DEF TypeOK, RunStep, RefuseExecution, RecordWorktree, RecordExecution,
     SessionStarted, FinishTurn, CleanWorktree, Cleaned, WritePausing, WriteExecution, Settle,
     Conclude, PauseRun, LoseRace, FailRead, FailActiveRun, SaveReport
<1>4. row'[j] = row[j] /\ tree'[j] = tree[j]
  BY DEF TypeOK, RunStep, RefuseExecution, RecordWorktree, RecordExecution,
     SessionStarted, FinishTurn, CleanWorktree, WritePausing, WriteExecution, Settle,
     Conclude, PauseRun, LoseRace, FailRead, FailActiveRun, SaveReport, storeVars
<1> QED
  BY <1>3, <1>4

(* Outside run(), a process leaves an execution where it is, ends it, or has   *)
(* just begun it; recovery sets live rows to paused, and no worktree changes.  *)
LEMMA ProcessStepSparesRecords ==
  ASSUME TypeOK, NEW p \in Controllers,
         \/ StartController(p) \/ Amend(p) \/ Approve(p) \/ BeginRun(p)
         \/ StopController(p) \/ CancelRead(p) \/ ReportRead(p) \/ HelperStep(p) \/ Crash(p),
         NEW k \in Contracts
  PROVE  /\ \/ task'[k] = task[k]
            \/ task'[k] = Ended("crashed")
            \/ task[k].pc = "none" /\ task'[k].pc = "opening"
         /\ row'[k] = row[k] \/ (row[k] \in LiveRow /\ row'[k] = "paused")
         /\ tree'[k] = tree[k]
<1>1. Leave(p) => task'[k] = task[k] \/ task'[k] = Ended("crashed")
  BY DEF Leave, TypeOK
<1>2. BeginRun(p) => \/ task'[k] = task[k]
                     \/ task[k].pc = "none" /\ task'[k].pc = "opening"
  <2>1. task[k] \in Task /\ k \in DOMAIN task /\ active \in DOMAIN task
    BY DEF TypeOK
  <2>2. CASE k = active
    BY <2>1, <2>2 DEF BeginRun, Task
  <2>3. CASE k # active
    BY <2>1, <2>3 DEF BeginRun
  <2> QED
    BY <2>2, <2>3
<1>3. \/ task'[k] = task[k]
      \/ task'[k] = Ended("crashed")
      \/ task[k].pc = "none" /\ task'[k].pc = "opening"
  BY <1>1, <1>2 DEF StartController, Amend, Approve, StopController, CancelRead, ReportRead,
     HelperStep, StopInterrupted, StopHalt, StopPause, CancelWrite, ReportWrite, Crash
<1>4. row'[k] = row[k] \/ (row[k] \in LiveRow /\ row'[k] = "paused")
  <2>1. Recovered[k] = IF row[k] \in LiveRow THEN "paused" ELSE row[k]
    BY DEF Recovered
  <2>2. StartController(p) => row' = row \/ row' = Recovered
    BY DEF StartController
  <2>3. ~StartController(p) => row' = row
    BY DEF Amend, Approve, BeginRun, StopController, CancelRead, ReportRead,
       HelperStep, StopInterrupted, StopHalt, StopPause, CancelWrite, ReportWrite, Crash, storeVars
  <2> QED
    BY <2>1, <2>2, <2>3
<1>5. tree'[k] = tree[k]
  BY DEF StartController, Amend, Approve, BeginRun, StopController, CancelRead, ReportRead,
     HelperStep, StopInterrupted, StopHalt, StopPause, CancelWrite, ReportWrite, Crash, storeVars
<1> QED
  BY <1>3, <1>4, <1>5

-----------------------------------------------------------------------------
(* What an execution records *)

(* A step of an execution keeps its own records in step.                       *)
LEMMA RunStepAccounts ==
  ASSUME TypeOK, NEW k \in Contracts, RunStep(k), AccountsInStep(k), OutcomeIsRecorded(k)
  PROVE  AccountsInStep(k)' /\ OutcomeIsRecorded(k)'
<1> USE DEF AccountsInStep, OutcomeIsRecorded, LiveRow
<1>0. /\ task[k] \in Task
      /\ k \in DOMAIN row /\ k \in DOMAIN tree /\ k \in DOMAIN task
      /\ DOMAIN task[k] = {"pc", "by", "outcome", "late", "seen"}
  BY DEF TypeOK, Task
<1>1. CASE RefuseExecution(k)
  BY <1>0, <1>1 DEF RefuseExecution, storeVars, At
<1>2. CASE RecordWorktree(k)
  BY <1>0, <1>2 DEF RecordWorktree, GoTo, At
<1>3. CASE RecordExecution(k)
  BY <1>0, <1>3 DEF RecordExecution, GoTo, At
<1>4. CASE SessionStarted(k)
  BY <1>0, <1>4 DEF SessionStarted, GoTo, At
<1>5. CASE FinishTurn(k)
  BY <1>0, <1>5 DEF FinishTurn, storeVars, At
<1>6. CASE CleanWorktree(k)
  <2>1. PICK status \in {"removed", "failed"} :
          tree' = [tree EXCEPT ![k] = status] /\ Cleaned(k, status)
    BY <1>6 DEF CleanWorktree
  <2>2. tree'[k] = status /\ row' = row
    BY <1>0, <1>6, <2>1 DEF CleanWorktree
  <2>3. /\ task'[k].pc = "writing"
        /\ task'[k].outcome = IF status = "failed" THEN "failed" ELSE task[k].outcome
    BY <1>0, <2>1 DEF Cleaned
  <2> QED
    BY <1>6, <2>2, <2>3 DEF CleanWorktree, At
<1>7. CASE WritePausing(k)
  BY <1>0, <1>7 DEF WritePausing, GoTo, At
<1>8. CASE WriteExecution(k)
  BY <1>0, <1>8 DEF WriteExecution, GoTo, At, Task, Outcome
<1>9. CASE Settle(k)
  BY <1>0, <1>9 DEF Settle, storeVars, Return, Ended, At
<1>10. CASE Conclude(k)
  BY <1>0, <1>10 DEF Conclude, At
<1>11. CASE PauseRun(k)
  BY <1>0, <1>11 DEF PauseRun, Return, Ended, At
<1>12. CASE LoseRace(k)
  BY <1>0, <1>12 DEF LoseRace, storeVars, Return, Ended, At
<1>13. CASE FailRead(k)
  BY <1>0, <1>13 DEF FailRead, storeVars, Return, Ended, At
<1>14. CASE FailActiveRun(k)
  BY <1>0, <1>14 DEF FailActiveRun, Return, Ended, At
<1>15. CASE SaveReport(k)
  BY <1>0, <1>15 DEF SaveReport, GoTo, Return, Ended, At
<1> QED
  BY <1>1, <1>2, <1>3, <1>4, <1>5, <1>6, <1>7, <1>8, <1>9, <1>10, <1>11, <1>12,
     <1>13, <1>14, <1>15 DEF RunStep

(* A row that says completed or failed is not written again, and its worktree  *)
(* is not touched: only rows that may still change are written.                *)
LEMMA RunStepKeepsConclusions ==
  ASSUME TypeOK, NEW k \in Contracts, RunStep(k), AccountsInStep(k),
         row[k] \in {"completed", "failed"}
  PROVE  row'[k] = row[k] /\ tree'[k] = tree[k]
<1>1. task[k].pc \notin {"opening", "recording", "starting", "turn", "cleaning", "writing", "concluding"}
  BY DEF AccountsInStep, LiveRow
<1> QED
  BY <1>1 DEF At, RunStep, RefuseExecution, RecordWorktree, RecordExecution,
     SessionStarted, FinishTurn, CleanWorktree, WritePausing, WriteExecution, Settle,
     Conclude, PauseRun, LoseRace, FailRead, FailActiveRun, SaveReport, storeVars

(* Every step keeps the records of every execution in step.                    *)
LEMMA AccountsStep ==
  ASSUME TypeOK, [Next]_vars, \A k \in Contracts : AccountsInStep(k) /\ OutcomeIsRecorded(k)
  PROVE  /\ \A k \in Contracts : AccountsInStep(k)' /\ OutcomeIsRecorded(k)'
         /\ \A k \in Contracts :
              row[k] \in {"completed", "failed"} => row'[k] = row[k] /\ tree'[k] = tree[k]
<1> SUFFICES ASSUME NEW k \in Contracts
             PROVE  /\ AccountsInStep(k)' /\ OutcomeIsRecorded(k)'
                    /\ row[k] \in {"completed", "failed"} => row'[k] = row[k] /\ tree'[k] = tree[k]
  OBVIOUS
<1>0. AccountsInStep(k) /\ OutcomeIsRecorded(k)
  OBVIOUS
<1>1. ASSUME task'[k] = task[k], row'[k] = row[k], tree'[k] = tree[k]
      PROVE  AccountsInStep(k)' /\ OutcomeIsRecorded(k)'
  BY <1>0, <1>1 DEF AccountsInStep, OutcomeIsRecorded
<1>2. CASE UNCHANGED vars
  BY <1>1, <1>2 DEF vars, storeVars
<1>3. ASSUME NEW j \in Contracts, RunStep(j)
      PROVE  /\ AccountsInStep(k)' /\ OutcomeIsRecorded(k)'
             /\ row[k] \in {"completed", "failed"} => row'[k] = row[k] /\ tree'[k] = tree[k]
  <2>1. CASE j = k
    BY <1>0, <1>3, <2>1, RunStepAccounts, RunStepKeepsConclusions
  <2>2. CASE j # k
    BY <1>1, <1>3, <2>2, RunStepSparesOthers
  <2> QED
    BY <2>1, <2>2
<1>4. ASSUME NEW j \in Contracts, Timeout(j)
      PROVE  /\ AccountsInStep(k)' /\ OutcomeIsRecorded(k)'
             /\ row'[k] = row[k] /\ tree'[k] = tree[k]
  <2>1. row'[k] = row[k] /\ tree'[k] = tree[k]
    BY <1>4 DEF Timeout, storeVars
  <2>2. task'[k].pc = task[k].pc /\ task'[k].outcome = task[k].outcome
    BY <1>4 DEF Timeout, TypeOK, Task
  <2> QED
    BY <1>0, <2>1, <2>2 DEF AccountsInStep, OutcomeIsRecorded
<1>5. ASSUME NEW p \in Controllers,
             \/ StartController(p) \/ Amend(p) \/ Approve(p) \/ BeginRun(p)
             \/ StopController(p) \/ CancelRead(p) \/ ReportRead(p) \/ HelperStep(p) \/ Crash(p)
      PROVE  /\ AccountsInStep(k)' /\ OutcomeIsRecorded(k)'
             /\ row[k] \in {"completed", "failed"} => row'[k] = row[k] /\ tree'[k] = tree[k]
  <2>1. /\ \/ task'[k] = task[k]
           \/ task'[k] = Ended("crashed")
           \/ task[k].pc = "none" /\ task'[k].pc = "opening"
        /\ row'[k] = row[k] \/ (row[k] \in LiveRow /\ row'[k] = "paused")
        /\ tree'[k] = tree[k]
    BY <1>5, ProcessStepSparesRecords
  <2> QED
    BY <1>0, <2>1 DEF AccountsInStep, OutcomeIsRecorded, Ended, LiveRow
<1> QED
  BY <1>2, <1>3, <1>4, <1>5 DEF Next

(* A run is completed only by a settled execution that recorded its outcome.   *)
LEMMA CompletionStep ==
  ASSUME TypeOK, [Next]_vars, CompletionHasEvidence,
         \A k \in Contracts : AccountsInStep(k) /\ OutcomeIsRecorded(k)
  PROVE  CompletionHasEvidence'
<1> SUFFICES ASSUME state' = "completed"
             PROVE  \E k \in Contracts : row'[k] = "completed" /\ tree'[k] = "removed"
  BY DEF CompletionHasEvidence, Contracts
<1>1. \A k \in Contracts :
        row[k] \in {"completed", "failed"} => row'[k] = row[k] /\ tree'[k] = tree[k]
  BY AccountsStep
<1>2. \A k \in Contracts :
        row[k] = "completed" /\ tree[k] = "removed" => row'[k] = "completed" /\ tree'[k] = "removed"
  BY <1>1
<1>3. CASE state = "completed"
  BY <1>2, <1>3 DEF CompletionHasEvidence
<1>4. CASE state # "completed"
  <2>1. PICK k \in Contracts : Conclude(k)
    BY <1>4 DEF Next, RunStep, RefuseExecution, RecordWorktree, RecordExecution, SessionStarted,
       FinishTurn, CleanWorktree, WritePausing, WriteExecution, Settle, PauseRun, LoseRace,
       FailRead, FailActiveRun, SaveReport, Timeout, StartController, Amend, Approve, BeginRun,
       StopController, CancelRead, ReportRead, HelperStep, StopInterrupted, StopHalt, StopPause,
       CancelWrite, ReportWrite, Crash, Transition, Write, vars, storeVars
  <2>2. task[k].pc = "read" /\ Target(k) = "completed"
    BY <2>1 DEF Conclude, At, Transition, Write
  <2>3. task[k].outcome = "completed"
    BY <2>2 DEF Target
  <2> QED
    BY <1>2, <2>2, <2>3 DEF OutcomeIsRecorded
<1> QED
  BY <1>3, <1>4

-----------------------------------------------------------------------------
(* What a report shows *)

(* A call of run() reaches its report from its own transition only.            *)
LEMMA RunStepReporters ==
  ASSUME TypeOK, NEW k \in Contracts, RunStep(k)
  PROVE  /\ task'[k].pc = "pausing" /\ ~task'[k].late => task'[k].outcome = "paused"
         /\ task'[k].pc = "report" =>
              \/ task[k].pc = "pausing" /\ ~task[k].late /\ task'[k].outcome = task[k].outcome
              \/ task'[k].outcome = state'
<1>0. task[k] \in Task /\ k \in DOMAIN task
  BY DEF TypeOK
<1>1. \A pc : GoTo(k, pc) => task'[k].pc = pc
  BY <1>0 DEF GoTo, Task
<1>2. Return(k) => task'[k].pc = "done"
  BY <1>0 DEF Return, Ended
<1>3. CASE Conclude(k)
  <2>1. CASE Target(k) = "pausing"
    <3>1. /\ task'[k].pc = "pausing"
          /\ task'[k].late = task[k].late
          /\ task'[k].outcome = task[k].outcome
      BY <1>0, <1>3, <2>1 DEF Conclude, Task
    <3>2. task[k].late \/ task[k].outcome = "paused"
      BY <1>0, <2>1 DEF Target, Task, Outcome
    <3> QED
      BY <3>1, <3>2
  <2>2. CASE Target(k) # "pausing"
    <3>1. task'[k].pc = "report" /\ task'[k].outcome = task[k].outcome
      BY <1>0, <1>3, <2>2 DEF Conclude, Task
    <3>2. state' = task[k].outcome
      BY <1>3, <2>2 DEF Conclude, Transition, Write, Target
    <3> QED
      BY <3>1, <3>2
  <2> QED
    BY <2>1, <2>2
<1>4. CASE PauseRun(k)
  <2>1. CASE task[k].late
    BY <1>2, <1>4, <2>1 DEF PauseRun
  <2>2. CASE ~task[k].late
    BY <1>0, <1>4, <2>2 DEF PauseRun, At, Task
  <2> QED
    BY <2>1, <2>2
<1>5. CASE ~Conclude(k) /\ ~PauseRun(k)
  <2>1. RefuseExecution(k) => task'[k].pc = "settled"
    BY <1>0 DEF RefuseExecution, Task
  <2>2. FinishTurn(k) => task'[k].pc = "cleaning"
    BY <1>0 DEF FinishTurn, Task
  <2>3. CleanWorktree(k) => task'[k].pc = "writing"
    BY <1>0 DEF CleanWorktree, Cleaned, Task
  <2>4. Settle(k) => task'[k].pc \in {"read", "done"}
    BY <1>0, <1>2 DEF Settle, Task
  <2>5. LoseRace(k) => task'[k].pc \in {"failing", "done"}
    BY <1>0, <1>2 DEF LoseRace, Task
  <2>6. FailRead(k) => task'[k].pc \in {"fail", "done"}
    BY <1>0, <1>2 DEF FailRead, Task
  <2>7. task'[k].pc \notin {"pausing", "report"}
    BY <1>1, <1>2, <1>5, <2>1, <2>2, <2>3, <2>4, <2>5, <2>6 DEF RunStep, RecordWorktree,
       RecordExecution, SessionStarted, WritePausing, WriteExecution, FailActiveRun, SaveReport
  <2> QED
    BY <2>7
<1> QED
  BY <1>3, <1>4, <1>5

(* A report() in progress keeps what it read, or has just read it.             *)
LEMMA HelperReporters ==
  ASSUME TypeOK, [Next]_vars, NEW p \in Controllers, helper'[p].pc = "reporting"
  PROVE  helper'[p] = helper[p] \/ (helper'[p].shows = state /\ state' = state)
<1>0. helper \in [Controllers -> Helper] /\ helper[p] \in Helper /\ p \in DOMAIN helper
  BY DEF TypeOK
<1>1. ASSUME NEW q \in Controllers, Leave(q)
      PROVE  helper'[p] = helper[p]
  BY <1>0, <1>1 DEF Leave, Idle
<1>2. ASSUME NEW k \in Contracts, RunStep(k) \/ Timeout(k)
      PROVE  helper' = helper
  BY <1>2 DEF RunStep, RefuseExecution, RecordWorktree, RecordExecution, SessionStarted,
     FinishTurn, CleanWorktree, WritePausing, WriteExecution, Settle, Conclude, PauseRun, LoseRace,
     FailRead, FailActiveRun, SaveReport, Timeout
<1>3. ASSUME NEW q \in Controllers,
             \/ StartController(q) \/ Amend(q) \/ Approve(q) \/ BeginRun(q)
             \/ StopController(q) \/ CancelRead(q) \/ HelperStep(q) \/ Crash(q)
      PROVE  helper'[p] = helper[p]
  <2>1. StopController(q) => helper'[p] = helper[p]
    BY <1>0, <1>1 DEF StopController, Helper
  <2>2. CancelRead(q) => helper'[p] = helper[p]
    BY <1>0 DEF CancelRead, Helper
  <2>3. StopInterrupted(q) => helper'[p] = helper[p]
    BY <1>0, <1>1 DEF StopInterrupted, Helper
  <2>4. StopHalt(q) => helper'[p] = helper[p]
    BY <1>0, <1>1 DEF StopHalt, Helper
  <2>5. CancelWrite(q) \/ ReportWrite(q) => helper'[p] = helper[p]
    BY <1>0 DEF CancelWrite, ReportWrite, Idle
  <2> QED
    BY <1>1, <1>3, <2>1, <2>2, <2>3, <2>4, <2>5 DEF StartController, Amend, Approve, BeginRun,
       HelperStep, StopPause, Crash
<1>4. ASSUME NEW q \in Controllers, ReportRead(q)
      PROVE  helper'[p] = helper[p] \/ (helper'[p].shows = state /\ state' = state)
  BY <1>0, <1>4 DEF ReportRead, Helper, storeVars
<1> QED
  BY <1>2, <1>3, <1>4 DEF Next, vars

(* Whoever is about to write a report still knows a state the run came to.     *)
LEMMA ReportersStep ==
  ASSUME TypeOK, [Next]_vars, ReportersKnow
  PROVE  ReportersKnow'
<1>1. state \in Terminal => state' = state
  BY TerminalStays
<1>2. ASSUME NEW k \in Contracts
      PROVE  /\ task'[k].pc = "pausing" /\ ~task'[k].late => task'[k].outcome = "paused"
             /\ task'[k].pc = "report" => task'[k].outcome \in {"paused", state'}
  <2>0. /\ task[k] \in Task
        /\ task[k].pc = "pausing" /\ ~task[k].late => task[k].outcome = "paused"
        /\ task[k].pc = "report" => task[k].outcome \in {"paused", state}
    BY DEF TypeOK, ReportersKnow
  <2>1. task[k].pc = "report" => task[k].outcome \in {"paused", state'}
    BY <1>1, <2>0 DEF Task, Outcome, Terminal
  <2>2. CASE task'[k] = task[k]
    BY <2>0, <2>1, <2>2
  <2>3. ASSUME NEW j \in Contracts, RunStep(j)
        PROVE  /\ task'[k].pc = "pausing" /\ ~task'[k].late => task'[k].outcome = "paused"
               /\ task'[k].pc = "report" => task'[k].outcome \in {"paused", state'}
    <3>1. CASE j = k
      BY <2>0, <2>3, <3>1, RunStepReporters
    <3>2. CASE j # k
      BY <2>2, <2>3, <3>2, RunStepSparesOthers
    <3> QED
      BY <3>1, <3>2
  <2>4. ASSUME NEW j \in Contracts, Timeout(j)
        PROVE  /\ task'[k].pc = "pausing" /\ ~task'[k].late => task'[k].outcome = "paused"
               /\ task'[k].pc = "report" => task'[k].outcome \in {"paused", state'}
    <3>1. \/ task'[k] = task[k]
          \/ task'[k].pc = task[k].pc /\ task[k].pc \in {"opening", "starting", "turn", "cleaning"}
      BY <2>4 DEF Timeout, TypeOK, Task
    <3> QED
      BY <2>2, <3>1
  <2>5. ASSUME NEW p \in Controllers,
               \/ StartController(p) \/ Amend(p) \/ Approve(p) \/ BeginRun(p)
               \/ StopController(p) \/ CancelRead(p) \/ ReportRead(p) \/ HelperStep(p) \/ Crash(p)
        PROVE  /\ task'[k].pc = "pausing" /\ ~task'[k].late => task'[k].outcome = "paused"
               /\ task'[k].pc = "report" => task'[k].outcome \in {"paused", state'}
    <3>1. \/ task'[k] = task[k] \/ task'[k] = Ended("crashed") \/ task'[k].pc = "opening"
      BY <2>5, ProcessStepSparesRecords
    <3> QED
      BY <2>2, <3>1 DEF Ended
  <2>6. CASE UNCHANGED vars
    BY <2>2, <2>6 DEF vars
  <2> QED
    BY <2>3, <2>4, <2>5, <2>6 DEF Next
<1>3. ASSUME NEW p \in Controllers, helper'[p].pc = "reporting", helper'[p].shows \in Terminal
      PROVE  state' = helper'[p].shows
  <2>1. CASE helper'[p] = helper[p]
    BY <1>1, <1>3, <2>1 DEF ReportersKnow
  <2>2. CASE helper'[p].shows = state /\ state' = state
    BY <2>2
  <2> QED
    BY <1>3, <2>1, <2>2, HelperReporters
<1> QED
  BY <1>2, <1>3 DEF ReportersKnow

(* A report that shows an end shows the run's, from the moment it is stored.   *)
LEMMA ReportStep ==
  ASSUME TypeOK, [Next]_vars, ReportersKnow, ReportTellsTheOutcome
  PROVE  ReportTellsTheOutcome'
<1>1. state \in Terminal => state' = state
  BY TerminalStays
<1>2. CASE report' = report
  BY <1>1, <1>2 DEF ReportTellsTheOutcome
<1>3. CASE report' # report
  <2>1. \/ \E k \in Contracts : SaveReport(k)
        \/ \E p \in Controllers : ReportWrite(p)
    BY <1>3 DEF Next, RunStep, RefuseExecution, RecordWorktree, RecordExecution, SessionStarted,
       FinishTurn, CleanWorktree, WritePausing, WriteExecution, Settle, Conclude, PauseRun,
       LoseRace, FailRead, FailActiveRun, Timeout, StartController, Amend, Approve, BeginRun,
       StopController, CancelRead, ReportRead, HelperStep, StopInterrupted, StopHalt, StopPause,
       CancelWrite, Crash, vars, storeVars
  <2>2. ASSUME NEW k \in Contracts, SaveReport(k)
        PROVE  ReportTellsTheOutcome'
    <3>1. task[k].pc = "report" /\ report' = task[k].outcome /\ state' = state
      BY <1>3, <2>2 DEF SaveReport, At
    <3>2. report' \in {"paused", state'}
      BY <3>1 DEF ReportersKnow
    <3> QED
      BY <3>2 DEF ReportTellsTheOutcome, Terminal
  <2>3. ASSUME NEW p \in Controllers, ReportWrite(p)
        PROVE  ReportTellsTheOutcome'
    BY <2>3 DEF ReportWrite, ReportersKnow, ReportTellsTheOutcome
  <2> QED
    BY <2>1, <2>2, <2>3
<1> QED
  BY <1>2, <1>3

-----------------------------------------------------------------------------
(* The theorems *)

(* An approved run, before anybody executes it, satisfies the invariant.       *)
LEMMA InitEstablishes == Init => IInv
<1> SUFFICES ASSUME Init PROVE IInv
  OBVIOUS
<1>1. Ended("none") \in Task /\ Idle \in Helper
  BY EndedIsTask, IdleIsHelper DEF TaskPc
<1>2. TypeOK
  BY <1>1, ContractsAreNumbers DEF Init, TypeOK, ControlState, RowState, TreeState
<1>3. \A k \in Contracts : AccountsInStep(k) /\ OutcomeIsRecorded(k)
  BY DEF Init, AccountsInStep, OutcomeIsRecorded, Ended
<1>4. ReportersKnow
  BY DEF Init, ReportersKnow, Ended, Idle
<1>5. CompletionHasEvidence /\ ReturnedExecutionsAreAccounted /\ ReportTellsTheOutcome
  BY DEF Init, CompletionHasEvidence, ReturnedExecutionsAreAccounted, ReportTellsTheOutcome,
     Ended, Terminal
<1> QED
  BY <1>2, <1>3, <1>4, <1>5 DEF IInv

(* Every step of every process, crashes included, keeps the invariant.         *)
LEMMA StepKeeps == IInv /\ [Next]_vars => IInv'
<1> SUFFICES ASSUME IInv, [Next]_vars PROVE IInv'
  OBVIOUS
<1> USE DEF IInv
<1>1. TypeOK'
  BY TypeStep
<1>2. \A k \in Contracts : AccountsInStep(k)' /\ OutcomeIsRecorded(k)'
  BY AccountsStep
<1>3. ReturnedExecutionsAreAccounted'
  BY <1>2 DEF ReturnedExecutionsAreAccounted, AccountsInStep, Contracts
<1>4. CompletionHasEvidence'
  BY CompletionStep
<1>5. ReportersKnow' /\ ReportTellsTheOutcome'
  BY ReportersStep, ReportStep
<1> QED
  BY <1>1, <1>2, <1>3, <1>4, <1>5 DEF Contracts

(* The invariant of the executions of a run holds whatever processes start,    *)
(* stop, cancel, report and die.                                               *)
THEOREM ControlInvariance == Spec => []IInv
BY InitEstablishes, StepKeeps, PTL DEF Spec

(* The store and the calls in progress keep their types.                       *)
THEOREM ControlTypes == Spec => []TypeOK
<1>1. IInv => TypeOK
  BY DEF IInv
<1> QED
  BY <1>1, ControlInvariance, PTL

(* A completed run has an execution that completed, and whose worktree was     *)
(* removed: controller.ts takes the outcome the port returned after it wrote   *)
(* the row, and the port fails an outcome whose cleanup failed.                *)
THEOREM CompletedRunsHaveEvidence == Spec => []CompletionHasEvidence
<1>1. IInv => CompletionHasEvidence
  BY DEF IInv
<1> QED
  BY <1>1, ControlInvariance, PTL

(* An execution that returned left no worktree pending and no row alive, on    *)
(* every path through the port and after every timeout.                        *)
THEOREM ReturnedExecutionsLeaveNothing == Spec => []ReturnedExecutionsAreAccounted
<1>1. IInv => ReturnedExecutionsAreAccounted
  BY DEF IInv
<1> QED
  BY <1>1, ControlInvariance, PTL

(* A stored report never shows an end the run did not come to.                 *)
THEOREM ReportsTellTheOutcome == Spec => []ReportTellsTheOutcome
<1>1. IInv => ReportTellsTheOutcome
  BY DEF IInv
<1> QED
  BY <1>1, ControlInvariance, PTL

(* No step, recovery included, rewrites an execution row that says completed   *)
(* or failed.                                                                  *)
THEOREM ConclusionsStand == Spec => ConcludedRowsStand
<1>1. IInv /\ [Next]_vars =>
        [\A k \in Contracts : row[k] \in {"completed", "failed"} => row'[k] = row[k]]_vars
  BY AccountsStep DEF IInv
<1> QED
  BY <1>1, ControlInvariance, PTL DEF Spec, ConcludedRowsStand
=============================================================================
