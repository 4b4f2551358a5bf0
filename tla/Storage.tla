------------------------------- MODULE Storage -------------------------------
(***************************************************************************)
(* How long a run is kept, and what is kept with it: the retention          *)
(* deadline, the archive flag, deletion, the purge, and a run's report with  *)
(* its two artifact files (packages/persistence/src/repository.ts and       *)
(* artifacts.ts).                                                           *)
(*                                                                          *)
(* Several processes share one database and one artifact directory.  A      *)
(* transaction is one step; a read outside one, and a file operation, is a  *)
(* step of its own, and a process may die between any two.  The life of a   *)
(* run itself is that of RunLifecycle, reduced here to the four phases that *)
(* deletion and retention tell apart.                                       *)
(***************************************************************************)
EXTENDS Naturals, FiniteSets, SequencesExt

CONSTANTS
  Procs,          \* CLI commands and controllers, a process each
  Runs,           \* run identifiers, never used twice
  SnapshotOf,     \* the snapshot hash of each run: equal inputs, equal hash
  Contents,       \* the reports that may be generated for a run
  Retention,      \* DEFAULT_RETENTION_MILLISECONDS, in ticks of the clock
  MaxClock,       \* bound: the ticks
  NoReport

ASSUME StorageAssumption ==
  /\ Retention \in Nat \ {0} /\ MaxClock \in Nat
  /\ NoReport \notin Contents
  /\ DOMAIN SnapshotOf = Runs
  /\ IsFiniteSet(Runs)

VARIABLES
  run,        \* the runs table, and the worktrees and run_snapshots rows
  snapshots,  \* the snapshots table
  rows,       \* the artifacts table: a row names the file it stands for
  report,     \* the reports table
  files,      \* the files under the artifact root
  clock,
  call        \* where each process is in the call it is making

vars == <<run, snapshots, rows, report, files, clock, call>>

Phase == {"absent", "open", "executing", "stale", "closed", "deleted"}
Stored == {"open", "executing", "stale", "closed"}

(***************************************************************************)
(* A report's content carries its run id, so a content hash belongs to one  *)
(* run: a file is named by its run, its content and its extension.          *)
(***************************************************************************)
Kind == {"json", "md"}
File == [run : Runs, content : Contents, kind : Kind]
FilesOf(r, c) == {f \in File : f.run = r /\ f.content = c}

NoRun == [phase |-> "absent", pinned |-> FALSE, retain |-> 0,
          worktree |-> "none", linked |-> FALSE]

Idle == [op |-> "idle"]

SaveCall == [op : {"json", "md", "commit"}, run : Runs, content : Contents]
ReadCall == [op : {"read"}, file : File]
DeleteCall ==
  [op : {"state", "worktrees", "artifacts", "delete", "unlink"},
   run : Runs, paths : SUBSET File, purge : BOOLEAN, rest : Seq(Runs)]

Deadline == 0 .. MaxClock + Retention

TypeOK ==
  /\ run \in [Runs -> [phase : Phase, pinned : BOOLEAN, retain : Deadline,
                       worktree : {"none", "pending"}, linked : BOOLEAN]]
  /\ snapshots \subseteq {SnapshotOf[r] : r \in Runs}
  /\ rows \subseteq File /\ files \subseteq File
  /\ report \in [Runs -> Contents \cup {NoReport}]
  /\ clock \in 0 .. MaxClock
  /\ \A p \in Procs : \/ call[p] = Idle \/ call[p] \in SaveCall \/ call[p] \in ReadCall
                      \/ call[p] \in DeleteCall

Init ==
  /\ run = [r \in Runs |-> NoRun]
  /\ snapshots = {} /\ rows = {} /\ files = {}
  /\ report = [r \in Runs |-> NoReport]
  /\ clock = 0
  /\ call = [p \in Procs |-> Idle]

Exists(r) == run[r].phase \in Stored

------------------------------------------------------------------------------
(***************************************************************************)
(* The life of a run: one transaction each.                                 *)
(***************************************************************************)
OnlyRuns == UNCHANGED <<snapshots, rows, report, files, clock, call>>

CreateRun(r) ==
  /\ run[r].phase = "absent"
  /\ run' = [run EXCEPT ![r].phase = "open"]
  /\ OnlyRuns

(* saveSnapshot: ON CONFLICT(snapshot_hash) DO NOTHING, then the link. *)
SaveSnapshot(r) ==
  /\ run[r].phase = "open" /\ ~run[r].linked
  /\ snapshots' = snapshots \cup {SnapshotOf[r]}
  /\ run' = [run EXCEPT ![r].linked = TRUE]
  /\ UNCHANGED <<rows, report, files, clock, call>>

(* Nothing is probed or executed before the snapshot is saved.              *)
Moves(r) ==
  CASE run[r].phase = "open"      -> {"stale", "closed"} \cup (IF run[r].linked THEN {"executing"} ELSE {})
    [] run[r].phase = "executing" -> {"open", "stale", "closed"}
    [] OTHER                      -> {}

(* TERMINAL_RETENTION_STATES: completed, failed and cancelled, not stale. *)
RetentionPhasesAndPaused == {"closed", "open"}

RetentionPhases == {"closed"}

RetainUntil(r, next) ==
  IF next \notin RetentionPhases THEN run[r].retain
  ELSE IF run[r].retain # 0 THEN run[r].retain ELSE clock + Retention

(* updateRun, under every transition: COALESCE keeps the first deadline. *)
Transition(r) ==
  \E next \in Moves(r) :
    /\ run' = [run EXCEPT ![r].phase = next, ![r].retain = RetainUntil(r, next)]
    /\ OnlyRuns

RecordWorktree(r) ==
  /\ run[r].phase \in {"open", "executing"} /\ run[r].linked /\ run[r].worktree = "none"
  /\ run' = [run EXCEPT ![r].worktree = "pending"]
  /\ OnlyRuns

RecordCleanup(r) ==
  /\ Exists(r) /\ run[r].worktree = "pending"
  /\ run' = [run EXCEPT ![r].worktree = "none"]
  /\ OnlyRuns

(* setPinned: archive and unarchive, in any state. *)
SetPinned(r) ==
  /\ Exists(r)
  /\ run' = [run EXCEPT ![r].pinned = ~run[r].pinned]
  /\ OnlyRuns

Tick ==
  /\ clock < MaxClock
  /\ clock' = clock + 1
  /\ UNCHANGED <<run, snapshots, rows, report, files, call>>

------------------------------------------------------------------------------
(***************************************************************************)
(* saveReport: the JSON file, the Markdown file, then one transaction.  The *)
(* transaction of a run that has gone fails on its foreign key, and leaves  *)
(* the two files where they are.                                            *)
(***************************************************************************)
Goes(p, c) == call' = [call EXCEPT ![p] = c]

OnlyCalls == UNCHANGED <<run, snapshots, rows, report, files, clock>>

(* Controller.report makes a report where it has found none, and an         *)
(* execution that settles saves its own whatever there is by then.          *)
AskSave(p) ==
  \E r \in Runs, c \in Contents :
    /\ call[p] = Idle /\ Exists(r)
    /\ Goes(p, [op |-> "json", run |-> r, content |-> c])
    /\ OnlyCalls

PutFileCommitFirst(p) ==
  /\ call[p].op \in Kind
  /\ files' = files \cup {[run |-> call[p].run, content |-> call[p].content,
                           kind |-> call[p].op]}
  /\ Goes(p, [call[p] EXCEPT !.op = "commit"])
  /\ UNCHANGED <<run, snapshots, rows, report, clock>>

(* putSanitized: a file that is there already is kept. *)
PutFile(p) ==
  /\ call[p].op \in Kind
  /\ files' = files \cup {[run |-> call[p].run, content |-> call[p].content,
                           kind |-> call[p].op]}
  /\ Goes(p, [call[p] EXCEPT !.op = IF @ = "json" THEN "md" ELSE "commit"])
  /\ UNCHANGED <<run, snapshots, rows, report, clock>>

CommitReport(p) ==
  /\ call[p].op = "commit"
  /\ IF Exists(call[p].run)
     THEN /\ rows' = rows \cup FilesOf(call[p].run, call[p].content)
          /\ report' = [report EXCEPT ![call[p].run] = call[p].content]
     ELSE UNCHANGED <<rows, report>>
  /\ Goes(p, Idle)
  /\ UNCHANGED <<run, snapshots, files, clock>>

(* exportReport: the report's row, then the file its artifact row names. *)
ReadReport(p) ==
  \E r \in Runs, k \in Kind :
    /\ call[p] = Idle /\ report[r] # NoReport
    /\ Goes(p, [op |-> "read", file |-> [run |-> r, content |-> report[r], kind |-> k]])
    /\ OnlyCalls

ReadArtifact(p) ==
  /\ call[p].op = "read"
  /\ Goes(p, Idle)
  /\ OnlyCalls

------------------------------------------------------------------------------
(***************************************************************************)
(* deleteRun, and deleteExpiredRuns, which calls it for one run after the   *)
(* other and stops where it throws.                                         *)
(***************************************************************************)
DeleteOf(r, purge, rest) ==
  [op |-> "state", run |-> r, paths |-> {}, purge |-> purge, rest |-> rest]

NextDelete(rest) == IF rest = <<>> THEN Idle ELSE DeleteOf(Head(rest), TRUE, Tail(rest))

AskDelete(p) ==
  \E r \in Runs :
    /\ call[p] = Idle /\ Exists(r)
    /\ Goes(p, DeleteOf(r, FALSE, <<>>))
    /\ OnlyCalls

Expired == {r \in Runs : Exists(r) /\ ~run[r].pinned /\ run[r].retain # 0 /\ run[r].retain <= clock}

(* One SELECT, in the order of the deadlines. *)
AskPurge(p) ==
  \E queue \in SetToSeqs(Expired) :
    /\ call[p] = Idle /\ queue # <<>>
    /\ \A i, j \in DOMAIN queue : i < j => run[queue[i]].retain <= run[queue[j]].retain
    /\ Goes(p, NextDelete(queue))
    /\ OnlyCalls

(* RUN_NOT_DELETABLE and NOT_FOUND end a purge with the runs it had left. *)
LookAtState(p) ==
  /\ call[p].op = "state"
  /\ Goes(p, IF run[call[p].run].phase \in {"open", "stale", "closed"}
             THEN [call[p] EXCEPT !.op = "worktrees"] ELSE Idle)
  /\ OnlyCalls

LookAtWorktrees(p) ==
  /\ call[p].op = "worktrees"
  /\ Goes(p, IF Exists(call[p].run) /\ run[call[p].run].worktree = "pending"
             THEN Idle ELSE [call[p] EXCEPT !.op = "artifacts"])
  /\ OnlyCalls

LookAtArtifacts(p) ==
  /\ call[p].op = "artifacts"
  /\ Goes(p, [call[p] EXCEPT !.op = "delete", !.paths = {f \in rows : f.run = call[p].run}])
  /\ OnlyCalls

OrphanedBeforeCascade(r) ==
  IF \E s \in Runs : run[s].linked /\ SnapshotOf[s] = SnapshotOf[r]
  THEN {} ELSE {SnapshotOf[r]}

(* The snapshot goes with the last run linked to it, the deleted run's link *)
(* having gone by cascade.                                                  *)
Orphaned(r) ==
  IF \E s \in Runs \ {r} : run[s].linked /\ SnapshotOf[s] = SnapshotOf[r]
  THEN {} ELSE {SnapshotOf[r]}

(* The transaction: the rows of the run go by cascade. *)
DeleteRun(p) ==
  LET r == call[p].run IN
  /\ call[p].op = "delete"
  /\ IF Exists(r)
     THEN /\ run' = [run EXCEPT ![r] = [NoRun EXCEPT !.phase = "deleted"]]
          /\ snapshots' = snapshots \ Orphaned(r)
          /\ rows' = {f \in rows : f.run # r}
          /\ report' = [report EXCEPT ![r] = NoReport]
          /\ Goes(p, [call[p] EXCEPT !.op = "unlink"])
     ELSE Goes(p, Idle) /\ UNCHANGED <<run, snapshots, rows, report>>
  /\ UNCHANGED <<files, clock>>

(* The files of the run, each after a look for a row that still names it: a  *)
(* row of a deleted run never comes back, so look and removal are one step.  *)
RemoveArtifact(p) ==
  /\ call[p].op = "unlink"
  /\ \/ /\ call[p].paths = {}
        /\ Goes(p, NextDelete(call[p].rest))
        /\ UNCHANGED files
     \/ \E f \in call[p].paths :
          /\ files' = IF f \in rows THEN files ELSE files \ {f}
          /\ Goes(p, [call[p] EXCEPT !.paths = @ \ {f}])
  /\ UNCHANGED <<run, snapshots, rows, report, clock>>

(* The process dies, and another takes its place. *)
Crash(p) ==
  /\ call[p] # Idle
  /\ Goes(p, Idle)
  /\ OnlyCalls

RunNext(r) ==
  \/ CreateRun(r) \/ SaveSnapshot(r) \/ Transition(r) \/ RecordWorktree(r) \/ RecordCleanup(r)
  \/ SetPinned(r)

DeleteNext(p) ==
  \/ LookAtState(p) \/ LookAtWorktrees(p) \/ LookAtArtifacts(p) \/ DeleteRun(p) \/ RemoveArtifact(p)

CallNext(p) ==
  \/ AskSave(p) \/ PutFile(p) \/ CommitReport(p) \/ ReadReport(p) \/ ReadArtifact(p)
  \/ AskDelete(p) \/ AskPurge(p) \/ DeleteNext(p) \/ Crash(p)

Next == (\E r \in Runs : RunNext(r)) \/ (\E p \in Procs : CallNext(p)) \/ Tick

Spec == Init /\ [][Next]_vars

------------------------------------------------------------------------------
(***************************************************************************)
(* Every artifact row has its file: readArtifact finds what getReport named,*)
(* whatever reports and deletions of other processes ran in between, unless *)
(* the run itself has been deleted since.                                   *)
(***************************************************************************)
RowsHaveTheirFiles ==
  /\ rows \subseteq files
  /\ \A p \in Procs : call[p].op = "read" /\ Exists(call[p].file.run) => call[p].file \in files

(***************************************************************************)
(* A snapshot is kept as long as a run is linked to it, whichever of the    *)
(* runs that share it is deleted first, and not a step longer.              *)
(***************************************************************************)
SnapshotsGoWithTheLastRun ==
  snapshots = {SnapshotOf[r] : r \in {s \in Runs : run[s].linked}}

(***************************************************************************)
(* Between the SELECT of a purge and its turn to delete a run, nothing can  *)
(* have brought the run back to life or moved its deadline: a purge takes   *)
(* only runs that are over and have been kept for their seven days.         *)
(***************************************************************************)
PurgeTakesOnlyWhatExpired ==
  [][\A p \in Procs : call[p].op = "delete" /\ call[p].purge /\ call'[p].op = "unlink"
       => LET r == run[call[p].run] IN
          r.phase = "closed" /\ r.retain # 0 /\ r.retain <= clock]_vars
==============================================================================
