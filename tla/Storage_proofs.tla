---------------------------- MODULE Storage_proofs ----------------------------
(***************************************************************************)
(* Proofs about Storage, for any processes, runs, reports and bounds: what   *)
(* a call has found out stays true while other processes take their steps,  *)
(* for a call in progress names only runs that exist or are gone for good.  *)
(***************************************************************************)
EXTENDS Storage, TLAPS, FiniteSetTheorems

-----------------------------------------------------------------------------
(* The inductive invariant *)

Overdue(r) == run[r].phase = "closed" /\ run[r].retain # 0 /\ run[r].retain <= clock

(* The run is over for good, or waits for its purge.                           *)
Doomed(r) == run[r].phase = "deleted" \/ Overdue(r)

(* The files that a report in progress has written already.                    *)
Written(c) ==
  {f \in FilesOf(c.run, c.content) : c.op = "commit" \/ (c.op = "md" /\ f.kind = "json")}

CallOK(c) ==
  \/ c = Idle
  \/ /\ c \in SaveCall
     /\ run[c.run].phase # "absent"
     /\ Exists(c.run) => Written(c) \subseteq files
  \/ /\ c \in ReadCall
     /\ run[c.file.run].phase # "absent"
     /\ Exists(c.file.run) => c.file \in files
  \/ /\ c \in DeleteCall
     /\ run[c.run].phase # "absent"
     /\ \A f \in c.paths : f.run = c.run
     /\ c.op = "unlink" => run[c.run].phase = "deleted"
     /\ c.purge => Doomed(c.run)
     /\ \A i \in DOMAIN c.rest : Doomed(c.rest[i])

RunType ==
  [phase : Phase, pinned : BOOLEAN, retain : Deadline,
   worktree : {"none", "pending"}, linked : BOOLEAN]

(* A run has links and a deadline only while it has a row of its own.          *)
RunOK(r) ==
  /\ run[r].linked => Exists(r)
  /\ run[r].retain # 0 => run[r].phase = "closed"

IInv ==
  /\ run \in [Runs -> RunType] /\ \A r \in Runs : RunOK(r)
  /\ SnapshotsGoWithTheLastRun
  /\ rows \subseteq File /\ files \subseteq File
  /\ \A f \in rows : Exists(f.run) /\ f \in files
  /\ report \in [Runs -> Contents \cup {NoReport}]
  /\ \A r \in Runs : report[r] # NoReport => Exists(r) /\ FilesOf(r, report[r]) \subseteq rows
  /\ clock \in 0 .. MaxClock
  /\ DOMAIN call = Procs /\ \A p \in Procs : CallOK(call[p])

-----------------------------------------------------------------------------
(* The frame *)

(* What no step takes back: a deletion, the end of a run, and a file of a run  *)
(* that still exists.                                                          *)
Evolves ==
  /\ \A r \in Runs :
       /\ run[r].phase # "absent" => run'[r].phase # "absent" /\ (Exists(r)' => Exists(r))
       /\ Doomed(r) => Doomed(r)'
       /\ run[r].phase = "deleted" => run'[r].phase = "deleted"
  /\ \A f \in files : f \in files' \/ ~Exists(f.run)'

(* A call that takes no step is as good after a step of another process.       *)
LEMMA Frame ==
  ASSUME NEW c, CallOK(c), Evolves, files \subseteq File
  PROVE  CallOK(c)'
<1>1. CASE c = Idle
  BY <1>1 DEF CallOK
<1>2. CASE c \in SaveCall /\ run[c.run].phase # "absent" /\ (Exists(c.run) => Written(c) \subseteq files)
  <2>1. c.run \in Runs /\ \A f \in Written(c) : f.run = c.run
    BY <1>2 DEF SaveCall, Written, FilesOf
  <2>2. run'[c.run].phase # "absent" /\ (Exists(c.run)' => Exists(c.run))
    BY <1>2, <2>1 DEF Evolves
  <2>3. Exists(c.run)' => Written(c) \subseteq files'
    BY <1>2, <2>1, <2>2 DEF Evolves
  <2> QED
    BY <1>2, <2>2, <2>3 DEF CallOK, Written
<1>3. CASE c \in ReadCall /\ run[c.file.run].phase # "absent" /\ (Exists(c.file.run) => c.file \in files)
  <2>1. c.file.run \in Runs
    BY <1>3 DEF ReadCall, File
  <2> QED
    BY <1>3, <2>1 DEF CallOK, Evolves
<1>4. CASE /\ c \in DeleteCall
           /\ run[c.run].phase # "absent"
           /\ \A f \in c.paths : f.run = c.run
           /\ c.op = "unlink" => run[c.run].phase = "deleted"
           /\ c.purge => Doomed(c.run)
           /\ \A i \in DOMAIN c.rest : Doomed(c.rest[i])
  <2>1. c.run \in Runs /\ \A i \in DOMAIN c.rest : c.rest[i] \in Runs
    BY <1>4 DEF DeleteCall
  <2> QED
    BY <1>4, <2>1 DEF CallOK, Evolves
<1> QED
  BY <1>1, <1>2, <1>3, <1>4 DEF CallOK

LEMMA OthersStand ==
  ASSUME IInv, Evolves, NEW q \in Procs, call'[q] = call[q]
  PROVE  CallOK(call[q])'
<1>1. PICK c : c = call[q] /\ c = call'[q]
  OBVIOUS
<1>2. CallOK(c)
  BY <1>1 DEF IInv
<1>3. CallOK(c)'
  BY <1>2, Frame DEF IInv
<1> QED
  BY <1>1, <1>3 DEF CallOK, Exists, Doomed, Overdue, Written

(* So a step of one process has only that process's call to account for.       *)
LEMMA CallStep ==
  ASSUME IInv, Evolves, NEW p \in Procs, NEW c,
         call' = [call EXCEPT ![p] = c], CallOK(c)'
  PROVE  DOMAIN call' = Procs /\ \A q \in Procs : CallOK(call[q])'
<1>1. DOMAIN call' = Procs
  BY DEF IInv
<1>2. ASSUME NEW q \in Procs
      PROVE  CallOK(call[q])'
  <2>1. CASE q = p
    <3>1. call'[q] = c
      BY <2>1 DEF IInv
    <3> QED
      BY <3>1 DEF CallOK, Exists, Doomed, Overdue, Written
  <2>2. CASE q # p
    <3>1. call'[q] = call[q]
      BY <2>2 DEF IInv
    <3> QED
      BY <3>1, OthersStand
  <2> QED
    BY <2>1, <2>2
<1> QED
  BY <1>1, <1>2

LEMMA CallsStand ==
  ASSUME IInv, Evolves, UNCHANGED call
  PROVE  DOMAIN call' = Procs /\ \A q \in Procs : CallOK(call[q])'
BY OthersStand DEF IInv

-----------------------------------------------------------------------------
(* The life of a run *)

(* A run that is not deleted may change its row as long as it stays linked, or *)
(* not, as it was, and keeps its deadline once it is closed.                   *)
LEMMA RowStep ==
  ASSUME IInv, NEW r \in Runs, NEW w \in RunType,
         run' = [run EXCEPT ![r] = w],
         run[r].phase # "deleted", w.phase \in Stored, w.linked = run[r].linked,
         run[r].phase = "closed" => w.phase = "closed" /\ w.retain = run[r].retain,
         w.retain # 0 => w.phase = "closed",
         OnlyRuns
  PROVE  IInv'
<1> USE DEF IInv, OnlyRuns
<1>1. /\ run'[r] = w
      /\ \A s \in Runs \ {r} : run'[s] = run[s]
      /\ run' \in [Runs -> RunType]
  OBVIOUS
<1>2. /\ Exists(r)'
      /\ \A s \in Runs \ {r} : Exists(s)' <=> Exists(s)
      /\ \A s \in Runs : run'[s].linked = run[s].linked
  BY <1>1 DEF Exists
<1>3. \A s \in Runs : RunOK(s)'
  BY <1>1, <1>2 DEF RunOK
<1>4. Evolves
  <2>1. run[r].phase # "absent" => Exists(r)
    BY DEF Exists, RunType, Phase, Stored
  <2>2. \A s \in Runs : Doomed(s) => Doomed(s)'
    BY <1>1 DEF Doomed, Overdue
  <2> QED
    BY <1>1, <1>2, <2>1, <2>2 DEF Evolves, Stored
<1>5. SnapshotsGoWithTheLastRun'
  BY <1>2 DEF SnapshotsGoWithTheLastRun
<1>6. \A f \in rows' : Exists(f.run)' /\ f \in files'
  BY <1>2 DEF File
<1>7. \A s \in Runs : report'[s] # NoReport => Exists(s)' /\ FilesOf(s, report'[s]) \subseteq rows'
  BY <1>2
<1> QED
  BY <1>1, <1>3, <1>4, <1>5, <1>6, <1>7, CallsStand DEF FilesOf

(* The record that a row becomes.                                              *)
LEMMA WorktreeUpdate ==
  ASSUME NEW t \in RunType, NEW x \in {"none", "pending"}
  PROVE  [t EXCEPT !.worktree = x] \in RunType
BY DEF RunType

LEMMA FlagUpdate ==
  ASSUME NEW t \in RunType, NEW b \in BOOLEAN
  PROVE  [t EXCEPT !.pinned = b] \in RunType /\ [t EXCEPT !.linked = b] \in RunType
BY DEF RunType

LEMMA RunTypes ==
  ASSUME IInv, NEW r \in Runs
  PROVE  /\ run[r] \in RunType
         /\ run[r].phase \in Phase /\ run[r].retain \in Deadline /\ run[r].pinned \in BOOLEAN
         /\ RunOK(r)
         /\ 0 \in Deadline /\ clock + Retention \in Deadline /\ clock + Retention # 0
<1>1. run[r] \in RunType /\ RunOK(r) /\ clock \in 0 .. MaxClock
  BY DEF IInv
<1>2. /\ 0 \in Deadline /\ clock + Retention \in Deadline /\ clock + Retention # 0
  BY <1>1, StorageAssumption DEF Deadline
<1> QED
  BY <1>1, <1>2 DEF RunType

LEMMA CreateRunKeeps ==
  ASSUME IInv, NEW r \in Runs, CreateRun(r)
  PROVE  IInv'
<1> DEFINE w == [run[r] EXCEPT !.phase = "open", !.retain = run[r].retain]
<1>1. w \in RunType /\ w.phase = "open" /\ w.retain = run[r].retain /\ w.linked = run[r].linked
  <2>1. run[r] \in RunType /\ "open" \in Phase /\ run[r].retain \in Deadline
    BY RunTypes DEF Phase
  <2> QED
    BY <2>1 DEF RunType
<1>2. run' = [run EXCEPT ![r] = w]
  BY RunTypes DEF CreateRun, RunType, IInv
<1>3. run[r].retain = 0 /\ run[r].phase = "absent" /\ OnlyRuns
  BY RunTypes DEF RunOK, CreateRun
<1> HIDE DEF w
<1> QED
  BY <1>1, <1>2, <1>3, RowStep DEF Stored

LEMMA TransitionKeeps ==
  ASSUME IInv, NEW r \in Runs, Transition(r)
  PROVE  IInv'
<1>1. PICK next \in Moves(r) :
        /\ run' = [run EXCEPT ![r].phase = next, ![r].retain = RetainUntil(r, next)]
        /\ OnlyRuns
  BY DEF Transition
<1>2. /\ next \in {"open", "executing", "stale", "closed"}
      /\ run[r].phase \in {"open", "executing"}
  BY DEF Moves
<1>3. /\ RetainUntil(r, next) \in Deadline
      /\ RetainUntil(r, next) # 0 => next = "closed"
  BY <1>2, RunTypes DEF RetainUntil, RetentionPhases, RunOK
<1> DEFINE w == [run[r] EXCEPT !.phase = next, !.retain = RetainUntil(r, next)]
<1>4. /\ w \in RunType /\ w.phase = next /\ w.linked = run[r].linked
      /\ w.retain = RetainUntil(r, next)
  <2>1. run[r] \in RunType /\ next \in Phase
    BY <1>2, RunTypes DEF Phase
  <2> QED
    BY <1>3, <2>1 DEF RunType
<1>5. run' = [run EXCEPT ![r] = w]
  BY <1>1, RunTypes DEF RunType, IInv
<1> HIDE DEF w
<1> QED
  BY <1>1, <1>2, <1>3, <1>4, <1>5, RowStep DEF Stored

(* The worktree and the archive flag are nobody's business here.               *)
LEMMA MarkKeeps ==
  ASSUME IInv, NEW r \in Runs, RecordWorktree(r) \/ RecordCleanup(r) \/ SetPinned(r)
  PROVE  IInv'
<1>1. PICK w \in RunType :
        /\ run' = [run EXCEPT ![r] = w]
        /\ w.phase = run[r].phase /\ w.retain = run[r].retain /\ w.linked = run[r].linked
  <2>1. CASE RecordWorktree(r)
    <3>1. [run[r] EXCEPT !.worktree = "pending"] \in RunType
      BY RunTypes, WorktreeUpdate
    <3> QED
      BY <2>1, <3>1, RunTypes DEF RecordWorktree, RunType, IInv
  <2>2. CASE RecordCleanup(r)
    <3>1. [run[r] EXCEPT !.worktree = "none"] \in RunType
      BY RunTypes, WorktreeUpdate
    <3> QED
      BY <2>2, <3>1, RunTypes DEF RecordCleanup, RunType, IInv
  <2>3. CASE SetPinned(r)
    <3>1. [run[r] EXCEPT !.pinned = ~run[r].pinned] \in RunType
      BY RunTypes, FlagUpdate, Zenon
    <3> QED
      BY <2>3, <3>1, RunTypes DEF SetPinned, RunType, IInv
  <2> QED
    BY <2>1, <2>2, <2>3
<1>2. OnlyRuns /\ run[r].phase \in Stored
  BY DEF RecordWorktree, RecordCleanup, SetPinned, Exists, Stored
<1> QED
  BY <1>1, <1>2, RunTypes, RowStep DEF Stored, RunOK

LEMMA SaveSnapshotKeeps ==
  ASSUME IInv, NEW r \in Runs, SaveSnapshot(r)
  PROVE  IInv'
<1> USE DEF IInv, SaveSnapshot
<1>1. /\ run'[r] = [run[r] EXCEPT !.linked = TRUE]
      /\ \A s \in Runs \ {r} : run'[s] = run[s]
  OBVIOUS
<1>2. run' \in [Runs -> RunType]
  <2>1. [run[r] EXCEPT !.linked = TRUE] \in RunType
    BY FlagUpdate, Zenon
  <2> QED
    BY <2>1
<1>3. /\ run'[r].phase = "open" /\ run'[r].linked
      /\ \A s \in Runs : run'[s].phase = run[s].phase /\ run'[s].retain = run[s].retain
      /\ \A s \in Runs \ {r} : run'[s].linked = run[s].linked
  BY <1>1 DEF RunType
<1>4. \A s \in Runs : (Exists(s)' <=> Exists(s)) /\ (Doomed(s)' <=> Doomed(s)) /\ RunOK(s)'
  BY <1>3 DEF Exists, Doomed, Overdue, RunOK, Stored
<1>5. Evolves
  BY <1>3, <1>4 DEF Evolves
<1>6. SnapshotsGoWithTheLastRun'
  <2>1. snapshots' = {SnapshotOf[s] : s \in {t \in Runs : run[t].linked}} \cup {SnapshotOf[r]}
    BY DEF SnapshotsGoWithTheLastRun
  <2>2. {t \in Runs : run'[t].linked} = {t \in Runs : run[t].linked} \cup {r}
    BY <1>3
  <2> QED
    BY <2>1, <2>2 DEF SnapshotsGoWithTheLastRun
<1>7. \A f \in rows' : Exists(f.run)' /\ f \in files'
  BY <1>4 DEF File
<1>8. \A s \in Runs : report'[s] # NoReport => Exists(s)' /\ FilesOf(s, report'[s]) \subseteq rows'
  BY <1>4
<1> QED
  BY <1>2, <1>4, <1>5, <1>6, <1>7, <1>8, CallsStand DEF FilesOf

LEMMA TickKeeps ==
  ASSUME IInv, Tick
  PROVE  IInv'
<1> USE DEF IInv, Tick
<1>1. clock' \in 0 .. MaxClock /\ clock <= clock'
  BY StorageAssumption
<1>2. \A s \in Runs : (Exists(s)' <=> Exists(s)) /\ RunOK(s)'
  BY DEF Exists, RunOK
<1>3. Evolves
  <2>1. \A s \in Runs : Doomed(s) => Doomed(s)'
    BY <1>1, RunTypes DEF Doomed, Overdue, Deadline
  <2> QED
    BY <1>2, <2>1 DEF Evolves
<1>4. SnapshotsGoWithTheLastRun'
  BY DEF SnapshotsGoWithTheLastRun
<1> QED
  BY <1>1, <1>2, <1>3, <1>4, CallsStand DEF Exists, FilesOf, File

-----------------------------------------------------------------------------
(* The calls *)

(* A step that only moves a call: what the call becomes is all that counts.    *)
LEMMA Moved ==
  ASSUME IInv, NEW p \in Procs, NEW c, Goes(p, c), OnlyCalls, CallOK(c)
  PROVE  IInv'
<1> USE DEF OnlyCalls
<1>1. Evolves
  BY DEF Evolves, Exists, Doomed, Overdue
<1>2. CallOK(c)'
  BY DEF CallOK, Exists, Doomed, Overdue, Written
<1>3. DOMAIN call' = Procs /\ \A q \in Procs : CallOK(call[q])'
  BY <1>1, <1>2, CallStep DEF Goes
<1> QED
  BY <1>3 DEF IInv, RunOK, Exists, SnapshotsGoWithTheLastRun

LEMMA IdleIsOK == CallOK(Idle)
BY DEF CallOK

(* What a call is about can be told from where it is.                          *)
LEMMA CallKinds ==
  ASSUME IInv, NEW p \in Procs
  PROVE  /\ call[p].op \in {"json", "md", "commit"} =>
              /\ call[p] \in SaveCall /\ run[call[p].run].phase # "absent"
              /\ Exists(call[p].run) => Written(call[p]) \subseteq files
         /\ call[p].op \in {"state", "worktrees", "artifacts", "delete", "unlink"} =>
              /\ call[p] \in DeleteCall /\ run[call[p].run].phase # "absent"
              /\ \A f \in call[p].paths : f.run = call[p].run
              /\ call[p].op = "unlink" => run[call[p].run].phase = "deleted"
              /\ call[p].purge => Doomed(call[p].run)
              /\ \A i \in DOMAIN call[p].rest : Doomed(call[p].rest[i])
BY DEF IInv, CallOK, Idle, SaveCall, ReadCall, DeleteCall

LEMMA AskSaveKeeps ==
  ASSUME IInv, NEW p \in Procs, AskSave(p)
  PROVE  IInv'
<1>1. PICK r \in Runs, k \in Contents :
        Exists(r) /\ Goes(p, [op |-> "json", run |-> r, content |-> k]) /\ OnlyCalls
  BY DEF AskSave
<1> DEFINE c == [op |-> "json", run |-> r, content |-> k]
<1>2. c \in SaveCall /\ c.run = r /\ Written(c) = {}
  BY DEF SaveCall, Written
<1>3. run[r].phase # "absent"
  BY <1>1 DEF Exists, Stored
<1> QED
  BY <1>1, <1>2, <1>3, Moved DEF CallOK

LEMMA ReadReportKeeps ==
  ASSUME IInv, NEW p \in Procs, ReadReport(p)
  PROVE  IInv'
<1>1. PICK r \in Runs, k \in Kind :
        /\ report[r] # NoReport
        /\ Goes(p, [op |-> "read", file |-> [run |-> r, content |-> report[r], kind |-> k]])
        /\ OnlyCalls
  BY DEF ReadReport
<1> DEFINE f == [run |-> r, content |-> report[r], kind |-> k]
           c == [op |-> "read", file |-> f]
<1>2. report[r] \in Contents /\ Exists(r) /\ FilesOf(r, report[r]) \subseteq rows
  BY <1>1 DEF IInv
<1>3. f \in File /\ f.run = r
  BY <1>2 DEF File
<1>4. f \in files
  BY <1>2, <1>3 DEF FilesOf, IInv
<1>5. run[r].phase # "absent"
  BY <1>2 DEF Exists, Stored
<1>6. c \in ReadCall /\ c.file = f
  BY <1>3 DEF ReadCall
<1> HIDE DEF f
<1>7. CallOK(c)
  BY <1>3, <1>4, <1>5, <1>6 DEF CallOK
<1> QED
  BY <1>1, <1>7, Moved DEF f

LEMMA AnswerKeeps ==
  ASSUME IInv, NEW p \in Procs, ReadArtifact(p) \/ Crash(p)
  PROVE  IInv'
BY Moved, IdleIsOK DEF ReadArtifact, Crash

(* The first step of the next deletion, or none.                               *)
LEMMA NextDeleteOK ==
  ASSUME IInv, NEW q \in Seq(Runs), \A i \in DOMAIN q : Doomed(q[i])
  PROVE  CallOK(NextDelete(q))
<1>1. CASE q = <<>>
  BY <1>1, IdleIsOK DEF NextDelete
<1>2. CASE q # <<>>
  <2>1. /\ Head(q) \in Runs /\ Tail(q) \in Seq(Runs)
        /\ Head(q) = q[1] /\ 1 \in DOMAIN q
        /\ \A i \in DOMAIN Tail(q) : i + 1 \in DOMAIN q /\ Tail(q)[i] = q[i + 1]
    BY <1>2
  <2>2. Doomed(Head(q)) /\ \A i \in DOMAIN Tail(q) : Doomed(Tail(q)[i])
    BY <2>1
  <2>3. run[Head(q)].phase # "absent"
    BY <2>2 DEF Doomed, Overdue
  <2>4. DeleteOf(Head(q), TRUE, Tail(q)) \in DeleteCall
    BY <2>1 DEF DeleteOf, DeleteCall
  <2> QED
    BY <1>2, <2>2, <2>3, <2>4 DEF NextDelete, DeleteOf, CallOK
<1> QED
  BY <1>1, <1>2

LEMMA AskDeleteKeeps ==
  ASSUME IInv, NEW p \in Procs, AskDelete(p)
  PROVE  IInv'
<1>1. PICK r \in Runs : Exists(r) /\ Goes(p, DeleteOf(r, FALSE, <<>>)) /\ OnlyCalls
  BY DEF AskDelete
<1>2. DeleteOf(r, FALSE, <<>>) \in DeleteCall
  BY DEF DeleteOf, DeleteCall
<1>3. run[r].phase # "absent"
  BY <1>1 DEF Exists, Stored
<1>4. CallOK(DeleteOf(r, FALSE, <<>>))
  BY <1>2, <1>3 DEF CallOK, DeleteOf
<1> QED
  BY <1>1, <1>4, Moved

LEMMA AskPurgeKeeps ==
  ASSUME IInv, NEW p \in Procs, AskPurge(p)
  PROVE  IInv'
<1>1. PICK q \in SetToSeqs(Expired) : Goes(p, NextDelete(q)) /\ OnlyCalls
  BY DEF AskPurge
<1>2. Expired \subseteq Runs /\ \A r \in Expired : Doomed(r)
  BY DEF Expired, Doomed, Overdue, IInv, RunOK
<1>3. Cardinality(Expired) \in Nat
  BY <1>2, StorageAssumption, FS_Subset, FS_CardinalityType
<1>4. q \in [1 .. Cardinality(Expired) -> Expired]
  BY DEF SetToSeqs
<1>5. q \in Seq(Runs) /\ \A i \in DOMAIN q : Doomed(q[i])
  BY <1>2, <1>3, <1>4
<1> QED
  BY <1>1, <1>5, NextDeleteOK, Moved

(* A deletion that goes on to its next step, with the paths it has read.       *)
LEMMA DeleteGoesOn ==
  ASSUME IInv, NEW p \in Procs,
         call[p].op \in {"state", "worktrees", "artifacts"},
         NEW op \in {"worktrees", "artifacts", "delete"}, NEW paths \in SUBSET File,
         \A f \in paths : f.run = call[p].run
  PROVE  CallOK([call[p] EXCEPT !.op = op, !.paths = paths])
<1> DEFINE c == [call[p] EXCEPT !.op = op, !.paths = paths]
<1>1. /\ call[p] \in DeleteCall /\ run[call[p].run].phase # "absent"
      /\ call[p].purge => Doomed(call[p].run)
      /\ \A i \in DOMAIN call[p].rest : Doomed(call[p].rest[i])
  BY CallKinds
<1>2. /\ c \in DeleteCall /\ c.run = call[p].run /\ c.rest = call[p].rest
      /\ c.purge = call[p].purge /\ c.op = op /\ c.paths = paths
  BY <1>1 DEF DeleteCall
<1> HIDE DEF c
<1>3. CallOK(c)
  BY <1>1, <1>2 DEF CallOK
<1> QED
  BY <1>3 DEF c

LEMMA LookKeeps ==
  ASSUME IInv, NEW p \in Procs, LookAtState(p) \/ LookAtWorktrees(p) \/ LookAtArtifacts(p)
  PROVE  IInv'
<1>1. CASE LookAtState(p)
  <2>1. call[p] \in DeleteCall /\ \A f \in call[p].paths : f.run = call[p].run
    BY <1>1, CallKinds DEF LookAtState
  <2>2. [call[p] EXCEPT !.op = "worktrees"] = [call[p] EXCEPT !.op = "worktrees", !.paths = call[p].paths]
    BY <2>1 DEF DeleteCall
  <2>3. CallOK([call[p] EXCEPT !.op = "worktrees", !.paths = call[p].paths])
    BY <1>1, <2>1, DeleteGoesOn DEF LookAtState, DeleteCall
  <2> QED
    BY <1>1, <2>2, <2>3, IdleIsOK, Moved DEF LookAtState
<1>2. CASE LookAtWorktrees(p)
  <2>1. call[p] \in DeleteCall /\ \A f \in call[p].paths : f.run = call[p].run
    BY <1>2, CallKinds DEF LookAtWorktrees
  <2>2. [call[p] EXCEPT !.op = "artifacts"] = [call[p] EXCEPT !.op = "artifacts", !.paths = call[p].paths]
    BY <2>1 DEF DeleteCall
  <2>3. CallOK([call[p] EXCEPT !.op = "artifacts", !.paths = call[p].paths])
    BY <1>2, <2>1, DeleteGoesOn DEF LookAtWorktrees, DeleteCall
  <2> QED
    BY <1>2, <2>2, <2>3, IdleIsOK, Moved DEF LookAtWorktrees
<1>3. CASE LookAtArtifacts(p)
  <2> DEFINE paths == {f \in rows : f.run = call[p].run}
  <2>1. paths \in SUBSET File /\ \A f \in paths : f.run = call[p].run
    BY DEF IInv
  <2>2. CallOK([call[p] EXCEPT !.op = "delete", !.paths = paths])
    BY <1>3, <2>1, DeleteGoesOn DEF LookAtArtifacts
  <2> QED
    BY <1>3, <2>2, Moved DEF LookAtArtifacts
<1> QED
  BY <1>1, <1>2, <1>3

LEMMA PutFileKeeps ==
  ASSUME IInv, NEW p \in Procs, PutFile(p)
  PROVE  IInv'
<1>1. PICK b : b = call[p]
  OBVIOUS
<1>2. PICK f : f = [run |-> b.run, content |-> b.content, kind |-> b.op]
  OBVIOUS
<1>3. PICK c : c = [b EXCEPT !.op = IF @ = "json" THEN "md" ELSE "commit"]
  OBVIOUS
<1>4. /\ b.op \in Kind /\ files' = files \cup {f} /\ call' = [call EXCEPT ![p] = c]
      /\ UNCHANGED <<run, snapshots, rows, report, clock>>
  BY <1>1, <1>2, <1>3 DEF PutFile, Goes
<1>5. /\ b \in SaveCall /\ run[b.run].phase # "absent"
      /\ Exists(b.run) => Written(b) \subseteq files
  BY <1>1, <1>4, CallKinds DEF Kind
<1>6. f \in File
  BY <1>2, <1>4, <1>5 DEF SaveCall, File
<1>7. /\ c \in SaveCall /\ c.run = b.run /\ c.content = b.content
      /\ c.op = IF b.op = "json" THEN "md" ELSE "commit"
  BY <1>3, <1>5 DEF SaveCall
<1>8. Written(c) \subseteq Written(b) \cup {f}
  BY <1>2, <1>4, <1>6, <1>7 DEF Written, FilesOf, File, Kind
<1>9. CallOK(c)'
  <2>1. Exists(c.run)' => Written(c) \subseteq files'
    BY <1>4, <1>5, <1>7, <1>8 DEF Exists
  <2> QED
    BY <1>4, <1>5, <1>7, <2>1 DEF CallOK, Written
<1>10. Evolves
  BY <1>4 DEF Evolves, Exists, Doomed, Overdue
<1>11. DOMAIN call' = Procs /\ \A q \in Procs : CallOK(call[q])'
  BY <1>4, <1>9, <1>10, CallStep
<1> QED
  BY <1>4, <1>6, <1>11 DEF IInv, RunOK, Exists, SnapshotsGoWithTheLastRun

LEMMA CommitReportKeeps ==
  ASSUME IInv, NEW p \in Procs, CommitReport(p)
  PROVE  IInv'
<1>1. PICK b : b = call[p]
  OBVIOUS
<1>2. PICK r, k : r = b.run /\ k = b.content
  OBVIOUS
<1>3. /\ b.op = "commit" /\ Goes(p, Idle) /\ UNCHANGED <<run, snapshots, files, clock>>
      /\ IF Exists(r) THEN rows' = rows \cup FilesOf(r, k) /\ report' = [report EXCEPT ![r] = k]
                      ELSE UNCHANGED <<rows, report>>
  BY <1>1, <1>2 DEF CommitReport
<1>4. b \in SaveCall /\ (Exists(r) => Written(b) \subseteq files)
  BY <1>1, <1>2, <1>3, CallKinds
<1>5. r \in Runs /\ k \in Contents
  BY <1>2, <1>4 DEF SaveCall
<1>6. Written(b) = FilesOf(r, k)
  BY <1>2, <1>3 DEF Written
<1>7. Evolves
  BY <1>3 DEF Evolves, Exists, Doomed, Overdue
<1>8. CallOK(Idle)'
  BY DEF CallOK
<1>9. DOMAIN call' = Procs /\ \A q \in Procs : CallOK(call[q])'
  BY <1>3, <1>7, <1>8, CallStep DEF Goes
<1>10. CASE Exists(r)
  <2>1. FilesOf(r, k) \subseteq File /\ \A f \in FilesOf(r, k) : f.run = r
    BY DEF FilesOf
  <2>2. \A f \in rows' : Exists(f.run)' /\ f \in files'
    BY <1>3, <1>4, <1>6, <1>10, <2>1 DEF IInv, Exists
  <2>3. report' \in [Runs -> Contents \cup {NoReport}]
    BY <1>3, <1>5, <1>10 DEF IInv
  <2>4. \A s \in Runs : report'[s] # NoReport => Exists(s)' /\ FilesOf(s, report'[s]) \subseteq rows'
    BY <1>3, <1>5, <1>10 DEF IInv, Exists
  <2>5. rows' \subseteq File
    BY <1>3, <1>10, <2>1 DEF IInv
  <2> QED
    BY <1>3, <1>9, <2>2, <2>3, <2>4, <2>5 DEF IInv, RunOK, Exists, SnapshotsGoWithTheLastRun, FilesOf
<1>11. CASE ~Exists(r)
  BY <1>3, <1>9, <1>11 DEF IInv, RunOK, Exists, SnapshotsGoWithTheLastRun
<1> QED
  BY <1>10, <1>11

LEMMA RemoveArtifactKeeps ==
  ASSUME IInv, NEW p \in Procs, RemoveArtifact(p)
  PROVE  IInv'
<1>1. PICK b : b = call[p]
  OBVIOUS
<1>2. /\ b.op = "unlink" /\ b \in DeleteCall /\ run[b.run].phase = "deleted"
      /\ \A f \in b.paths : f.run = b.run
      /\ b.purge => Doomed(b.run)
      /\ \A i \in DOMAIN b.rest : Doomed(b.rest[i])
  BY <1>1, CallKinds DEF RemoveArtifact
<1>3. CASE b.paths = {} /\ Goes(p, NextDelete(b.rest)) /\ UNCHANGED files
  <2>1. CallOK(NextDelete(b.rest))
    BY <1>2, NextDeleteOK DEF DeleteCall
  <2> QED
    BY <1>3, <2>1, Moved DEF RemoveArtifact, OnlyCalls
<1>4. ASSUME NEW f \in b.paths,
             files' = IF f \in rows THEN files ELSE files \ {f},
             Goes(p, [b EXCEPT !.paths = @ \ {f}])
      PROVE  IInv'
  <2>0. UNCHANGED <<run, snapshots, rows, report, clock>>
    BY DEF RemoveArtifact
  <2>1. f.run = b.run /\ ~Exists(f.run) /\ f \notin rows
    BY <1>2 DEF Exists, Stored, IInv
  <2>2. files' = files \ {f}
    BY <1>4, <2>1
  <2>3. Evolves
    BY <2>0, <2>1, <2>2 DEF Evolves, Exists, Doomed, Overdue
  <2>4. PICK c : c = [b EXCEPT !.paths = @ \ {f}]
    OBVIOUS
  <2>5. /\ c \in DeleteCall /\ c.op = "unlink" /\ c.run = b.run /\ c.paths = b.paths \ {f}
        /\ c.purge = b.purge /\ c.rest = b.rest
    BY <1>2, <2>4 DEF DeleteCall
  <2>6. CallOK(c)'
    BY <1>2, <2>0, <2>5 DEF CallOK, Doomed, Overdue
  <2>7. DOMAIN call' = Procs /\ \A q \in Procs : CallOK(call[q])'
    BY <1>4, <2>3, <2>4, <2>6, CallStep DEF Goes
  <2> QED
    BY <2>0, <2>1, <2>2, <2>7 DEF IInv, RunOK, Exists, SnapshotsGoWithTheLastRun
<1> QED
  BY <1>1, <1>3, <1>4 DEF RemoveArtifact

LEMMA DeleteRunKeeps ==
  ASSUME IInv, NEW p \in Procs, DeleteRun(p)
  PROVE  IInv'
<1>1. PICK b : b = call[p]
  OBVIOUS
<1>2. PICK r : r = b.run
  OBVIOUS
<1>3. /\ b.op = "delete" /\ b \in DeleteCall /\ r \in Runs
      /\ \A f \in b.paths : f.run = r
      /\ \A i \in DOMAIN b.rest : Doomed(b.rest[i])
  BY <1>1, <1>2, CallKinds DEF DeleteRun, DeleteCall
<1>4. CASE ~Exists(r)
  <2>1. OnlyCalls /\ Goes(p, Idle)
    BY <1>1, <1>2, <1>4 DEF DeleteRun, OnlyCalls
  <2> QED
    BY <2>1, IdleIsOK, Moved
<1>5. CASE Exists(r)
  <2>0. PICK c : c = [b EXCEPT !.op = "unlink"]
    OBVIOUS
  <2>1. /\ run' = [run EXCEPT ![r] = [NoRun EXCEPT !.phase = "deleted"]]
        /\ snapshots' = snapshots \ Orphaned(r)
        /\ rows' = {f \in rows : f.run # r}
        /\ report' = [report EXCEPT ![r] = NoReport]
        /\ call' = [call EXCEPT ![p] = c]
        /\ UNCHANGED <<files, clock>>
    BY <1>1, <1>2, <1>5, <2>0 DEF DeleteRun, Goes
  <2>2. /\ run' \in [Runs -> RunType]
        /\ run'[r].phase = "deleted" /\ ~run'[r].linked /\ run'[r].retain = 0
        /\ \A s \in Runs \ {r} : run'[s] = run[s]
    <3>1. [NoRun EXCEPT !.phase = "deleted"] \in RunType
      BY <1>3, RunTypes DEF NoRun, RunType, Phase
    <3> QED
      BY <1>3, <2>1, <3>1 DEF IInv, NoRun
  <2>3. ~Exists(r)' /\ \A s \in Runs \ {r} : Exists(s)' <=> Exists(s)
    BY <2>2 DEF Exists, Stored
  <2>4. \A s \in Runs : RunOK(s)'
    BY <2>2, <2>3 DEF RunOK, IInv
  <2>5. Evolves
    BY <1>5, <2>1, <2>2, <2>3 DEF Evolves, Doomed, Overdue
  <2>6. SnapshotsGoWithTheLastRun'
    <3>1. snapshots = {SnapshotOf[s] : s \in {t \in Runs : run[t].linked}}
      BY DEF IInv, SnapshotsGoWithTheLastRun
    <3>2. {t \in Runs : run'[t].linked} = {t \in Runs \ {r} : run[t].linked}
      BY <1>3, <2>2
    <3>3. CASE \E s \in Runs \ {r} : run[s].linked /\ SnapshotOf[s] = SnapshotOf[r]
      <4>1. snapshots' = snapshots
        BY <2>1, <3>3 DEF Orphaned
      <4> QED
        BY <3>1, <3>2, <3>3, <4>1 DEF SnapshotsGoWithTheLastRun
    <3>4. CASE ~\E s \in Runs \ {r} : run[s].linked /\ SnapshotOf[s] = SnapshotOf[r]
      <4>1. snapshots' = snapshots \ {SnapshotOf[r]}
        BY <2>1, <3>4 DEF Orphaned
      <4> QED
        BY <3>1, <3>2, <3>4, <4>1 DEF SnapshotsGoWithTheLastRun
    <3> QED
      BY <3>3, <3>4
  <2>7. /\ c \in DeleteCall /\ c.op = "unlink" /\ c.run = r /\ c.paths = b.paths
        /\ c.purge = b.purge /\ c.rest = b.rest
    BY <1>2, <1>3, <2>0 DEF DeleteCall
  <2>8. CallOK(c)'
    <3>1. Doomed(r)' /\ run'[r].phase # "absent"
      BY <2>2 DEF Doomed
    <3>2. \A i \in DOMAIN c.rest : c.rest[i] \in Runs /\ Doomed(c.rest[i])
      BY <1>3, <2>7 DEF DeleteCall
    <3>3. \A i \in DOMAIN c.rest : Doomed(c.rest[i])'
      BY <2>5, <3>2 DEF Evolves
    <3> QED
      BY <1>3, <2>2, <2>7, <3>1, <3>3 DEF CallOK
  <2>9. DOMAIN call' = Procs /\ \A q \in Procs : CallOK(call[q])'
    BY <2>1, <2>5, <2>8, CallStep
  <2>10. \A f \in rows' : Exists(f.run)' /\ f \in files'
    BY <2>1, <2>3 DEF IInv, File
  <2>11. \A s \in Runs : report'[s] # NoReport => Exists(s)' /\ FilesOf(s, report'[s]) \subseteq rows'
    BY <1>3, <2>1, <2>3 DEF IInv, FilesOf
  <2>12. rows' \subseteq File /\ report' \in [Runs -> Contents \cup {NoReport}]
    BY <2>1 DEF IInv
  <2> QED
    BY <2>1, <2>2, <2>4, <2>6, <2>9, <2>10, <2>11, <2>12 DEF IInv, FilesOf
<1> QED
  BY <1>4, <1>5

-----------------------------------------------------------------------------
(* The specification *)

LEMMA InitIInv == Init => IInv
<1> SUFFICES ASSUME Init PROVE IInv
  OBVIOUS
<1>1. NoRun \in RunType
  BY StorageAssumption DEF NoRun, RunType, Phase, Deadline
<1>2. \A r \in Runs : RunOK(r)
  BY DEF Init, RunOK, NoRun
<1>3. SnapshotsGoWithTheLastRun
  BY DEF Init, SnapshotsGoWithTheLastRun, NoRun
<1> QED
  BY <1>1, <1>2, <1>3, IdleIsOK, StorageAssumption DEF Init, IInv

LEMMA NextIInv == IInv /\ [Next]_vars => IInv'
<1> SUFFICES ASSUME IInv, [Next]_vars PROVE IInv'
  OBVIOUS
<1>1. ASSUME NEW r \in Runs, RunNext(r) PROVE IInv'
  BY <1>1, CreateRunKeeps, SaveSnapshotKeeps, TransitionKeeps, MarkKeeps DEF RunNext
<1>2. ASSUME NEW p \in Procs, CallNext(p) PROVE IInv'
  <2>1. CASE DeleteNext(p)
    BY <2>1, LookKeeps, DeleteRunKeeps, RemoveArtifactKeeps DEF DeleteNext
  <2>2. CASE ~DeleteNext(p)
    BY <1>2, <2>2, AskSaveKeeps, PutFileKeeps, CommitReportKeeps, ReadReportKeeps, AnswerKeeps,
       AskDeleteKeeps, AskPurgeKeeps DEF CallNext
  <2> QED
    BY <2>1, <2>2
<1>3. CASE UNCHANGED vars
  <2>1. Evolves
    BY <1>3 DEF vars, Evolves, Exists, Doomed, Overdue
  <2>2. DOMAIN call' = Procs /\ \A q \in Procs : CallOK(call[q])'
    BY <1>3, <2>1, CallsStand DEF vars
  <2> QED
    BY <1>3, <2>2 DEF vars, IInv, RunOK, Exists, SnapshotsGoWithTheLastRun
<1> QED
  BY <1>1, <1>2, <1>3, TickKeeps DEF Next

LEMMA IInvHolds == Spec => []IInv
BY InitIInv, NextIInv, PTL DEF Spec

(* The rows, the files and the calls in progress keep their types, whatever    *)
(* processes do to one database.                                               *)
THEOREM TypeInvariant == Spec => []TypeOK
<1>1. IInv => TypeOK
  <2> SUFFICES ASSUME IInv PROVE TypeOK
    OBVIOUS
  <2>1. \A p \in Procs : \/ call[p] = Idle \/ call[p] \in SaveCall \/ call[p] \in ReadCall
                         \/ call[p] \in DeleteCall
    BY DEF IInv, CallOK
  <2>2. snapshots \subseteq {SnapshotOf[r] : r \in Runs}
    BY DEF IInv, SnapshotsGoWithTheLastRun
  <2> QED
    BY <2>1, <2>2 DEF IInv, TypeOK, RunType
<1> QED
  BY <1>1, IInvHolds, PTL

(* saveReport writes its files before its transaction and deleteRun removes    *)
(* them after its own, so a stored report can be read: a file goes only when   *)
(* its run has gone for good.                                                  *)
THEOREM ReportsCanBeRead == Spec => []RowsHaveTheirFiles
<1>1. IInv => RowsHaveTheirFiles
  <2> SUFFICES ASSUME IInv PROVE RowsHaveTheirFiles
    OBVIOUS
  <2>1. ASSUME NEW p \in Procs, call[p].op = "read", Exists(call[p].file.run)
        PROVE  call[p].file \in files
    BY <2>1 DEF IInv, CallOK, Idle, SaveCall, ReadCall, DeleteCall
  <2> QED
    BY <2>1 DEF IInv, RowsHaveTheirFiles
<1> QED
  BY <1>1, IInvHolds, PTL

(* A snapshot that runs share stays until the last of them is deleted.         *)
THEOREM SharedSnapshots == Spec => []SnapshotsGoWithTheLastRun
<1>1. IInv => SnapshotsGoWithTheLastRun
  BY DEF IInv
<1> QED
  BY <1>1, IInvHolds, PTL

LEMMA CallsGo ==
  ASSUME NEW q \in Procs, CallNext(q)
  PROVE  \E c : Goes(q, c)
<1>1. CASE DeleteNext(q)
  <2>1. CASE LookAtState(q) \/ LookAtWorktrees(q) \/ LookAtArtifacts(q)
    BY <2>1, Zenon DEF LookAtState, LookAtWorktrees, LookAtArtifacts
  <2>2. CASE DeleteRun(q)
    BY <2>2, Zenon DEF DeleteRun
  <2>3. CASE RemoveArtifact(q)
    BY <2>3, Zenon DEF RemoveArtifact
  <2> QED
    BY <1>1, <2>1, <2>2, <2>3 DEF DeleteNext
<1>2. CASE ~DeleteNext(q)
  <2>1. CASE AskSave(q) \/ ReadReport(q) \/ AskDelete(q) \/ AskPurge(q)
    BY <2>1, Zenon DEF AskSave, ReadReport, AskDelete, AskPurge
  <2>2. CASE PutFile(q) \/ CommitReport(q) \/ ReadArtifact(q) \/ Crash(q)
    BY <2>2, Zenon DEF PutFile, CommitReport, ReadArtifact, Crash
  <2> QED
    BY <1>2, <2>1, <2>2 DEF CallNext
<1> QED
  BY <1>1, <1>2

(* What a purge selected is still over, and past its deadline, when it gets    *)
(* there: no transition leaves a closed run, and the deadline does not move.   *)
THEOREM PurgeIsForTheExpired == Spec => PurgeTakesOnlyWhatExpired
<1> DEFINE P == \A p \in Procs :
                  call[p].op = "delete" /\ call[p].purge /\ call'[p].op = "unlink" =>
                    LET r == run[call[p].run] IN
                    r.phase = "closed" /\ r.retain # 0 /\ r.retain <= clock
<1>1. ASSUME IInv, Next PROVE P
  <2> SUFFICES ASSUME NEW p \in Procs, call[p].op = "delete", call[p].purge, call'[p].op = "unlink"
               PROVE  Overdue(call[p].run)
    BY DEF Overdue
  <2>1. Doomed(call[p].run)
    BY <1>1, CallKinds
  <2>2. call'[p] # call[p] /\ call'[p] # Idle
    BY DEF Idle
  <2>3. \A q \in Procs \ {p} : \A c : Goes(q, c) => call'[p] = call[p]
    BY <1>1 DEF Goes, IInv
  <2>4. \E q \in Procs : CallNext(q)
    BY <1>1, <2>2 DEF Next, RunNext, CreateRun, SaveSnapshot, Transition, RecordWorktree, RecordCleanup,
                      SetPinned, Tick, OnlyRuns
  <2>5. CallNext(p)
    <3>1. PICK q \in Procs : CallNext(q)
      BY <2>4
    <3>2. \E c : Goes(q, c)
      BY <3>1, CallsGo
    <3> QED
      BY <2>2, <2>3, <3>1, <3>2
  <2>6. Goes(p, Idle) => FALSE
    BY <1>1, <2>2 DEF Goes, IInv
  <2>7. DeleteRun(p)
    <3>1. ~AskSave(p) /\ ~ReadReport(p) /\ ~AskDelete(p) /\ ~AskPurge(p)
      <4>1. call[p] # Idle
        BY DEF Idle
      <4> QED
        BY <4>1, Zenon DEF AskSave, ReadReport, AskDelete, AskPurge
    <3>2. ~PutFile(p) /\ ~CommitReport(p) /\ ~ReadArtifact(p)
      BY DEF PutFile, CommitReport, ReadArtifact, Kind
    <3>3. ~LookAtState(p) /\ ~LookAtWorktrees(p) /\ ~LookAtArtifacts(p) /\ ~RemoveArtifact(p)
      BY DEF LookAtState, LookAtWorktrees, LookAtArtifacts, RemoveArtifact
    <3>4. ~Crash(p)
      BY <2>6 DEF Crash
    <3> QED
      BY <2>5, <3>1, <3>2, <3>3, <3>4 DEF CallNext, DeleteNext
  <2>8. Exists(call[p].run)
    BY <2>6, <2>7 DEF DeleteRun
  <2> QED
    BY <2>1, <2>8 DEF Doomed, Exists, Stored
<1>2. IInv /\ [Next]_vars => [P]_vars
  BY <1>1
<1> QED
  BY <1>2, IInvHolds, PTL DEF Spec, PurgeTakesOnlyWhatExpired
===============================================================================
