--------------------------- MODULE Inspection_proofs ---------------------------
(***************************************************************************)
(* Proofs about Inspection, for any probes, attempts, comparator tries and  *)
(* policy blockers: an inspection that timed out, or whose batch is suspect,*)
(* never reaches a reviewer; one that does rests on what the store holds;   *)
(* and the rows of its worktrees are true.                                  *)
(***************************************************************************)
EXTENDS Inspection, TLAPS, FiniteSetTheorems

-----------------------------------------------------------------------------
(* The inductive invariant *)

(* The stages before the rows of the inspection, and those after its batch.    *)
Early    == {"idle", "snapshot", "saving", "probing"}
Compared == {"comparing", "normalizing", "deciding", "translating", "concluding", "presenting"}
Late     == Compared \cup {"closing", "ended"}

(* A probe that is not done has an attempt left and waits at most once; a      *)
(* worktree handed over belongs to an attempt that is over, and is gone unless *)
(* its cleanup was not verified.                                               *)
BatchOK ==
  /\ \A p \in Probes : step[p] # "done" => Len(results[p]) < MaxAttempts
  /\ \A p \in Probes : step[p] = "cleaning" => held[p] # "none"
  /\ \A i \in DOMAIN queue : step[queue[i]] = "queued"
  /\ \A i, j \in DOMAIN queue : queue[i] = queue[j] => i = j
  /\ \A t \in handed : t[2] <= Len(results[t[1]])
  /\ \A t \in handed : t \in disk => t \in unclean

(* The rows of worktrees are those of the worktrees handed over, and settled   *)
(* before anything else is stored.                                             *)
TreesOK ==
  /\ rows = [trees |-> rows.trees, attempts |-> rows.attempts, plans |-> rows.plans,
             comparison |-> rows.comparison, decisions |-> rows.decisions,
             presentation |-> rows.presentation]
  /\ DOMAIN rows.trees \subseteq handed
  /\ \A t \in DOMAIN rows.trees : rows.trees[t] = "removed" => t \notin unclean
  /\ stage \in Early => rows = NoRows
  /\ stage \in {"idle", "snapshot", "saving"} => handed = {}
  /\ rows.attempts # <<>> => handed = DOMAIN rows.trees /\ Pending = {}
  /\ stage \in Late /\ HasRow => handed = DOMAIN rows.trees /\ Pending = {}

(* The comparison of a batch, as far as it has come.                           *)
BackingOK ==
  /\ rows.plans # {} => stage \in Late /\ rows.plans = Plans /\ ~Blocked
  /\ stage \notin Late \ {"comparing"} => tries < MaxTries
  /\ stage \in Compared => ~Blocked /\ (HasRow => rows.plans = Plans)
  /\ stage \in Compared \ {"comparing"} => candidate \in Bound \cup {Fallback}
  /\ stage \in Compared \ {"comparing", "normalizing"} /\ HasRow => rows.comparison = candidate
  /\ stage \in {"translating", "concluding", "presenting"} /\ HasRow => Review({}) \subseteq rows.decisions
  /\ stage \in {"concluding", "presenting"} /\ HasRow => rows.presentation # "none"

Backed ==
  /\ ~Blocked /\ rows.plans = Plans
  /\ candidate \in Bound \cup {Fallback} /\ rows.comparison = candidate
  /\ Review({}) \subseteq rows.decisions /\ rows.presentation # "none"

(* A run under review has all of it.                                           *)
ReviewOK ==
  /\ stage = "idle" => run = "absent"
  /\ run \in Reviewed => stage \in {"presenting", "closing", "ended"} /\ ~aborted /\ Backed
  /\ contract => stage \in {"closing", "ended"}
  /\ run \in {"needs_review", "ready_for_approval"} =>
       (run = "ready_for_approval") = contract /\ contract = (rows.decisions = {})

IInv == TypeOK /\ BatchOK /\ TreesOK /\ BackingOK /\ ReviewOK

-----------------------------------------------------------------------------
(* The start *)

LEMMA Numbers ==
  /\ \A p \in Probes : p \in Nat
  /\ MaxAttempts \in Nat /\ MaxAttempts > 0
  /\ MaxTries \in Nat /\ MaxTries > 0
<1>1. \A p \in Probes : p \in Nat
  BY InspectionAssumption
<1>2. MaxAttempts \in Nat \ {0} /\ MaxTries \in Nat \ {0}
  BY InspectionAssumption
<1> QED
  BY <1>1, <1>2

LEMMA CountsAreNumbers ==
  /\ Cardinality(Probes) \in Nat
  /\ Cardinality(Plans) \in Nat /\ Cardinality(Plans) <= Cardinality(Probes)
  /\ Cardinality(Plans) = Cardinality(Probes) => Plans = Probes
<1>1. Plans \in SUBSET Probes
  BY DEF Plans
<1>2. IsFiniteSet(Plans)
  BY <1>1, FS_Subset, InspectionAssumption
<1> QED
  BY <1>1, <1>2, FS_Subset, FS_CardinalityType, InspectionAssumption

LEMMA InitInv == Init => IInv
<1> SUFFICES ASSUME Init PROVE IInv
  OBVIOUS
<1>1. queue \in [1 .. Cardinality(Probes) -> Probes]
  BY DEF Init, InOrder
<1>2. queue \in Seq(Probes) /\ Len(queue) = Cardinality(Probes) /\ DOMAIN queue = 1 .. Cardinality(Probes)
  BY <1>1, CountsAreNumbers
<1>3. \A i, j \in DOMAIN queue : queue[i] = queue[j] => i = j
  <2>1. \A i, j \in DOMAIN queue : i < j => queue[i] < queue[j]
    BY DEF Init, InOrder
  <2>2. \A i \in DOMAIN queue : queue[i] \in Nat /\ i \in Nat
    BY <1>1, <1>2, Numbers, CountsAreNumbers
  <2> QED
    BY <2>1, <2>2
<1>4. \A p \in Probes : results[p] \in Seq(Result) /\ Len(results[p]) = 0
  <2>1. \A p \in Probes : results[p] = <<>>
    BY DEF Init
  <2>2. <<>> \in Seq(Result) /\ Len(<<>>) = 0
    OBVIOUS
  <2> QED
    BY <2>1, <2>2, Zenon
<1>5. TypeOK
  <2>1. results \in [Probes -> Seq(Result)] /\ \A p \in Probes : Len(results[p]) <= MaxAttempts
    <3>1. results = [p \in Probes |-> <<>>]
      BY DEF Init
    <3>2. \A p \in Probes : results[p] \in Seq(Result)
      BY <1>4
    <3>3. results \in [Probes -> Seq(Result)]
      BY <3>1, <3>2, Zenon
    <3> QED
      BY <1>4, <3>3, Numbers
  <2>2. run \in StoredState /\ stage \in Stage
    BY DEF Init, Stage, StoredState
  <2>3. rows = NoRows /\ candidate = NoCandidate
    BY DEF Init
  <2>4. /\ DOMAIN rows.trees = {} /\ rows.plans = {} /\ rows.decisions = {}
        /\ rows.presentation = "none"
    BY <2>3 DEF NoRows
  <2>5. candidate \in [by : {"nobody", "model", "fallback"}, open : SUBSET Subject]
    BY <2>3 DEF NoCandidate
  <2>6. /\ step \in [Probes -> {"queued", "running", "cleaning", "done"}]
        /\ held \in [Probes -> Result \cup {"none"}]
        /\ tries \in 0 .. MaxTries
    BY Numbers DEF Init
  <2>7. queue \in Seq(Probes) /\ Len(queue) <= Cardinality(Probes)
    BY <1>2, CountsAreNumbers
  <2>8. /\ disk = {} /\ handed = {} /\ unclean = {} /\ aborted = FALSE /\ contract = FALSE
    BY DEF Init
  <2> QED
    BY <2>1, <2>2, <2>4, <2>5, <2>6, <2>7, <2>8 DEF TypeOK
<1>6. BatchOK
  <2>1. \A i \in DOMAIN queue : step[queue[i]] = "queued"
    BY <1>1 DEF Init
  <2>2. \A p \in Probes : Len(results[p]) < MaxAttempts /\ step[p] # "cleaning"
    BY <1>4, Numbers DEF Init
  <2> QED
    BY <1>3, <2>1, <2>2 DEF Init, BatchOK
<1>7. TreesOK
  BY DEF Init, TreesOK, NoRows, Early, Late, Compared, HasRow, NoRow
<1>8. BackingOK
  BY Numbers DEF Init, Late, BackingOK, NoRows, Compared
<1>9. ReviewOK
  BY DEF Init, ReviewOK, Reviewed
<1> QED
  BY <1>5, <1>6, <1>7, <1>8, <1>9 DEF IInv

-----------------------------------------------------------------------------
(* The steps the probes have no part in *)

(* What the batch came to depends on the probes alone.                         *)
LEMMA BatchStands ==
  ASSUME IInv, UNCHANGED probeVars
  PROVE  BatchOK' /\ Plans' = Plans /\ Blocked' = Blocked /\ Degraded' = Degraded
BY DEF IInv, BatchOK, probeVars, Plans, Blocked, Degraded, Suspect

LEMMA PrepareStep ==
  ASSUME IInv, Prepare
  PROVE  IInv'
<1>0. UNCHANGED probeVars /\ BatchOK' /\ Plans' = Plans /\ Blocked' = Blocked /\ Degraded' = Degraded
  BY BatchStands DEF Prepare
<1>1. TypeOK'
  BY <1>0 DEF Prepare, IInv, TypeOK, Stage, StoredState, RunState, Terminal, HasRow, NoRow,
       probeVars, modelVars
<1>2. TreesOK'
  BY <1>0 DEF Prepare, IInv, TreesOK, Pending, Early, Late, Compared, HasRow, NoRow, Terminal,
       probeVars
<1>3. BackingOK'
  BY <1>0 DEF Prepare, IInv, BackingOK, Compared, Late, Review, HasRow, NoRow, Terminal,
       probeVars, modelVars
<1>4. ReviewOK'
  BY <1>0 DEF Prepare, IInv, ReviewOK, Backed, Review, Reviewed, HasRow, NoRow, Terminal,
       probeVars, modelVars
<1> QED
  BY <1>0, <1>1, <1>2, <1>3, <1>4 DEF IInv

LEMMA BeginSnapshotStep ==
  ASSUME IInv, BeginSnapshot
  PROVE  IInv'
<1>0. UNCHANGED probeVars /\ BatchOK' /\ Plans' = Plans /\ Blocked' = Blocked /\ Degraded' = Degraded
  BY BatchStands DEF BeginSnapshot
<1>1. TypeOK'
  BY <1>0 DEF BeginSnapshot, Advance, Abandon, IInv, TypeOK, Stage, StoredState, RunState,
       Terminal, HasRow, NoRow, probeVars, modelVars
<1>2. TreesOK'
  BY <1>0 DEF BeginSnapshot, Advance, Abandon, IInv, TreesOK, Pending, Early, Late, Compared,
       HasRow, NoRow, Terminal, probeVars
<1>3. BackingOK'
  BY <1>0 DEF BeginSnapshot, Advance, Abandon, IInv, BackingOK, Compared, Late, Review, HasRow,
       NoRow, Terminal, probeVars, modelVars
<1>4. ReviewOK'
  BY <1>0 DEF BeginSnapshot, Advance, Abandon, IInv, ReviewOK, Backed, Review, Reviewed, HasRow,
       NoRow, Terminal, probeVars, modelVars
<1> QED
  BY <1>0, <1>1, <1>2, <1>3, <1>4 DEF IInv

LEMMA BeginProbingStep ==
  ASSUME IInv, BeginProbing
  PROVE  IInv'
<1>0. UNCHANGED probeVars /\ BatchOK' /\ Plans' = Plans /\ Blocked' = Blocked /\ Degraded' = Degraded
  BY BatchStands DEF BeginProbing
<1>1. TypeOK'
  BY <1>0 DEF BeginProbing, Advance, Abandon, IInv, TypeOK, Stage, StoredState, RunState,
       Terminal, HasRow, NoRow, probeVars, modelVars
<1>2. TreesOK'
  BY <1>0 DEF BeginProbing, Advance, Abandon, IInv, TreesOK, Pending, Early, Late, Compared,
       HasRow, NoRow, Terminal, probeVars
<1>3. BackingOK'
  BY <1>0 DEF BeginProbing, Advance, Abandon, IInv, BackingOK, Compared, Late, Review, HasRow,
       NoRow, Terminal, probeVars, modelVars
<1>4. ReviewOK'
  BY <1>0 DEF BeginProbing, Advance, Abandon, IInv, ReviewOK, Backed, Review, Reviewed, HasRow,
       NoRow, Terminal, probeVars, modelVars
<1> QED
  BY <1>0, <1>1, <1>2, <1>3, <1>4 DEF IInv

LEMMA FinishBatchStep ==
  ASSUME IInv, FinishBatch
  PROVE  IInv'
<1>0. UNCHANGED probeVars /\ BatchOK' /\ Plans' = Plans /\ Blocked' = Blocked /\ Degraded' = Degraded
  BY BatchStands DEF FinishBatch
<1>1. TypeOK'
  BY <1>0 DEF FinishBatch, Settled, IInv, TypeOK, Stage, StoredState, RunState, Terminal,
       HasRow, NoRow, probeVars, modelVars
<1>2. TreesOK'
  BY <1>0 DEF FinishBatch, Settled, IInv, TreesOK, Pending, Early, Late, Compared, HasRow,
       NoRow, Terminal, probeVars
<1>3. BackingOK'
  BY <1>0 DEF FinishBatch, Settled, IInv, BackingOK, Compared, Late, Review, HasRow, NoRow,
       Terminal, probeVars, modelVars
<1>4. ReviewOK'
  BY <1>0 DEF FinishBatch, Settled, IInv, ReviewOK, Backed, Review, Reviewed, HasRow, NoRow,
       Terminal, probeVars, modelVars
<1> QED
  BY <1>0, <1>1, <1>2, <1>3, <1>4 DEF IInv

LEMMA SavePlansStep ==
  ASSUME IInv, SavePlans
  PROVE  IInv'
<1>0. UNCHANGED probeVars /\ BatchOK' /\ Plans' = Plans /\ Blocked' = Blocked /\ Degraded' = Degraded
  BY BatchStands DEF SavePlans
<1>r. rows = [trees |-> rows.trees, attempts |-> rows.attempts, plans |-> rows.plans,
             comparison |-> rows.comparison, decisions |-> rows.decisions,
             presentation |-> rows.presentation]
  BY DEF IInv, TreesOK
<1>1. TypeOK'
  <2>1. Plans \subseteq Probes
    BY DEF Plans
  <2> QED
    BY <1>0, <1>r, <2>1 DEF SavePlans, Store, Abandon, Overdue, IInv, TypeOK, Stage,
         StoredState, RunState, Terminal, HasRow, NoRow, probeVars, modelVars
<1>2. TreesOK'
  BY <1>0 DEF SavePlans, Store, Abandon, Overdue, IInv, TreesOK, Pending, Early, Late, Compared,
       HasRow, NoRow, Terminal, probeVars
<1>3. BackingOK'
  BY <1>0, <1>r DEF SavePlans, Store, Abandon, Overdue, IInv, BackingOK, Compared, Late, Review,
       HasRow, NoRow, Terminal, probeVars, modelVars
<1>4. ReviewOK'
  BY <1>0 DEF SavePlans, Store, Abandon, Overdue, IInv, ReviewOK, Backed, Review, Reviewed,
       HasRow, NoRow, Terminal, probeVars, modelVars
<1> QED
  BY <1>0, <1>1, <1>2, <1>3, <1>4 DEF IInv

LEMMA CompareAnswersStep ==
  ASSUME IInv, CompareAnswers
  PROVE  IInv'
<1>0. UNCHANGED probeVars /\ BatchOK' /\ Plans' = Plans /\ Blocked' = Blocked /\ Degraded' = Degraded
  BY BatchStands DEF CompareAnswers
<1>1. TypeOK'
  <2>1. candidate' \in [by : {"nobody", "model", "fallback"}, open : SUBSET Subject]
    BY DEF CompareAnswers, Bound
  <2> QED
    BY <1>0, <2>1 DEF CompareAnswers, IInv, TypeOK, Stage, StoredState, RunState, Terminal,
         HasRow, NoRow, probeVars, modelVars
<1>2. TreesOK'
  BY <1>0 DEF CompareAnswers, IInv, TreesOK, Pending, Early, Late, Compared, HasRow, NoRow,
       Terminal, probeVars
<1>3. BackingOK'
  BY <1>0 DEF CompareAnswers, IInv, BackingOK, Compared, Late, Review, HasRow, NoRow, Terminal,
       probeVars, modelVars
<1>4. ReviewOK'
  BY <1>0 DEF CompareAnswers, IInv, ReviewOK, Backed, Review, Reviewed, HasRow, NoRow, Terminal,
       probeVars, modelVars
<1> QED
  BY <1>0, <1>1, <1>2, <1>3, <1>4 DEF IInv

LEMMA CompareFailsStep ==
  ASSUME IInv, CompareFails
  PROVE  IInv'
<1>0. UNCHANGED probeVars /\ BatchOK' /\ Plans' = Plans /\ Blocked' = Blocked /\ Degraded' = Degraded
  BY BatchStands DEF CompareFails
<1>1. TypeOK'
  <2>1. candidate' \in [by : {"nobody", "model", "fallback"}, open : SUBSET Subject]
    BY DEF CompareFails, Fallback, IInv, TypeOK
  <2>2. tries' \in 0 .. MaxTries
    BY Numbers DEF CompareFails, IInv, TypeOK, BackingOK, Late
  <2> QED
    BY <1>0, <2>1, <2>2 DEF CompareFails, Abandon, IInv, TypeOK, Stage, StoredState, RunState,
         Terminal, HasRow, NoRow, probeVars, modelVars
<1>2. TreesOK'
  BY <1>0 DEF CompareFails, Abandon, IInv, TreesOK, Pending, Early, Late, Compared, HasRow,
       NoRow, Terminal, probeVars
<1>3. BackingOK'
  <2>1. stage' \notin Late \ {"comparing"} => tries' < MaxTries
    BY Numbers DEF CompareFails, Abandon, IInv, TypeOK, BackingOK, Late, Compared
  <2>2. candidate' = candidate \/ candidate' = Fallback
    BY DEF CompareFails
  <2>3. stage = "comparing" /\ stage' \in {"comparing", "normalizing", "closing"}
    BY DEF CompareFails, Abandon
  <2>4. rows' = rows /\ (HasRow' => HasRow)
    BY DEF CompareFails, Abandon, HasRow, NoRow
  <2>5. stage' = "normalizing" => candidate' = Fallback
    BY DEF CompareFails, Abandon
  <2> QED
    BY <1>0, <2>1, <2>2, <2>3, <2>4, <2>5 DEF IInv, BackingOK, Compared, Late
<1>4. ReviewOK'
  BY <1>0 DEF CompareFails, Abandon, IInv, ReviewOK, Backed, Review, Reviewed, HasRow, NoRow,
       Terminal, probeVars, modelVars
<1> QED
  BY <1>0, <1>1, <1>2, <1>3, <1>4 DEF IInv

LEMMA SaveComparisonStep ==
  ASSUME IInv, SaveComparison
  PROVE  IInv'
<1>0. UNCHANGED probeVars /\ BatchOK' /\ Plans' = Plans /\ Blocked' = Blocked /\ Degraded' = Degraded
  BY BatchStands DEF SaveComparison
<1>r. rows = [trees |-> rows.trees, attempts |-> rows.attempts, plans |-> rows.plans,
             comparison |-> rows.comparison, decisions |-> rows.decisions,
             presentation |-> rows.presentation]
  BY DEF IInv, TreesOK
<1>1. TypeOK'
  BY <1>0, <1>r DEF SaveComparison, Store, Abandon, IInv, TypeOK, Stage, StoredState, RunState,
       Terminal, HasRow, NoRow, probeVars, modelVars
<1>2. TreesOK'
  BY <1>0 DEF SaveComparison, Store, Abandon, IInv, TreesOK, Pending, Early, Late, Compared,
       HasRow, NoRow, Terminal, probeVars
<1>3. BackingOK'
  BY <1>0, <1>r DEF SaveComparison, Store, Abandon, IInv, BackingOK, Compared, Late, Review,
       HasRow, NoRow, Terminal, probeVars, modelVars
<1>4. ReviewOK'
  BY <1>0 DEF SaveComparison, Store, Abandon, IInv, ReviewOK, Backed, Review, Reviewed, HasRow,
       NoRow, Terminal, probeVars, modelVars
<1> QED
  BY <1>0, <1>1, <1>2, <1>3, <1>4 DEF IInv

LEMMA SaveDecisionsStep ==
  ASSUME IInv, SaveDecisions
  PROVE  IInv'
<1>0. UNCHANGED probeVars /\ BatchOK' /\ Plans' = Plans /\ Blocked' = Blocked /\ Degraded' = Degraded
  BY BatchStands DEF SaveDecisions
<1>r. rows = [trees |-> rows.trees, attempts |-> rows.attempts, plans |-> rows.plans,
             comparison |-> rows.comparison, decisions |-> rows.decisions,
             presentation |-> rows.presentation]
  BY DEF IInv, TreesOK
<1>1. TypeOK'
  <2>1. candidate.open \subseteq Subject
    BY DEF IInv, TypeOK
  <2>2. \A found \in SUBSET Blockers : Review(found) \subseteq Decision
    BY <2>1 DEF Review, Decision
  <2> QED
    BY <1>0, <1>r, <2>2 DEF SaveDecisions, Store, Abandon, IInv, TypeOK, Stage, StoredState,
         RunState, Terminal, HasRow, NoRow, probeVars, modelVars
<1>2. TreesOK'
  BY <1>0 DEF SaveDecisions, Store, Abandon, IInv, TreesOK, Pending, Early, Late, Compared,
       HasRow, NoRow, Terminal, probeVars
<1>3. BackingOK'
  BY <1>0, <1>r DEF SaveDecisions, Store, Abandon, IInv, BackingOK, Compared, Late, Review,
       HasRow, NoRow, Terminal, probeVars, modelVars
<1>4. ReviewOK'
  BY <1>0 DEF SaveDecisions, Store, Abandon, IInv, ReviewOK, Backed, Review, Reviewed, HasRow,
       NoRow, Terminal, probeVars, modelVars
<1> QED
  BY <1>0, <1>1, <1>2, <1>3, <1>4 DEF IInv

LEMMA TranslationAnswersStep ==
  ASSUME IInv, TranslationAnswers
  PROVE  IInv'
<1>0. UNCHANGED probeVars /\ BatchOK' /\ Plans' = Plans /\ Blocked' = Blocked /\ Degraded' = Degraded
  BY BatchStands DEF TranslationAnswers
<1>r. rows = [trees |-> rows.trees, attempts |-> rows.attempts, plans |-> rows.plans,
             comparison |-> rows.comparison, decisions |-> rows.decisions,
             presentation |-> rows.presentation]
  BY DEF IInv, TreesOK
<1>1. TypeOK'
  BY <1>0, <1>r DEF TranslationAnswers, Store, Abandon, IInv, TypeOK, Stage, StoredState,
       RunState, Terminal, HasRow, NoRow, probeVars, modelVars
<1>2. TreesOK'
  BY <1>0 DEF TranslationAnswers, Store, Abandon, IInv, TreesOK, Pending, Early, Late, Compared,
       HasRow, NoRow, Terminal, probeVars
<1>3. BackingOK'
  BY <1>0, <1>r DEF TranslationAnswers, Store, Abandon, IInv, BackingOK, Compared, Late, Review,
       HasRow, NoRow, Terminal, probeVars, modelVars
<1>4. ReviewOK'
  BY <1>0 DEF TranslationAnswers, Store, Abandon, IInv, ReviewOK, Backed, Review, Reviewed,
       HasRow, NoRow, Terminal, probeVars, modelVars
<1> QED
  BY <1>0, <1>1, <1>2, <1>3, <1>4 DEF IInv

LEMMA TranslationFailsStep ==
  ASSUME IInv, TranslationFails
  PROVE  IInv'
<1>0. UNCHANGED probeVars /\ BatchOK' /\ Plans' = Plans /\ Blocked' = Blocked /\ Degraded' = Degraded
  BY BatchStands DEF TranslationFails
<1>r. rows = [trees |-> rows.trees, attempts |-> rows.attempts, plans |-> rows.plans,
             comparison |-> rows.comparison, decisions |-> rows.decisions,
             presentation |-> rows.presentation]
  BY DEF IInv, TreesOK
<1>1. TypeOK'
  BY <1>0, <1>r DEF TranslationFails, Store, Abandon, Overdue, IInv, TypeOK, Stage, StoredState,
       RunState, Terminal, HasRow, NoRow, probeVars, modelVars
<1>2. TreesOK'
  BY <1>0 DEF TranslationFails, Store, Abandon, Overdue, IInv, TreesOK, Pending, Early, Late,
       Compared, HasRow, NoRow, Terminal, probeVars
<1>3. BackingOK'
  BY <1>0, <1>r DEF TranslationFails, Store, Abandon, Overdue, IInv, BackingOK, Compared, Late,
       Review, HasRow, NoRow, Terminal, probeVars, modelVars
<1>4. ReviewOK'
  BY <1>0 DEF TranslationFails, Store, Abandon, Overdue, IInv, ReviewOK, Backed, Review,
       Reviewed, HasRow, NoRow, Terminal, probeVars, modelVars
<1> QED
  BY <1>0, <1>1, <1>2, <1>3, <1>4 DEF IInv

LEMMA EnterComparingStep ==
  ASSUME IInv, EnterComparing
  PROVE  IInv'
<1>0. UNCHANGED probeVars /\ BatchOK' /\ Plans' = Plans /\ Blocked' = Blocked /\ Degraded' = Degraded
  BY BatchStands DEF EnterComparing
<1>1. TypeOK'
  BY <1>0 DEF EnterComparing, Advance, Abandon, Overdue, IInv, TypeOK, Stage, StoredState,
       RunState, Terminal, HasRow, NoRow, probeVars, modelVars
<1>2. TreesOK'
  BY <1>0 DEF EnterComparing, Advance, Abandon, Overdue, IInv, TreesOK, Pending, Early, Late,
       Compared, HasRow, NoRow, Terminal, probeVars
<1>3. BackingOK'
  BY <1>0 DEF EnterComparing, Advance, Abandon, Overdue, IInv, BackingOK, Compared, Late,
       Review, HasRow, NoRow, Terminal, probeVars, modelVars
<1>4. ReviewOK'
  <2>1. CASE run = "probing" /\ ~aborted
    <3>1. Backed'
      BY <1>0, <2>1 DEF EnterComparing, Advance, Overdue, IInv, BackingOK, Compared, Backed, Review,
        HasRow, NoRow, modelVars
    <3>2. run' = "comparing" /\ stage' = "presenting" /\ ~aborted' /\ contract' = contract
      BY <2>1 DEF EnterComparing, Advance, Overdue
    <3> QED
      BY <3>1, <3>2 DEF EnterComparing, IInv, ReviewOK, Reviewed
  <2>2. CASE ~(run = "probing" /\ ~aborted)
    BY <1>0, <2>2 DEF EnterComparing, Advance, Abandon, Overdue, IInv, ReviewOK, Backed,
         Review, Reviewed, HasRow, NoRow, Terminal, probeVars, modelVars
  <2> QED
    BY <2>1, <2>2
<1> QED
  BY <1>0, <1>1, <1>2, <1>3, <1>4 DEF IInv

LEMMA PresentStep ==
  ASSUME IInv, Present
  PROVE  IInv'
<1>0. UNCHANGED probeVars /\ BatchOK' /\ Plans' = Plans /\ Blocked' = Blocked /\ Degraded' = Degraded
  BY BatchStands DEF Present
<1>1. TypeOK'
  BY <1>0 DEF Present, Advance, Abandon, IInv, TypeOK, Stage, StoredState, RunState, Terminal,
       HasRow, NoRow, probeVars, modelVars
<1>2. TreesOK'
  BY <1>0 DEF Present, Advance, Abandon, IInv, TreesOK, Pending, Early, Late, Compared, HasRow,
       NoRow, Terminal, probeVars
<1>3. BackingOK'
  BY <1>0 DEF Present, Advance, Abandon, IInv, BackingOK, Compared, Late, Review, HasRow, NoRow,
       Terminal, probeVars, modelVars
<1>4. ReviewOK'
  <2>1. Backed => Backed'
    BY <1>0 DEF Present, Backed, Review, modelVars
  <2>2. CASE run = "comparing"
    <3>1. ~aborted' /\ Backed' /\ stage' = "closing" /\ rows' = rows
      BY <2>1, <2>2 DEF Present, Advance, IInv, ReviewOK, Reviewed
    <3>2. ~contract
      BY DEF Present, IInv, ReviewOK
    <3>3. CASE rows.decisions # {}
      BY <2>2, <3>1, <3>2, <3>3 DEF Present, Advance, ReviewOK, Reviewed, IInv, TypeOK
    <3>4. CASE rows.decisions = {}
      BY <2>2, <3>1, <3>2, <3>4 DEF Present, Advance, ReviewOK, Reviewed, IInv, TypeOK
    <3> QED
      BY <3>3, <3>4
  <2>3. CASE run # "comparing"
    <3>1. run' \notin Reviewed \/ (run' = run /\ run \in Terminal)
      BY <2>3 DEF Present, Advance, Abandon, IInv, ReviewOK, Reviewed, HasRow, NoRow,
           Terminal, probeVars, modelVars
    <3> QED
      BY <2>3, <3>1 DEF Present, Advance, Abandon, IInv, ReviewOK, Reviewed, HasRow, NoRow,
           Terminal, probeVars, modelVars
  <2> QED
    BY <2>2, <2>3
<1> QED
  BY <1>0, <1>1, <1>2, <1>3, <1>4 DEF IInv

LEMMA CloseStep ==
  ASSUME IInv, Close
  PROVE  IInv'
<1>0. UNCHANGED probeVars /\ BatchOK' /\ Plans' = Plans /\ Blocked' = Blocked /\ Degraded' = Degraded
  BY BatchStands DEF Close
<1>1. TypeOK'
  BY <1>0 DEF Close, IInv, TypeOK, Stage, StoredState, RunState, Terminal, HasRow, NoRow,
       probeVars, modelVars
<1>2. TreesOK'
  BY <1>0 DEF Close, IInv, TreesOK, Pending, Early, Late, Compared, HasRow, NoRow, Terminal,
       probeVars
<1>3. BackingOK'
  BY <1>0 DEF Close, IInv, BackingOK, Compared, Late, Review, HasRow, NoRow, Terminal,
       probeVars, modelVars
<1>4. ReviewOK'
  BY <1>0 DEF Close, IInv, ReviewOK, Backed, Review, Reviewed, HasRow, NoRow, Terminal,
       probeVars, modelVars
<1> QED
  BY <1>0, <1>1, <1>2, <1>3, <1>4 DEF IInv

LEMMA AbortStep ==
  ASSUME IInv, Abort
  PROVE  IInv'
<1>0. UNCHANGED probeVars /\ BatchOK' /\ Plans' = Plans /\ Blocked' = Blocked /\ Degraded' = Degraded
  BY BatchStands DEF Abort
<1>1. TypeOK'
  BY <1>0 DEF Abort, IInv, TypeOK, Stage, StoredState, RunState, Terminal, HasRow, NoRow,
       probeVars, modelVars
<1>2. TreesOK'
  BY <1>0 DEF Abort, IInv, TreesOK, Pending, Early, Late, Compared, HasRow, NoRow, Terminal,
       probeVars
<1>3. BackingOK'
  BY <1>0 DEF Abort, IInv, BackingOK, Compared, Late, Review, HasRow, NoRow, Terminal,
       probeVars, modelVars
<1>4. ReviewOK'
  BY <1>0 DEF Abort, IInv, ReviewOK, Backed, Review, Reviewed, HasRow, NoRow, Terminal,
       probeVars, modelVars
<1> QED
  BY <1>0, <1>1, <1>2, <1>3, <1>4 DEF IInv

LEMMA CancelElsewhereStep ==
  ASSUME IInv, CancelElsewhere
  PROVE  IInv'
<1>0. UNCHANGED probeVars /\ BatchOK' /\ Plans' = Plans /\ Blocked' = Blocked /\ Degraded' = Degraded
  BY BatchStands DEF CancelElsewhere
<1>1. TypeOK'
  BY <1>0 DEF CancelElsewhere, IInv, TypeOK, Stage, StoredState, RunState, Terminal, HasRow,
       NoRow, probeVars, modelVars
<1>2. TreesOK'
  BY <1>0 DEF CancelElsewhere, IInv, TreesOK, Pending, Early, Late, Compared, HasRow, NoRow,
       Terminal, probeVars
<1>3. BackingOK'
  BY <1>0 DEF CancelElsewhere, IInv, BackingOK, Compared, Late, Review, HasRow, NoRow, Terminal,
       probeVars, modelVars
<1>4. ReviewOK'
  BY <1>0 DEF CancelElsewhere, IInv, ReviewOK, Backed, Review, Reviewed, HasRow, NoRow,
       Terminal, probeVars, modelVars
<1> QED
  BY <1>0, <1>1, <1>2, <1>3, <1>4 DEF IInv

LEMMA DeleteElsewhereStep ==
  ASSUME IInv, DeleteElsewhere
  PROVE  IInv'
<1>0. UNCHANGED probeVars /\ BatchOK' /\ Plans' = Plans /\ Blocked' = Blocked /\ Degraded' = Degraded
  BY BatchStands DEF DeleteElsewhere
<1>r. rows = [trees |-> rows.trees, attempts |-> rows.attempts, plans |-> rows.plans,
             comparison |-> rows.comparison, decisions |-> rows.decisions,
             presentation |-> rows.presentation]
  BY DEF IInv, TreesOK
<1>1. TypeOK'
  <2>1. /\ DOMAIN rows'.trees = {} /\ rows'.plans = {} /\ rows'.decisions = {}
        /\ rows'.presentation = "none"
    BY DEF DeleteElsewhere, NoRows
  <2> QED
    BY <1>0, <2>1 DEF DeleteElsewhere, IInv, TypeOK, Stage, StoredState, RunState, Terminal,
         HasRow, NoRow, probeVars, modelVars
<1>2. TreesOK'
  BY <1>0 DEF DeleteElsewhere, NoRows, IInv, TreesOK, Pending, Early, Late, Compared, HasRow,
       NoRow, Terminal, probeVars
<1>3. BackingOK'
  BY <1>0, <1>r DEF DeleteElsewhere, NoRows, IInv, BackingOK, Compared, Late, Review, HasRow,
       NoRow, Terminal, probeVars, modelVars
<1>4. ReviewOK'
  BY <1>0 DEF DeleteElsewhere, NoRows, IInv, ReviewOK, Backed, Review, Reviewed, HasRow, NoRow,
       Terminal, probeVars, modelVars
<1> QED
  BY <1>0, <1>1, <1>2, <1>3, <1>4 DEF IInv

(* A worktree row written while the batch is recorded names a worktree handed  *)
(* over, and says "removed" of none whose cleanup was not verified.            *)
LEMMA TreeRow ==
  ASSUME IInv, NEW t \in handed, NEW status \in {"pending", "removed", "failed"},
         rows' = With(t, status), status = "removed" => t \notin unclean,
         stage = "recording", rows.attempts = <<>>,
         UNCHANGED <<stage, aborted, run, probeVars, modelVars, contract>>
  PROVE  IInv'
<1>0. UNCHANGED probeVars /\ BatchOK' /\ Plans' = Plans /\ Blocked' = Blocked /\ Degraded' = Degraded
  BY BatchStands
<1>1. /\ rows' = [trees |-> rows'.trees, attempts |-> rows'.attempts, plans |-> rows'.plans,
                  comparison |-> rows'.comparison, decisions |-> rows'.decisions,
                  presentation |-> rows'.presentation]
      /\ rows'.trees = [u \in DOMAIN rows.trees \cup {t} |-> IF u = t THEN status ELSE rows.trees[u]]
      /\ rows'.attempts = rows.attempts /\ rows'.plans = rows.plans
      /\ rows'.comparison = rows.comparison /\ rows'.decisions = rows.decisions
      /\ rows'.presentation = rows.presentation
  BY DEF IInv, TreesOK, With
<1>2. /\ DOMAIN rows'.trees = DOMAIN rows.trees \cup {t}
      /\ \A u \in DOMAIN rows'.trees : rows'.trees[u] = IF u = t THEN status ELSE rows.trees[u]
  BY <1>1
<1>3. TypeOK'
  BY <1>0, <1>1, <1>2 DEF IInv, TypeOK, probeVars, modelVars
<1>4. TreesOK'
  BY <1>0, <1>1, <1>2 DEF IInv, TreesOK, Early, Late, Compared, probeVars
<1>5. BackingOK'
  BY <1>0, <1>1 DEF IInv, BackingOK, Compared, Late, modelVars
<1>6. ReviewOK'
  BY <1>0 DEF IInv, ReviewOK, Reviewed
<1> QED
  BY <1>0, <1>3, <1>4, <1>5, <1>6 DEF IInv

(* A row that cannot be written because the run is gone ends the inspection.   *)
LEMMA RunIsGone ==
  ASSUME IInv, stage = "recording", ~HasRow, Abandon,
         UNCHANGED <<aborted, probeVars, rows, modelVars, contract>>
  PROVE  IInv'
<1>0. UNCHANGED probeVars /\ BatchOK' /\ Plans' = Plans /\ Blocked' = Blocked /\ Degraded' = Degraded
  BY BatchStands
<1>1. run' = run /\ stage' = "closing" /\ ~HasRow' /\ run \notin Reviewed
  BY DEF Abandon, HasRow, NoRow, Reviewed
<1>2. TypeOK'
  BY <1>0, <1>1 DEF IInv, TypeOK, Stage, probeVars, modelVars
<1>3. TreesOK'
  BY <1>0, <1>1 DEF IInv, TreesOK, Pending, Early, probeVars
<1>4. BackingOK'
  BY <1>0, <1>1 DEF IInv, BackingOK, Compared, Late, modelVars
<1>5. ReviewOK'
  BY <1>0, <1>1 DEF IInv, ReviewOK, Reviewed, HasRow, NoRow
<1> QED
  BY <1>0, <1>2, <1>3, <1>4, <1>5 DEF IInv

LEMMA RecordTreeStep ==
  ASSUME IInv, RecordTree
  PROVE  IInv'
<1>1. PICK t \in Unrecorded : Store(With(t, "pending"), stage)
  BY DEF RecordTree
<1>2. t \in handed /\ rows.attempts = <<>>
  BY DEF IInv, TreesOK, Unrecorded
<1>3. CASE HasRow
  BY <1>1, <1>2, <1>3, TreeRow DEF RecordTree, Store
<1>4. CASE ~HasRow
  BY <1>1, <1>4, RunIsGone DEF RecordTree, Store
<1> QED
  BY <1>3, <1>4

LEMMA RecordCleanupStep ==
  ASSUME IInv, RecordCleanup
  PROVE  IInv'
<1>1. PICK t \in Pending : Store(With(t, Outcome(t)), stage)
  BY DEF RecordCleanup
<1>2. t \in handed /\ rows.attempts = <<>>
  BY DEF IInv, TreesOK, Pending
<1>3. Outcome(t) \in {"pending", "removed", "failed"} /\ (Outcome(t) = "removed" => t \notin unclean)
  BY DEF Outcome
<1>4. CASE HasRow
  BY <1>1, <1>2, <1>3, <1>4, TreeRow DEF RecordCleanup, Store
<1>5. CASE ~HasRow
  BY <1>1, <1>5, RunIsGone DEF RecordCleanup, Store
<1> QED
  BY <1>4, <1>5

LEMMA RecordAttemptsStep ==
  ASSUME IInv, RecordAttempts
  PROVE  IInv'
<1>0. UNCHANGED probeVars /\ BatchOK' /\ Plans' = Plans /\ Blocked' = Blocked /\ Degraded' = Degraded
  BY BatchStands DEF RecordAttempts
<1>r. rows = [trees |-> rows.trees, attempts |-> rows.attempts, plans |-> rows.plans,
             comparison |-> rows.comparison, decisions |-> rows.decisions,
             presentation |-> rows.presentation]
  BY DEF IInv, TreesOK
<1>1. TypeOK'
  BY <1>0, <1>r DEF RecordAttempts, Store, Abandon, IInv, TypeOK, Stage, StoredState, RunState,
       Terminal, HasRow, NoRow, probeVars, modelVars
<1>2. TreesOK'
  <2>1. DOMAIN rows'.trees = DOMAIN rows.trees /\ rows'.trees = rows.trees
    BY <1>r DEF RecordAttempts, Store
  <2> QED
  BY <1>0, <1>r, <2>1 DEF RecordAttempts, Unrecorded, Store, Abandon, IInv, TreesOK, Pending,
       Early, Late, Compared, HasRow, NoRow, Terminal, probeVars
<1>3. BackingOK'
  BY <1>0, <1>r DEF RecordAttempts, Store, Abandon, IInv, BackingOK, Compared, Late, Review,
       HasRow, NoRow, Terminal, probeVars, modelVars
<1>4. ReviewOK'
  BY <1>0 DEF RecordAttempts, Store, Abandon, IInv, ReviewOK, Backed, Review, Reviewed, HasRow,
       NoRow, Terminal, probeVars, modelVars
<1> QED
  BY <1>0, <1>1, <1>2, <1>3, <1>4 DEF IInv

-----------------------------------------------------------------------------
(* The probes *)

(* A queue without repetitions is no longer than there are probes.             *)
LEMMA QueueFits ==
  ASSUME NEW q \in Seq(Probes), \A i, j \in DOMAIN q : q[i] = q[j] => i = j
  PROVE  Len(q) <= Cardinality(Probes)
<1>1. Len(q) \in Nat /\ DOMAIN q = 1 .. Len(q) /\ q \in [1 .. Len(q) -> Probes]
  OBVIOUS
<1>2. q \in Injection(1 .. Len(q), Probes)
  BY <1>1 DEF Injection, IsInjective
<1>3. Cardinality(1 .. Len(q)) = Len(q)
  BY <1>1, FS_Interval
<1> QED
  BY <1>2, <1>3, FS_Injection, InspectionAssumption

(* A queue of waiting probes, each of them once and none of them p.            *)
Waiting(q, p) ==
  /\ q \in Seq(Probes)
  /\ \A i \in DOMAIN q : q[i] # p /\ step[q[i]] = "queued"
  /\ \A i, j \in DOMAIN q : q[i] = q[j] => i = j

LEMMA AttemptIsCounted ==
  ASSUME IInv, NEW p \in Probes, step[p] # "done", NEW r \in Result
  PROVE  /\ Counted(p, r) \in Seq(Result) /\ Len(Counted(p, r)) = Len(results[p]) + 1
         /\ Len(results[p]) + 1 <= MaxAttempts
         /\ Append(Counted(p, r), "cancelled") \in Seq(Result)
         /\ Len(Append(Counted(p, r), "cancelled")) = Len(results[p]) + 2
<1>1. results[p] \in Seq(Result) /\ Len(results[p]) < MaxAttempts /\ Len(results[p]) \in Nat
  BY DEF IInv, TypeOK, BatchOK
<1>2. "cancelled" \in Result
  BY DEF Result
<1>3. Counted(p, r) \in Seq(Result) /\ Len(Counted(p, r)) = Len(results[p]) + 1
  BY <1>1 DEF Counted
<1> QED
  BY <1>1, <1>2, <1>3, Numbers

(* An attempt that is over leaves the batch in order.                          *)
LEMMA ConcludeStep ==
  ASSUME IInv, NEW p \in Probes, step[p] # "done", NEW r \in Result,
         NEW rest, Waiting(rest, p), Conclude(p, r, rest)
  PROVE  /\ step' \in [Probes -> {"queued", "running", "cleaning", "done"}]
         /\ results' \in [Probes -> Seq(Result)]
         /\ \A q \in Probes : Len(results'[q]) <= MaxAttempts
         /\ queue' \in Seq(Probes) /\ Len(queue') <= Cardinality(Probes)
         /\ \A q \in Probes : step'[q] # "done" => Len(results'[q]) < MaxAttempts
         /\ \A q \in Probes : step'[q] = "cleaning" => q # p /\ step[q] = "cleaning"
         /\ \A i \in DOMAIN queue' : step'[queue'[i]] = "queued"
         /\ \A i, j \in DOMAIN queue' : queue'[i] = queue'[j] => i = j
         /\ \A q \in Probes : Len(results[q]) <= Len(results'[q])
         /\ Len(results'[p]) >= Attempt(p)
<1> DEFINE so == Counted(p, r)
           last == r \in {"completed", "violation"} \/ Len(so) = MaxAttempts
<1>1. /\ results' = [results EXCEPT ![p] = IF ~last /\ aborted THEN Append(so, "cancelled") ELSE so]
      /\ step' = [step EXCEPT ![p] = IF last \/ aborted THEN "done" ELSE "queued"]
      /\ queue' = IF last \/ aborted THEN rest ELSE Append(rest, p)
  BY DEF Conclude
<1>2. /\ so \in Seq(Result) /\ Len(so) = Len(results[p]) + 1 /\ Len(so) <= MaxAttempts
      /\ Append(so, "cancelled") \in Seq(Result)
      /\ Len(Append(so, "cancelled")) = Len(results[p]) + 2
  BY AttemptIsCounted
<1>3. ~last => Len(so) < MaxAttempts
  BY <1>2, Numbers
<1>4. \A q \in Probes : results[q] \in Seq(Result) /\ Len(results[q]) <= MaxAttempts
                       /\ (step[q] # "done" => Len(results[q]) < MaxAttempts)
  BY DEF IInv, TypeOK, BatchOK
<1>5. /\ \A q \in Probes : q # p => results'[q] = results[q] /\ step'[q] = step[q]
      /\ results'[p] = IF ~last /\ aborted THEN Append(so, "cancelled") ELSE so
      /\ step'[p] = IF last \/ aborted THEN "done" ELSE "queued"
      /\ step' \in [Probes -> {"queued", "running", "cleaning", "done"}]
  BY <1>1 DEF IInv, TypeOK
<1> HIDE DEF so, last
<1>6. results' \in [Probes -> Seq(Result)] /\ \A q \in Probes : Len(results'[q]) <= MaxAttempts
  <2>1. (IF ~last /\ aborted THEN Append(so, "cancelled") ELSE so) \in Seq(Result)
    BY <1>2
  <2>2. results' \in [Probes -> Seq(Result)]
    BY <1>1, <2>1 DEF IInv, TypeOK, last, so
  <2>3. Len(results'[p]) <= MaxAttempts
    BY <1>2, <1>3, <1>5, Numbers
  <2> QED
    BY <1>4, <1>5, <2>2, <2>3
<1>7. \A q \in Probes : step'[q] # "done" => Len(results'[q]) < MaxAttempts
  BY <1>2, <1>3, <1>4, <1>5
<1>8. \A q \in Probes : Len(results[q]) <= Len(results'[q])
  <2>1. \A q \in Probes : Len(results[q]) \in Nat
    BY <1>4
  <2>2. Len(results[p]) <= Len(results'[p])
    BY <1>2, <1>5, <2>1
  <2>3. ASSUME NEW q \in Probes, q # p
        PROVE  Len(results[q]) <= Len(results'[q])
    <3>1. results'[q] = results[q] /\ Len(results[q]) \in Nat
      BY <1>5, <2>1, <2>3
    <3> QED
      BY <3>1
  <2> QED
    BY <2>2, <2>3
<1>9. Len(results'[p]) >= Attempt(p)
  BY <1>2, <1>4, <1>5 DEF Attempt
<1>10. /\ queue' \in Seq(Probes)
       /\ \A i \in DOMAIN queue' : step'[queue'[i]] = "queued"
       /\ \A i, j \in DOMAIN queue' : queue'[i] = queue'[j] => i = j
  <2>1. \A i \in DOMAIN rest : rest[i] \in Probes /\ rest[i] # p /\ step'[rest[i]] = "queued"
    BY <1>5 DEF Waiting
  <2>2. CASE last \/ aborted
    BY <1>1, <2>1, <2>2 DEF Waiting, last, so
  <2>3. CASE ~(last \/ aborted)
    <3>1. queue' = Append(rest, p) /\ step'[p] = "queued"
      BY <1>1, <1>5, <2>3 DEF last, so
    <3>2. rest \in Seq(Probes) /\ Len(rest) \in Nat /\ DOMAIN rest = 1 .. Len(rest)
      BY DEF Waiting
    <3>3. /\ queue' \in Seq(Probes) /\ DOMAIN queue' = 1 .. Len(rest) + 1
          /\ queue'[Len(rest) + 1] = p /\ \A i \in 1 .. Len(rest) : queue'[i] = rest[i]
      BY <3>1, <3>2
    <3> QED
      BY <2>1, <3>1, <3>2, <3>3 DEF Waiting
  <2> QED
    BY <2>2, <2>3
<1>11. Len(queue') <= Cardinality(Probes)
  BY <1>10, QueueFits
<1>12. \A q \in Probes : step'[q] = "cleaning" => q # p /\ step[q] = "cleaning"
  BY <1>5
<1> QED
  BY <1>5, <1>6, <1>7, <1>8, <1>9, <1>10, <1>11, <1>12

(* While the probes run, nothing is stored and no run is under review.         *)
LEMMA ProbingStands ==
  ASSUME IInv, stage = "probing", BatchOK',
         step' \in [Probes -> {"queued", "running", "cleaning", "done"}],
         held' \in [Probes -> Result \cup {"none"}],
         results' \in [Probes -> Seq(Result)],
         \A q \in Probes : Len(results'[q]) <= MaxAttempts,
         queue' \in Seq(Probes), Len(queue') <= Cardinality(Probes),
         disk' \subseteq Tree, handed' \subseteq Tree, unclean' \subseteq handed',
         UNCHANGED <<stage, aborted, run, rows, modelVars, contract>>
  PROVE  IInv'
<1>1. rows = NoRows /\ rows' = NoRows /\ run \notin Reviewed /\ ~contract
  BY DEF IInv, TreesOK, ReviewOK, Early, Late
<1>2. TypeOK'
  BY DEF IInv, TypeOK, modelVars
<1>3. TreesOK'
  BY <1>1 DEF IInv, TreesOK, NoRows, Early, Late, Compared
<1>4. BackingOK'
  BY <1>1 DEF IInv, BackingOK, NoRows, Compared, Late, modelVars
<1>5. ReviewOK'
  BY <1>1 DEF IInv, ReviewOK, Reviewed, modelVars
<1> QED
  BY <1>2, <1>3, <1>4, <1>5 DEF IInv

LEMMA TreeIsNew ==
  ASSUME IInv, NEW p \in Probes, step[p] # "done"
  PROVE  TreeOf(p) \in Tree /\ TreeOf(p) \notin handed
<1>1. Len(results[p]) \in Nat /\ Len(results[p]) < MaxAttempts
  BY DEF IInv, TypeOK, BatchOK
<1>2. \A t \in handed : t[2] <= Len(results[t[1]])
  BY DEF IInv, BatchOK
<1> QED
  BY <1>1, <1>2, Numbers DEF TreeOf, Tree, Attempt

LEMMA CreateWorktreeStep ==
  ASSUME IInv, NEW p \in Probes, CreateWorktree(p)
  PROVE  IInv'
<1>1. /\ stage = "probing" /\ queue # <<>> /\ p = Head(queue)
      /\ queue \in Seq(Probes) /\ Len(queue) \in Nat /\ Len(queue) > 0
      /\ p = queue[1] /\ step[p] = "queued"
  BY DEF CreateWorktree, IInv, TypeOK, BatchOK
<1>2. /\ Tail(queue) \in Seq(Probes) /\ Len(Tail(queue)) = Len(queue) - 1
      /\ \A i \in DOMAIN Tail(queue) : Tail(queue)[i] = queue[i + 1] /\ i + 1 \in DOMAIN queue /\ i \in Nat /\ i >= 1
  BY <1>1
<1>3. Waiting(Tail(queue), p)
  <2>1. \A i, j \in DOMAIN queue : queue[i] = queue[j] => i = j
    BY DEF IInv, BatchOK
  <2>2. \A i \in DOMAIN queue : step[queue[i]] = "queued"
    BY DEF IInv, BatchOK
  <2>3. 1 \in DOMAIN queue
    BY <1>1
  <2> QED
    BY <1>1, <1>2, <2>1, <2>2, <2>3 DEF Waiting
<1>4. TreeOf(p) \in Tree /\ TreeOf(p) \notin handed
  BY <1>1, TreeIsNew
<1>5. UNCHANGED <<stage, aborted, run, held, handed, unclean, rows, modelVars, contract>>
  BY DEF CreateWorktree
<1>6. disk' = disk \cup {TreeOf(p)} \/ disk' = disk
  BY DEF CreateWorktree
<1>7. disk' \subseteq Tree /\ \A t \in handed : t \in disk' => t \in disk
  BY <1>4, <1>6 DEF IInv, TypeOK
<1>8. CASE step' = [step EXCEPT ![p] = "running"] /\ queue' = Tail(queue) /\ UNCHANGED results
  <2>1. BatchOK'
    BY <1>1, <1>3, <1>5, <1>7, <1>8 DEF IInv, TypeOK, BatchOK, Waiting
  <2>2. Len(queue') <= Cardinality(Probes)
    BY <1>2, <1>3, <1>8, QueueFits DEF Waiting
  <2>3. step' \in [Probes -> {"queued", "running", "cleaning", "done"}]
    BY <1>8 DEF IInv, TypeOK
  <2> QED
    BY <1>1, <1>2, <1>5, <1>7, <1>8, <2>1, <2>2, <2>3, ProbingStands DEF IInv, TypeOK
<1>9. CASE Conclude(p, "failed", Tail(queue))
  <2>1. "failed" \in Result
    BY DEF Result
  <2> HIDE DEF Conclude
  <2>2. /\ step' \in [Probes -> {"queued", "running", "cleaning", "done"}]
        /\ results' \in [Probes -> Seq(Result)]
        /\ \A q \in Probes : Len(results'[q]) <= MaxAttempts
        /\ queue' \in Seq(Probes) /\ Len(queue') <= Cardinality(Probes)
        /\ \A q \in Probes : step'[q] # "done" => Len(results'[q]) < MaxAttempts
        /\ \A q \in Probes : step'[q] = "cleaning" => q # p /\ step[q] = "cleaning"
        /\ \A i \in DOMAIN queue' : step'[queue'[i]] = "queued"
        /\ \A i, j \in DOMAIN queue' : queue'[i] = queue'[j] => i = j
        /\ \A q \in Probes : Len(results[q]) <= Len(results'[q])
    BY <1>1, <1>3, <1>9, <2>1, ConcludeStep
  <2>3. \A t \in handed : t[1] \in Probes /\ t[2] \in Nat /\ t[2] <= Len(results[t[1]])
    BY Numbers DEF IInv, TypeOK, BatchOK, Tree
  <2>4. \A q \in Probes : Len(results[q]) \in Nat /\ Len(results'[q]) \in Nat
    BY <2>2 DEF IInv, TypeOK
  <2>5. ASSUME NEW t \in handed'
        PROVE  t[2] <= Len(results'[t[1]])
    <3>1. PICK q, n : q = t[1] /\ n = t[2]
      OBVIOUS
    <3>2. q \in Probes /\ n \in Nat /\ n <= Len(results[q])
      BY <1>5, <2>3, <3>1
    <3> QED
      BY <2>2, <2>4, <3>1, <3>2
  <2>6. BatchOK'
    BY <1>5, <1>7, <2>2, <2>5 DEF IInv, BatchOK
  <2> QED
    BY <1>1, <1>5, <1>7, <2>2, <2>6, ProbingStands DEF IInv, TypeOK
<1> QED
  BY <1>8, <1>9 DEF CreateWorktree

LEMMA RunProbeStep ==
  ASSUME IInv, NEW p \in Probes, RunProbe(p)
  PROVE  IInv'
<1>1. PICK r \in Settles : held' = [held EXCEPT ![p] = r]
  BY DEF RunProbe
<1>2. r \in Result /\ r # "none"
  BY DEF Settles, Result
<1>3. step' = [step EXCEPT ![p] = "cleaning"] /\ step[p] = "running" /\ stage = "probing"
  BY DEF RunProbe
<1>4. UNCHANGED <<stage, aborted, run, results, queue, disk, handed, unclean, rows, modelVars, contract>>
  BY DEF RunProbe
<1>5. step' \in [Probes -> {"queued", "running", "cleaning", "done"}] /\ held' \in [Probes -> Result \cup {"none"}]
  BY <1>1, <1>2, <1>3 DEF IInv, TypeOK
<1>6. BatchOK'
  BY <1>1, <1>2, <1>3, <1>4 DEF IInv, TypeOK, BatchOK
<1> QED
  BY <1>3, <1>4, <1>5, <1>6, ProbingStands DEF IInv, TypeOK

LEMMA CleanUpStep ==
  ASSUME IInv, NEW p \in Probes, CleanUp(p)
  PROVE  IInv'
<1>1. PICK removed \in BOOLEAN, verified \in BOOLEAN :
        LET clean == removed /\ verified
        IN /\ disk' = IF removed THEN disk \ {TreeOf(p)} ELSE disk
           /\ unclean' = IF clean THEN unclean ELSE unclean \cup {TreeOf(p)}
           /\ handed' = HandOver(p)
           /\ Conclude(p, IF clean THEN held[p] ELSE "violation", queue)
  BY DEF CleanUp
<1>2. PICK r : r = IF removed /\ verified THEN held[p] ELSE "violation"
  OBVIOUS
<1>3. /\ stage = "probing" /\ step[p] = "cleaning"
      /\ held' = [held EXCEPT ![p] = "none"]
      /\ UNCHANGED <<stage, aborted, run, rows, modelVars, contract>>
  BY DEF CleanUp
<1>4. r \in Result
  BY <1>2, <1>3 DEF IInv, TypeOK, BatchOK, Result
<1>5. Waiting(queue, p)
  BY <1>3 DEF IInv, TypeOK, BatchOK, Waiting
<1>6. Conclude(p, r, queue)
  BY <1>1, <1>2
<1>7. /\ step' \in [Probes -> {"queued", "running", "cleaning", "done"}]
      /\ results' \in [Probes -> Seq(Result)]
      /\ \A q \in Probes : Len(results'[q]) <= MaxAttempts
      /\ queue' \in Seq(Probes) /\ Len(queue') <= Cardinality(Probes)
      /\ \A q \in Probes : step'[q] # "done" => Len(results'[q]) < MaxAttempts
      /\ \A q \in Probes : step'[q] = "cleaning" => q # p /\ step[q] = "cleaning"
      /\ \A i \in DOMAIN queue' : step'[queue'[i]] = "queued"
      /\ \A i, j \in DOMAIN queue' : queue'[i] = queue'[j] => i = j
      /\ \A q \in Probes : Len(results[q]) <= Len(results'[q])
      /\ Len(results'[p]) >= Attempt(p)
  BY <1>3, <1>4, <1>5, <1>6, ConcludeStep
<1>8. TreeOf(p) \in Tree /\ TreeOf(p) \notin handed
  BY <1>3, TreeIsNew
<1>9. /\ disk' = (IF removed THEN disk \ {TreeOf(p)} ELSE disk)
      /\ unclean' = (IF removed /\ verified THEN unclean ELSE unclean \cup {TreeOf(p)})
      /\ handed' = handed \cup {TreeOf(p)}
  BY <1>1 DEF HandOver
<1>10. /\ disk' \subseteq Tree /\ handed' \subseteq Tree /\ unclean' \subseteq handed'
       /\ \A t \in handed' : t \in disk' => t \in unclean'
  BY <1>8, <1>9 DEF IInv, TypeOK, BatchOK
<1>11. ASSUME NEW t \in handed'
       PROVE  t[2] <= Len(results'[t[1]])
  <2>1. \A q \in Probes : Len(results[q]) \in Nat /\ Len(results'[q]) \in Nat
    BY <1>7 DEF IInv, TypeOK
  <2>2. CASE t = TreeOf(p)
    BY <1>7, <2>2 DEF TreeOf
  <2>3. CASE t \in handed
    <3>1. PICK q, n : q = t[1] /\ n = t[2]
      OBVIOUS
    <3>2. q \in Probes /\ n \in Nat /\ n <= Len(results[q])
      BY <2>3, <3>1, Numbers DEF IInv, TypeOK, BatchOK, Tree
    <3> QED
      BY <1>7, <2>1, <3>1, <3>2
  <2> QED
    BY <1>9, <2>2, <2>3
<1>12. held' \in [Probes -> Result \cup {"none"}]
       /\ \A q \in Probes : step'[q] = "cleaning" => held'[q] # "none"
  BY <1>3, <1>7 DEF IInv, TypeOK, BatchOK
<1>13. BatchOK'
  BY <1>7, <1>10, <1>11, <1>12 DEF BatchOK
<1> QED
  BY <1>3, <1>7, <1>10, <1>12, <1>13, ProbingStands

-----------------------------------------------------------------------------
(* The theorems *)

LEMMA NextInv == IInv /\ [Next]_vars => IInv'
<1> SUFFICES ASSUME IInv, [Next]_vars PROVE IInv'
  OBVIOUS
<1>1. CASE Inspect
  <2>1. ASSUME NEW p \in Probes, CreateWorktree(p) \/ RunProbe(p) \/ CleanUp(p)
        PROVE  IInv'
    BY <2>1, CreateWorktreeStep, RunProbeStep, CleanUpStep
  <2> QED
    BY <1>1, <2>1, PrepareStep, BeginSnapshotStep, BeginProbingStep, FinishBatchStep,
       RecordTreeStep, RecordCleanupStep, RecordAttemptsStep, SavePlansStep, CompareAnswersStep,
       CompareFailsStep, SaveComparisonStep, SaveDecisionsStep, TranslationAnswersStep,
       TranslationFailsStep, EnterComparingStep, PresentStep, CloseStep DEF Inspect
<1>2. CASE Abort \/ CancelElsewhere \/ DeleteElsewhere
  BY <1>2, AbortStep, CancelElsewhereStep, DeleteElsewhereStep
<1>3. CASE UNCHANGED vars
  <2>1. BatchOK' /\ Plans' = Plans /\ Blocked' = Blocked /\ Degraded' = Degraded
    BY <1>3, BatchStands DEF vars
  <2> QED
    BY <1>3, <2>1 DEF vars, probeVars, modelVars, IInv, TypeOK, TreesOK, Pending, HasRow,
      BackingOK, Review, ReviewOK, Backed
<1> QED
  BY <1>1, <1>2, <1>3 DEF Next

LEMMA Invariance == Spec => []IInv
BY InitInv, NextInv, PTL DEF Spec

(* Every state of an inspection is well formed: an attempt is counted once, no *)
(* probe has more than its attempts, and the creation queue holds each probe at*)
(* most once (ProbeCoordinator.run).                                           *)
THEOREM TypeInvariant == Spec => []TypeOK
<1>1. IInv => TypeOK
  BY DEF IInv
<1> QED
  BY <1>1, Invariance, PTL

(* However many probes run and however they fail, a batch with one containment *)
(* violation or one unverified cleanup gives no plan and no review.            *)
THEOREM SuspectBatches == Spec => []SuspectBatchLeavesNoPlan
<1>1. IInv => SuspectBatchLeavesNoPlan
  BY DEF IInv, BackingOK, ReviewOK, Backed, Blocked, Suspect, SuspectBatchLeavesNoPlan
<1> QED
  BY <1>1, Invariance, PTL

(* A run that reached a reviewer, or an approval without one, has what it rests*)
(* on in the store; without one it had the full batch (inspect).               *)
THEOREM Reviews == Spec => []ReviewIsBacked
<1>1. ASSUME IInv, run \in {"needs_review", "ready_for_approval"}
      PROVE  ReviewIsBacked
  <2>1. Backed /\ (run = "ready_for_approval") = contract /\ contract = (rows.decisions = {})
    BY <1>1 DEF IInv, ReviewOK, Reviewed
  <2>2. Cardinality(Plans) \in Nat /\ Cardinality(Plans) >= 2
    BY <2>1, CountsAreNumbers DEF Backed, Blocked
  <2>3. rows.comparison # NoCandidate /\ rows.presentation # "none"
    BY <2>1 DEF Backed, Bound, Fallback, NoCandidate
  <2>4. ASSUME contract
        PROVE  rows.plans = Probes /\ rows.comparison = [by |-> "model", open |-> {}]
    <3>1. candidate.open = {} /\ ~Degraded
      BY <2>1, <2>4 DEF Backed, Review
    <3>2. Cardinality(Plans) = 3 /\ Cardinality(Probes) = 3
      <4>1. Cardinality(Probes) \in 1 .. 3
        BY InspectionAssumption
      <4> QED
        BY <2>2, <3>1, <4>1, CountsAreNumbers DEF Degraded
    <3>3. candidate = [by |-> "model", open |-> {}]
      BY <2>1, <3>1 DEF Backed, Bound, Fallback, Subject
    <3> QED
      BY <2>1, <3>2, <3>3, CountsAreNumbers DEF Backed
  <2> QED
    BY <2>1, <2>2, <2>3, <2>4 DEF ReviewIsBacked, Backed
<1>2. IInv => ReviewIsBacked
  BY <1>1 DEF ReviewIsBacked
<1> QED
  BY <1>2, Invariance, PTL

(* The rows of the worktrees are settled when the inspection has ended, and no *)
(* row says "removed" of a worktree that is there (recordProbeBatch).          *)
THEOREM WorktreeRows == Spec => []TreesAreAccounted
<1>1. IInv => TreesAreAccounted
  BY DEF IInv, TreesOK, BatchOK, TreesAreAccounted, Late
<1> QED
  BY <1>1, Invariance, PTL

(* Once the timer of withTimeout has fired, the run never reaches a reviewer.  *)
THEOREM TimeoutsAreFinal == Spec => []AbortIsFinal
<1>1. IInv => AbortIsFinal
  BY DEF IInv, ReviewOK, AbortIsFinal
<1> QED
  BY <1>1, Invariance, PTL
=============================================================================
