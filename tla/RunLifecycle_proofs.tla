------------------------- MODULE RunLifecycle_proofs -------------------------
(***************************************************************************)
(* Proofs that the store keeps RunLifecycle's invariant, for any clients,   *)
(* decisions and answers and any bounds.  IInv is preserved by each action; *)
(* the safety properties are conjuncts of it.                               *)
(***************************************************************************)
EXTENDS RunLifecycle, TLAPS

-----------------------------------------------------------------------------
(* Requests *)

(* A request that names what was just read is well formed.                     *)
LEMMA AskType ==
  ASSUME TypeOK, NEW op \in Operation, NEW g \in 0 .. MaxLease
  PROVE  /\ Ask(op, g) \in Request
         /\ Ask(op, g).op = op
         /\ Ask(op, g).version = version
         /\ Ask(op, g).outcome = "unknown"
         /\ Ask(op, g).target = "created"
         /\ Ask(op, g).contract = active
BY DEF TypeOK, Ask, Request, Outcome, RunState

(* The part of a request that is kept is a request.                            *)
LEMMA KeyType ==
  ASSUME NEW r \in Request
  PROVE  /\ KeyOf(r) \in Request
         /\ KeyOf(r).op = r.op
         /\ KeyOf(r).contract = r.contract
<1>1. 0 \in 0 .. MaxLease
  BY LifecycleAssumption
<1> QED
  BY <1>1 DEF KeyOf, Request, Outcome

(* A keyed operation is asked for by a request, and adds a request to keys.    *)
LEMMA KeyedType ==
  ASSUME TypeOK, NEW c \in Clients, NEW op, Keyed(c, op)
  PROVE  /\ slot[c] \in Request
         /\ slot[c].op = op
         /\ keys' \subseteq Request
         /\ state \notin NoRow
<1>1. slot[c] \in Request
  BY DEF TypeOK, Keyed, Sent
<1>2. KeyOf(slot[c]) \in Request
  BY <1>1, KeyType
<1> QED
  BY <1>1, <1>2 DEF TypeOK, Keyed, Sent, Keep

(* A client that fills its slot from what it reads disturbs nothing.           *)
LEMMA FillKeeps ==
  ASSUME IInv, NEW c \in Clients, NEW r \in Request,
         r.version = version, r.outcome = "unknown",
         r.op = "decide" => r.answer # NoAnswer,
         r.op = "move" => r.target \in {"pausing", "paused"} \cup Terminal,
         state \notin NoRow,
         Fill(c, r)
  PROVE  IInv'
<1> USE DEF IInv, Fill, storeVars, runVars, reviewVars, contractVars, leaseVars
<1>1. TypeOK'
  BY DEF TypeOK
<1>2. RequestsBehind'
  <2>1. slot' = [slot EXCEPT ![c] = r] /\ slot \in [Clients -> Request \cup {NoRequest}]
    BY DEF TypeOK
  <2>2. \A d \in Clients : slot'[d] = IF d = c THEN r ELSE slot[d]
    BY <2>1
  <2>3. version \in Int /\ version <= version
    BY DEF TypeOK
  <2>4. \A d \in Clients : slot'[d] # NoRequest /\ state' \notin NoRow => slot'[d].version <= version'
    BY <2>2, <2>3 DEF RequestsBehind
  <2> QED
    BY <2>2, <2>4 DEF RequestsBehind, NoRow
<1>3. BeforeReview' /\ ContractsInOrder' /\ ReviewAgreement' /\ ContractQuotesAnswers'
      /\ NewestContractIsActive' /\ RunsUnderApproval'
  BY DEF BeforeReview, ContractsInOrder, ReviewAgreement, ContractQuotesAnswers,
         NewestContractIsActive, RunsUnderApproval
<1> QED
  BY <1>1, <1>2, <1>3

LEMMA PrepareKeeps ==
  ASSUME IInv, NEW c \in Clients, Prepare(c)
  PROVE  IInv'
<1> USE DEF IInv
<1>0. /\ 0 \in 0 .. MaxLease
      /\ \A g \in Generations(c) : g \in 0 .. MaxLease
      /\ NoAnswer \notin Answer
  BY LifecycleAssumption DEF TypeOK, Generations, Answer
<1>1. CASE AskDecide(c)
  <2>1. PICK g \in Generations(c), d \in points, a \in Answer :
          Fill(c, [Ask("decide", g) EXCEPT !.decision = d, !.answer = a])
    BY <1>1 DEF AskDecide
  <2> DEFINE r == [Ask("decide", g) EXCEPT !.decision = d, !.answer = a]
  <2>2. Ask("decide", g) \in Request /\ Ask("decide", g).version = version
        /\ Ask("decide", g).outcome = "unknown" /\ Ask("decide", g).op = "decide"
    BY <1>0, <2>1, AskType DEF Operation
  <2>3. d \in Decisions
    BY <2>1 DEF TypeOK
  <2>4. r \in Request /\ r.version = version /\ r.outcome = "unknown" /\ r.answer = a
        /\ r.op = "decide"
    BY <2>2, <2>3 DEF Request
  <2>5. state \notin NoRow
    BY <1>1 DEF AskDecide, NoRow
  <2> HIDE DEF r
  <2>6. r.op = "decide" => r.answer # NoAnswer
    BY <1>0, <2>4
  <2>7. Fill(c, r)
    BY <2>1 DEF r
  <2> QED
    BY <2>4, <2>5, <2>6, <2>7, FillKeeps
<1>2. CASE AskDefer(c)
  <2>1. PICK g \in Generations(c), d \in points :
          Fill(c, [Ask("defer", g) EXCEPT !.decision = d])
    BY <1>2 DEF AskDefer
  <2> DEFINE r == [Ask("defer", g) EXCEPT !.decision = d]
  <2>2. Ask("defer", g) \in Request /\ Ask("defer", g).version = version
        /\ Ask("defer", g).outcome = "unknown" /\ Ask("defer", g).op = "defer"
    BY <1>0, <2>1, AskType DEF Operation
  <2>3. d \in Decisions
    BY <2>1 DEF TypeOK
  <2>4. r \in Request /\ r.version = version /\ r.outcome = "unknown" /\ r.op = "defer"
    BY <2>2, <2>3 DEF Request
  <2>5. state \notin NoRow
    BY <1>2 DEF AskDefer, NoRow
  <2>6. Fill(c, r)
    BY <2>1
  <2> QED
    BY <2>4, <2>5, <2>6, FillKeeps
<1>3. CASE AskReopen(c)
  <2>1. PICK g \in Generations(c) : Fill(c, Ask("reopen", g))
    BY <1>3 DEF AskReopen
  <2>2. Ask("reopen", g) \in Request /\ Ask("reopen", g).version = version
        /\ Ask("reopen", g).outcome = "unknown" /\ Ask("reopen", g).op = "reopen"
    BY <1>0, <2>1, AskType DEF Operation
  <2> QED
    BY <1>3, <2>1, <2>2, FillKeeps DEF AskReopen, NoRow
<1>4. CASE AskApprove(c)
  <2>1. PICK g \in Generations(c) : Fill(c, Ask("approve", g))
    BY <1>4 DEF AskApprove
  <2>2. Ask("approve", g) \in Request /\ Ask("approve", g).version = version
        /\ Ask("approve", g).outcome = "unknown" /\ Ask("approve", g).op = "approve"
    BY <1>0, <2>1, AskType DEF Operation
  <2> QED
    BY <1>4, <2>1, <2>2, FillKeeps DEF AskApprove, NoRow
<1>5. CASE AskCancel(c)
  <2>1. PICK g \in Generations(c) : Fill(c, Ask("cancel", g))
    BY <1>5 DEF AskCancel
  <2>2. Ask("cancel", g) \in Request /\ Ask("cancel", g).version = version
        /\ Ask("cancel", g).outcome = "unknown" /\ Ask("cancel", g).op = "cancel"
    BY <1>0, <2>1, AskType DEF Operation
  <2> QED
    BY <1>5, <2>1, <2>2, FillKeeps DEF AskCancel
<1>6. CASE AskAmend(c)
  <2>1. Ask("amend", 0) \in Request /\ Ask("amend", 0).version = version
        /\ Ask("amend", 0).outcome = "unknown" /\ Ask("amend", 0).op = "amend"
    BY <1>0, AskType DEF Operation
  <2> QED
    BY <1>6, <2>1, FillKeeps DEF AskAmend, NoRow
<1>7. CASE AskStart(c)
  <2> DEFINE r == [Ask("start", 0) EXCEPT !.fresh = current]
  <2>1. Ask("start", 0) \in Request /\ Ask("start", 0).version = version
        /\ Ask("start", 0).outcome = "unknown" /\ Ask("start", 0).op = "start"
    BY <1>0, AskType DEF Operation
  <2>2. r \in Request /\ r.version = version /\ r.outcome = "unknown" /\ r.op = "start"
    BY <2>1 DEF Request, TypeOK
  <2>3. state \notin NoRow /\ Fill(c, r)
    BY <1>7 DEF AskStart, NoRow
  <2> QED
    BY <2>2, <2>3, FillKeeps
<1>8. CASE AskMove(c)
  <2>1. PICK t \in CallerTargets : Fill(c, [Ask("move", 0) EXCEPT !.target = t])
    BY <1>8 DEF AskMove
  <2> DEFINE r == [Ask("move", 0) EXCEPT !.target = t]
  <2>2. Ask("move", 0) \in Request /\ Ask("move", 0).version = version
        /\ Ask("move", 0).outcome = "unknown" /\ Ask("move", 0).op = "move"
    BY <1>0, AskType DEF Operation
  <2>3. t \in RunState /\ state \notin NoRow
    BY <2>1 DEF CallerTargets, RunState, NoRow, Terminal
  <2>4. r \in Request /\ r.version = version /\ r.outcome = "unknown" /\ r.op = "move"
        /\ r.target = t
    BY <2>2, <2>3 DEF Request
  <2>6. t \in {"pausing", "paused"} \cup Terminal
    BY <2>1 DEF CallerTargets, NoRow, Terminal
  <2>5. Fill(c, r)
    BY <2>1
  <2> QED
    BY <2>3, <2>4, <2>5, <2>6, FillKeeps
<1>9. CASE AskDelete(c)
  <2>1. Ask("delete", 0) \in Request /\ Ask("delete", 0).version = version
        /\ Ask("delete", 0).outcome = "unknown" /\ Ask("delete", 0).op = "delete"
    BY <1>0, AskType DEF Operation
  <2> QED
    BY <1>9, <2>1, FillKeeps DEF AskDelete
<1>10. CASE Forget(c)
  BY <1>10 DEF Forget, storeVars, runVars, reviewVars, contractVars, leaseVars, TypeOK,
       BeforeReview, ContractsInOrder, RequestsBehind, ReviewAgreement, ContractQuotesAnswers,
       NewestContractIsActive, RunsUnderApproval
<1> QED
  BY <1>1, <1>2, <1>3, <1>4, <1>5, <1>6, <1>7, <1>8, <1>9, <1>10 DEF Prepare

-----------------------------------------------------------------------------
(* Contracts *)

(* MAX(version) + 1 is the number after the last contract.                     *)
LEMMA NextVersion ==
  ASSUME NEW n \in 0 .. MaxContracts, issued = 1 .. n
  PROVE  NextContractVersion = n + 1
<1>1. MaxContracts \in Nat
  BY LifecycleAssumption
<1> DEFINE P(m) == (\A c \in issued : c < m) /\ (m = 1 \/ m - 1 \in issued)
<1>2. n + 1 \in 1 .. MaxContracts + 1 /\ P(n + 1)
  BY <1>1
<1>3. \A m \in 1 .. MaxContracts + 1 : P(m) => m = n + 1
  BY <1>1
<1> HIDE DEF P
<1>4. (CHOOSE m \in 1 .. MaxContracts + 1 : P(m)) = n + 1
  BY <1>2, <1>3
<1> QED
  BY <1>4 DEF NextContractVersion, P

(* A contract put on offer is the newest, unapproved, and quotes its decisions.*)
LEMMA OfferIsNext ==
  ASSUME IInv, NEW c, NEW h \in [Decisions -> Answer \cup {NoAnswer}],
         OfferContract(c, h), \A k \in issued : k < c, c = 1 \/ c - 1 \in issued
  PROVE  /\ ContractsInOrder'
         /\ active' = c /\ c \in Contracts /\ c # 0 /\ c \in issued' /\ c \notin approved'
         /\ \A k \in issued' : k <= active'
         /\ basis'[c] = h
         /\ issued' \subseteq Contracts /\ approved' \subseteq Contracts
         /\ basis' \in [Contracts -> [Decisions -> Answer \cup {NoAnswer}]]
<1> USE DEF IInv, TypeOK, OfferContract, InsertContract, Contracts
<1>1. MaxContracts \in Nat
  BY LifecycleAssumption
<1>2. PICK n \in 0 .. MaxContracts : issued = 1 .. n
  BY DEF ContractsInOrder
<1>3. c = n + 1 /\ c \in 1 .. MaxContracts
  BY <1>1, <1>2
<1>4. issued' = 1 .. c
  BY <1>1, <1>2, <1>3
<1>5. ContractsInOrder'
  BY <1>1, <1>3, <1>4 DEF ContractsInOrder
<1>6. c \notin approved'
  BY DEF ContractsInOrder
<1>7. basis' = [basis EXCEPT ![c] = h] /\ basis \in [Contracts -> [Decisions -> Answer \cup {NoAnswer}]]
  OBVIOUS
<1> QED
  BY <1>1, <1>3, <1>4, <1>5, <1>6, <1>7

-----------------------------------------------------------------------------
(* Steps that leave the requests alone and move the version on, or keep the    *)
(* review as it is, leave every request behind the run.                        *)
LEMMA StillBehind ==
  ASSUME IInv, UNCHANGED slot, state \notin NoRow, state' \notin NoRow,
         version' \in Nat,
         \/ version' > version
         \/ version' = version /\ state' = state /\ blocking' = blocking
  PROVE  RequestsBehind'
<1> USE DEF IInv
<1>1. \A c \in Clients : slot[c] # NoRequest => slot[c].version \in Nat /\ slot[c].version <= version
  BY DEF TypeOK, RequestsBehind, Request
<1>2. version \in Nat
  BY DEF TypeOK
<1>3. state' # "absent"
  BY DEF NoRow
<1>4. \A c \in Clients : slot'[c] # NoRequest /\ state' \notin NoRow => slot'[c].version <= version'
  BY <1>1, <1>2
<1>5. CASE version' > version
  BY <1>1, <1>2, <1>3, <1>4, <1>5 DEF RequestsBehind
<1>6. CASE version' = version /\ state' = state /\ blocking' = blocking
  BY <1>3, <1>4, <1>6 DEF RequestsBehind
<1> QED
  BY <1>5, <1>6

LEMMA InspectKeeps ==
  ASSUME IInv, Inspect
  PROVE  IInv'
<1> USE DEF IInv, TypeOK, StoredState, RunState, Terminal, Write, reviewVars, contractVars, leaseVars, runVars
<1>0. MaxVersion \in Nat /\ MaxContracts \in Nat
  BY LifecycleAssumption
<1>1. CASE CreateRun
  <2> USE <1>1 DEF CreateRun
  <2>1. TypeOK'
    BY <1>0
  <2>2. RequestsBehind'
    BY DEF RequestsBehind
  <2>3. BeforeReview' /\ ContractsInOrder' /\ ReviewAgreement' /\ ContractQuotesAnswers'
        /\ NewestContractIsActive' /\ RunsUnderApproval'
    BY DEF BeforeReview, ContractsInOrder, ReviewAgreement, ContractQuotesAnswers,
           NewestContractIsActive, RunsUnderApproval
  <2> QED
    BY <2>1, <2>2, <2>3
<1>2. CASE IngestEvent
  <2> USE <1>2 DEF IngestEvent, Move
  <2>1. TypeOK'
    BY <1>0
  <2>2. RequestsBehind'
    BY <1>0, StillBehind DEF NoRow
  <2>3. BeforeReview' /\ ContractsInOrder' /\ ReviewAgreement' /\ ContractQuotesAnswers'
        /\ NewestContractIsActive' /\ RunsUnderApproval'
    BY DEF BeforeReview, ContractsInOrder, ReviewAgreement, ContractQuotesAnswers,
           NewestContractIsActive, RunsUnderApproval
  <2> QED
    BY <2>1, <2>2, <2>3
<1>3. ASSUME NEW raised \in SUBSET Decisions \ {{}}, SaveDecisionPoints(raised)
      PROVE  IInv'
  <2> USE <1>3 DEF SaveDecisionPoints
  <2>1. TypeOK'
    BY <1>0
  <2>2. RequestsBehind'
    BY <1>0, StillBehind DEF NoRow
  <2>3. BeforeReview' /\ ContractsInOrder' /\ ReviewAgreement' /\ ContractQuotesAnswers'
        /\ NewestContractIsActive' /\ RunsUnderApproval'
    BY DEF BeforeReview, ContractsInOrder, ReviewAgreement, ContractQuotesAnswers,
           NewestContractIsActive, RunsUnderApproval
  <2> QED
    BY <2>1, <2>2, <2>3
<1>4. CASE SetBlockingDecisions
  <2> USE <1>4 DEF SetBlockingDecisions, Move
  <2>1. TypeOK'
    BY <1>0
  <2>2. RequestsBehind'
    BY <1>0, StillBehind DEF NoRow
  <2>3. BeforeReview' /\ ContractsInOrder' /\ ReviewAgreement' /\ ContractQuotesAnswers'
        /\ NewestContractIsActive' /\ RunsUnderApproval'
    BY DEF BeforeReview, ContractsInOrder, ReviewAgreement, ContractQuotesAnswers,
           NewestContractIsActive, RunsUnderApproval
  <2> QED
    BY <2>1, <2>2, <2>3
<1>5. CASE AwaitReview
  <2> USE <1>5 DEF AwaitReview, Move
  <2>1. TypeOK'
    BY <1>0
  <2>2. RequestsBehind'
    BY <1>0, StillBehind DEF NoRow
  <2>3. BeforeReview' /\ ContractsInOrder' /\ ReviewAgreement' /\ ContractQuotesAnswers'
        /\ NewestContractIsActive' /\ RunsUnderApproval'
    BY DEF BeforeReview, ContractsInOrder, ReviewAgreement, ContractQuotesAnswers,
           NewestContractIsActive, RunsUnderApproval, NoAnswers
  <2> QED
    BY <2>1, <2>2, <2>3
<1>6. CASE SaveContractAndReady
  <2> USE <1>6 DEF SaveContractAndReady, Move
  <2>1. issued = {} /\ answer \in [Decisions -> Answer \cup {NoAnswer}] /\ OfferContract(1, answer)
    BY DEF BeforeReview
  <2>2. /\ ContractsInOrder'
        /\ active' = 1 /\ 1 \in Contracts /\ 1 \in issued' /\ 1 \notin approved'
        /\ \A k \in issued' : k <= active'
        /\ basis'[1] = answer
        /\ issued' \subseteq Contracts /\ approved' \subseteq Contracts
        /\ basis' \in [Contracts -> [Decisions -> Answer \cup {NoAnswer}]]
    BY <2>1, OfferIsNext
  <2>3. TypeOK'
    BY <1>0, <2>2 DEF Contracts
  <2>4. RequestsBehind'
    BY <1>0, StillBehind DEF NoRow
  <2>5. BeforeReview' /\ ReviewAgreement' /\ ContractQuotesAnswers'
        /\ NewestContractIsActive' /\ RunsUnderApproval'
    BY <2>2 DEF BeforeReview, ReviewAgreement, ContractQuotesAnswers,
           NewestContractIsActive, RunsUnderApproval
  <2> QED
    BY <2>2, <2>3, <2>4, <2>5
<1> QED
  BY <1>1, <1>2, <1>3, <1>4, <1>5, <1>6 DEF Inspect

LEMMA EnvironmentKeeps ==
  ASSUME IInv, Environment
  PROVE  IInv'
<1> USE DEF IInv, TypeOK, StoredState, RunState, Terminal, Write, reviewVars, contractVars, leaseVars, runVars, storeVars
<1>0. MaxVersion \in Nat /\ MaxContracts \in Nat /\ MaxLease \in Nat
  BY LifecycleAssumption
<1>1. CASE RecoverInterruptedRuns
  <2> USE <1>1 DEF RecoverInterruptedRuns
  <2>1. TypeOK'
    BY <1>0
  <2>2. RequestsBehind'
    BY <1>0, StillBehind DEF NoRow
  <2>3. BeforeReview' /\ ContractsInOrder' /\ ReviewAgreement' /\ ContractQuotesAnswers'
        /\ NewestContractIsActive' /\ RunsUnderApproval'
    BY DEF BeforeReview, ContractsInOrder, ReviewAgreement, ContractQuotesAnswers,
           NewestContractIsActive, RunsUnderApproval
  <2> QED
    BY <2>1, <2>2, <2>3
<1>2. CASE SetPinned \/ ClaimReviewCapability \/ EditRepository
  <2> USE <1>2 DEF SetPinned, ClaimReviewCapability, EditRepository
  <2>1. TypeOK'
    <3>1. CASE SetPinned
      BY <3>1
    <3>2. CASE ClaimReviewCapability
      BY <1>0, <3>2
    <3>3. CASE EditRepository
      BY <3>3
    <3> QED
      BY <3>1, <3>2, <3>3
  <2>2. RequestsBehind' /\ BeforeReview' /\ ContractsInOrder' /\ ReviewAgreement'
        /\ ContractQuotesAnswers' /\ NewestContractIsActive' /\ RunsUnderApproval'
    BY DEF RequestsBehind, BeforeReview, ContractsInOrder, ReviewAgreement, ContractQuotesAnswers,
           NewestContractIsActive, RunsUnderApproval
  <2> QED
    BY <2>1, <2>2
<1> QED
  BY <1>1, <1>2 DEF Environment

-----------------------------------------------------------------------------
(* Serving a request *)

(* What recording an answer does, whatever the outcome.                        *)
LEMMA ResolveKeeps ==
  ASSUME IInv, NEW c \in Clients, Sent(c, "decide"), ResolveDecision(slot[c])
  PROVE  /\ slot[c].decision \in points
         /\ status' \in [Decisions -> {"unresolved", "deferred", "resolved"}]
         /\ answer' \in [Decisions -> Answer \cup {NoAnswer}]
         /\ blocking' \subseteq Decisions
         /\ blocking' = blocking \ {slot[c].decision}
         /\ points' = points
         /\ blocking' = {d \in points : answer'[d] = NoAnswer}
         /\ state = "needs_review" /\ active = 0 /\ version = slot[c].version
<1> USE DEF IInv, TypeOK, ResolveDecision, Sent, Current
<1>1. slot[c] \in Request /\ slot[c].op = "decide" /\ slot[c] # NoRequest
  OBVIOUS
<1>2. slot[c].answer \in Answer /\ slot[c].answer # NoAnswer
  BY <1>1 DEF Request, RequestsBehind
<1>3. blocking = {d \in points : answer[d] = NoAnswer} /\ active = 0
  BY DEF ReviewAgreement, BeforeReview
<1>4. slot[c].decision \in points /\ slot[c].decision \in Decisions
  OBVIOUS
<1>5. \A d \in Decisions : answer'[d] = IF d = slot[c].decision THEN slot[c].answer ELSE answer[d]
  BY <1>4
<1>6. blocking' = {d \in points : answer'[d] = NoAnswer}
  BY <1>2, <1>3, <1>5
<1>7. answer' \in [Decisions -> Answer \cup {NoAnswer}]
  BY <1>2
<1> QED
  BY <1>3, <1>4, <1>6, <1>7

LEMMA ChooseKeeps ==
  ASSUME IInv, NEW c \in Clients, ChooseOutcome(c)
  PROVE  IInv'
<1> DEFINE r == slot[c]
<1> USE DEF IInv
<1>1. PICK o \in {"cancelled", "ready_with_contract", "review_only"} :
        /\ slot' = [slot EXCEPT ![c] = [r EXCEPT !.outcome = o]]
        /\ o = "review_only" =>
             ~(state = "needs_review" /\ version = r.version /\ blocking = {r.decision})
        /\ r.op = "decide" /\ r # NoRequest
  BY DEF ChooseOutcome, Sent
<1>2. r \in Request
  BY <1>1 DEF TypeOK
<1> DEFINE q == [r EXCEPT !.outcome = o]
<1>3. q \in Request /\ q.outcome = o /\ q.version = r.version /\ q.op = r.op
      /\ q.answer = r.answer /\ q.decision = r.decision /\ q.target = r.target
      /\ q # NoRequest
  BY <1>2, NoRequestAssumption DEF Request, Outcome
<1> HIDE DEF q
<1>4. slot' = [slot EXCEPT ![c] = q] /\ slot \in [Clients -> Request \cup {NoRequest}]
  BY <1>1 DEF q, TypeOK
<1>5. \A d \in Clients : slot'[d] = IF d = c THEN q ELSE slot[d]
  BY <1>4
<1>6. UNCHANGED <<storeVars, current>> /\ state \notin NoRow
  BY DEF ChooseOutcome, Sent
<1> USE <1>6 DEF storeVars, runVars, reviewVars, contractVars, leaseVars
<1>7. TypeOK'
  BY <1>3, <1>4 DEF TypeOK
<1>8. RequestsBehind'
  BY <1>1, <1>3, <1>5 DEF RequestsBehind, NoRow
<1>9. BeforeReview' /\ ContractsInOrder' /\ ReviewAgreement' /\ ContractQuotesAnswers'
      /\ NewestContractIsActive' /\ RunsUnderApproval'
  BY DEF BeforeReview, ContractsInOrder, ReviewAgreement, ContractQuotesAnswers,
         NewestContractIsActive, RunsUnderApproval
<1> QED
  BY <1>7, <1>8, <1>9

(* The outcome was judged at this version, so another question is still open. *)
LEMMA DecideReviewOnlyKeeps ==
  ASSUME IInv, NEW c \in Clients, DecideReviewOnly(c)
  PROVE  IInv'
<1> USE DEF IInv, TypeOK, StoredState, RunState, Terminal, Write, reviewVars, contractVars, leaseVars, runVars
<1> USE DEF DecideReviewOnly
<1>0. MaxVersion \in Nat /\ MaxContracts \in Nat /\ MaxLease \in Nat
  BY LifecycleAssumption
<1>1. slot[c] \in Request /\ keys' \subseteq Request /\ state \notin NoRow
  BY KeyedType
<1>2. /\ slot[c].decision \in points
      /\ status' \in [Decisions -> {"unresolved", "deferred", "resolved"}]
      /\ answer' \in [Decisions -> Answer \cup {NoAnswer}]
      /\ blocking' \subseteq Decisions
      /\ blocking' = blocking \ {slot[c].decision}
      /\ points' = points
      /\ blocking' = {d \in points : answer'[d] = NoAnswer}
      /\ state = "needs_review" /\ active = 0 /\ version = slot[c].version
  BY ResolveKeeps DEF Keyed
<1>3. blocking # {} /\ blocking # {slot[c].decision}
  BY <1>2 DEF ReviewAgreement, RequestsBehind, Keyed, Sent
<1>4. TypeOK'
  BY <1>0, <1>1, <1>2
<1>5. RequestsBehind'
  BY <1>0, <1>1, StillBehind DEF NoRow
<1>6. BeforeReview' /\ ReviewAgreement' /\ ContractQuotesAnswers'
        /\ NewestContractIsActive' /\ RunsUnderApproval'
  BY <1>2, <1>3 DEF BeforeReview, ReviewAgreement, ContractQuotesAnswers,
         NewestContractIsActive, RunsUnderApproval
<1>7. ContractsInOrder'
  BY DEF ContractsInOrder
<1> QED
  BY <1>4, <1>5, <1>6, <1>7

LEMMA DecideReadyKeeps ==
  ASSUME IInv, NEW c \in Clients, DecideReady(c)
  PROVE  IInv'
<1> USE DEF IInv, TypeOK, StoredState, RunState, Terminal, Write, reviewVars, contractVars, leaseVars, runVars
<1> USE DEF DecideReady
<1>0. MaxVersion \in Nat /\ MaxContracts \in Nat /\ MaxLease \in Nat
  BY LifecycleAssumption
<1>1. slot[c] \in Request /\ keys' \subseteq Request /\ state \notin NoRow
  BY KeyedType
<1>2. /\ slot[c].decision \in points
      /\ status' \in [Decisions -> {"unresolved", "deferred", "resolved"}]
      /\ answer' \in [Decisions -> Answer \cup {NoAnswer}]
      /\ blocking' = blocking \ {slot[c].decision}
      /\ points' = points
      /\ state = "needs_review" /\ active = 0 /\ version = slot[c].version
  BY ResolveKeeps DEF Keyed
<1>3. blocking' = {}
  BY <1>2
<1>4. PICK n \in 0 .. MaxContracts : issued = 1 .. n
  BY DEF ContractsInOrder
<1> DEFINE k == NextContractVersion
<1>5. k = n + 1
  BY <1>4, NextVersion
<1>6. (\A j \in issued : j < k) /\ (k = 1 \/ k - 1 \in issued)
  BY <1>0, <1>4, <1>5
<1>7. OfferContract(k, answer')
  OBVIOUS
<1> HIDE DEF k
<1>8. /\ ContractsInOrder'
      /\ active' = k /\ k \in Contracts /\ k # 0 /\ k \in issued' /\ k \notin approved'
      /\ \A j \in issued' : j <= active'
      /\ basis'[k] = answer'
      /\ issued' \subseteq Contracts /\ approved' \subseteq Contracts
      /\ basis' \in [Contracts -> [Decisions -> Answer \cup {NoAnswer}]]
  BY <1>2, <1>6, <1>7, OfferIsNext
<1>9. TypeOK'
  BY <1>0, <1>1, <1>2, <1>3, <1>8 DEF Contracts
<1>10. RequestsBehind'
  BY <1>0, <1>1, StillBehind DEF NoRow
<1>11. BeforeReview' /\ ReviewAgreement' /\ ContractQuotesAnswers'
        /\ NewestContractIsActive' /\ RunsUnderApproval'
  BY <1>2, <1>3, <1>8 DEF BeforeReview, ReviewAgreement, ContractQuotesAnswers,
         NewestContractIsActive, RunsUnderApproval
<1> QED
  BY <1>8, <1>9, <1>10, <1>11

LEMMA DecideCancelledKeeps ==
  ASSUME IInv, NEW c \in Clients, DecideCancelled(c)
  PROVE  IInv'
<1> USE DEF IInv, TypeOK, StoredState, RunState, Terminal, Write, reviewVars, contractVars, leaseVars, runVars
<1> USE DEF DecideCancelled
<1>0. MaxVersion \in Nat /\ MaxContracts \in Nat /\ MaxLease \in Nat
  BY LifecycleAssumption
<1>1. slot[c] \in Request /\ keys' \subseteq Request /\ state \notin NoRow
  BY KeyedType
<1>2. /\ status' \in [Decisions -> {"unresolved", "deferred", "resolved"}]
      /\ answer' \in [Decisions -> Answer \cup {NoAnswer}]
      /\ blocking' \subseteq Decisions
      /\ points' = points
      /\ state = "needs_review" /\ active = 0 /\ version = slot[c].version
  BY ResolveKeeps DEF Keyed
<1>3. TypeOK'
  BY <1>0, <1>1, <1>2
<1>4. RequestsBehind'
  BY <1>0, <1>1, StillBehind DEF NoRow
<1>5. BeforeReview' /\ ContractsInOrder' /\ ReviewAgreement' /\ ContractQuotesAnswers'
        /\ NewestContractIsActive' /\ RunsUnderApproval'
  BY <1>2 DEF BeforeReview, ContractsInOrder, ReviewAgreement, ContractQuotesAnswers,
         NewestContractIsActive, RunsUnderApproval
<1> QED
  BY <1>3, <1>4, <1>5

LEMMA AmendKeeps ==
  ASSUME IInv, NEW c \in Clients, AmendPausedContract(c)
  PROVE  IInv'
<1> USE DEF IInv, TypeOK, StoredState, RunState, Terminal, Write, reviewVars, contractVars, leaseVars, runVars
<1> USE DEF AmendPausedContract
<1>0. MaxVersion \in Nat /\ MaxContracts \in Nat /\ MaxLease \in Nat
  BY LifecycleAssumption
<1>1. slot[c] \in Request /\ keys' \subseteq Request /\ state \notin NoRow
  BY KeyedType
<1> DEFINE k == active + 1
<1>2. state = "paused" /\ active \in issued /\ active \in 1 .. MaxContracts
      /\ \A j \in issued : j <= active
  BY <1>0 DEF ContractQuotesAnswers, NewestContractIsActive
<1>3. (\A j \in issued : j < k) /\ (k = 1 \/ k - 1 \in issued)
  BY <1>0, <1>2 DEF Contracts
<1>4. basis[active] = answer /\ answer \in [Decisions -> Answer \cup {NoAnswer}]
  BY DEF ContractQuotesAnswers
<1>5. OfferContract(k, answer)
  BY <1>4
<1> HIDE DEF k
<1>6. /\ ContractsInOrder'
      /\ active' = k /\ k \in Contracts /\ k # 0 /\ k \in issued' /\ k \notin approved'
      /\ \A j \in issued' : j <= active'
      /\ basis'[k] = answer
      /\ issued' \subseteq Contracts /\ approved' \subseteq Contracts
      /\ basis' \in [Contracts -> [Decisions -> Answer \cup {NoAnswer}]]
  BY <1>3, <1>4, <1>5, OfferIsNext
<1>7. TypeOK'
  BY <1>0, <1>1, <1>6 DEF Contracts
<1>8. RequestsBehind'
  BY <1>0, <1>1, StillBehind DEF NoRow
<1>9. BeforeReview' /\ ReviewAgreement' /\ ContractQuotesAnswers'
        /\ NewestContractIsActive' /\ RunsUnderApproval'
  BY <1>6 DEF BeforeReview, ReviewAgreement, ContractQuotesAnswers,
         NewestContractIsActive, RunsUnderApproval
<1> QED
  BY <1>6, <1>7, <1>8, <1>9

(* A deferral answers nothing.                                               *)
LEMMA DeferKeeps ==
  ASSUME IInv, NEW c \in Clients, DeferDecision(c)
  PROVE  IInv'
<1> USE DEF IInv, TypeOK, StoredState, RunState, Terminal, Write, reviewVars, contractVars, leaseVars, runVars
<1> USE DEF DeferDecision
<1>0. MaxVersion \in Nat /\ MaxContracts \in Nat /\ MaxLease \in Nat
  BY LifecycleAssumption
<1>1. slot[c] \in Request /\ keys' \subseteq Request /\ state \notin NoRow
  BY KeyedType
<1>2. TypeOK'
  BY <1>0, <1>1 DEF Request
<1>3. RequestsBehind'
  BY <1>0, <1>1, StillBehind DEF NoRow
<1>4. BeforeReview' /\ ContractsInOrder' /\ ReviewAgreement' /\ ContractQuotesAnswers'
        /\ NewestContractIsActive' /\ RunsUnderApproval'
  BY DEF BeforeReview, ContractsInOrder, ReviewAgreement, ContractQuotesAnswers,
         NewestContractIsActive, RunsUnderApproval
<1> QED
  BY <1>2, <1>3, <1>4

(* Reopening withdraws every answer, and the contract built from them.       *)
LEMMA ReopenKeeps ==
  ASSUME IInv, NEW c \in Clients, ReopenReview(c)
  PROVE  IInv'
<1> USE DEF IInv, TypeOK, StoredState, RunState, Terminal, Write, reviewVars, contractVars, leaseVars, runVars
<1> USE DEF ReopenReview, ResetReview, Move, NoAnswers
<1>0. MaxVersion \in Nat /\ MaxContracts \in Nat /\ MaxLease \in Nat
  BY LifecycleAssumption
<1>1. slot[c] \in Request /\ keys' \subseteq Request /\ state \notin NoRow
  BY KeyedType
<1>2. TypeOK'
  BY <1>0, <1>1 DEF Request
<1>3. RequestsBehind'
  BY <1>0, <1>1, StillBehind DEF NoRow
<1>4. BeforeReview' /\ ContractsInOrder' /\ ReviewAgreement' /\ ContractQuotesAnswers'
        /\ NewestContractIsActive' /\ RunsUnderApproval'
  BY DEF BeforeReview, ContractsInOrder, ReviewAgreement, ContractQuotesAnswers,
         NewestContractIsActive, RunsUnderApproval
<1> QED
  BY <1>2, <1>3, <1>4

(* Approval is of the contract on offer.                                     *)
LEMMA ApproveKeeps ==
  ASSUME IInv, NEW c \in Clients, ApproveContract(c)
  PROVE  IInv'
<1> USE DEF IInv, TypeOK, StoredState, RunState, Terminal, Write, reviewVars, contractVars, leaseVars, runVars
<1> USE DEF ApproveContract, Move
<1>0. MaxVersion \in Nat /\ MaxContracts \in Nat /\ MaxLease \in Nat
  BY LifecycleAssumption
<1>1. slot[c] \in Request /\ keys' \subseteq Request /\ state \notin NoRow
  BY KeyedType
<1>2. TypeOK'
  BY <1>0, <1>1 DEF Request
<1>3. RequestsBehind'
  BY <1>0, <1>1, StillBehind DEF NoRow
<1>4. ContractsInOrder'
  BY DEF ContractsInOrder
<1>5. state = "ready_for_approval" /\ state' = "approved" /\ active' = active
      /\ approved' = approved \cup {active}
      /\ blocking' = blocking /\ points' = points /\ answer' = answer
      /\ issued' = issued /\ basis' = basis
  BY DEF Allowed
<1>6. BeforeReview' /\ ReviewAgreement' /\ ContractQuotesAnswers'
      /\ NewestContractIsActive' /\ RunsUnderApproval'
  BY <1>5 DEF BeforeReview, ReviewAgreement, ContractQuotesAnswers,
         NewestContractIsActive, RunsUnderApproval
<1> QED
  BY <1>2, <1>3, <1>4, <1>6

(* Cancelling ends a run, or leaves a run that is over alone.                *)
LEMMA CancelKeeps ==
  ASSUME IInv, NEW c \in Clients, CancelRun(c)
  PROVE  IInv'
<1> USE DEF IInv, TypeOK, StoredState, RunState, Terminal, Write, reviewVars, contractVars, leaseVars, runVars
<1> USE DEF CancelRun, Move
<1>0. MaxVersion \in Nat /\ MaxContracts \in Nat /\ MaxLease \in Nat
  BY LifecycleAssumption
<1>1. slot[c] \in Request /\ keys' \subseteq Request /\ state \notin NoRow
  BY KeyedType
<1>2. TypeOK'
  BY <1>0, <1>1 DEF Request
<1>3. RequestsBehind'
  BY <1>0, <1>1, StillBehind DEF NoRow
<1>4. BeforeReview' /\ ContractsInOrder' /\ ReviewAgreement' /\ ContractQuotesAnswers'
        /\ NewestContractIsActive' /\ RunsUnderApproval'
  BY DEF BeforeReview, ContractsInOrder, ReviewAgreement, ContractQuotesAnswers,
         NewestContractIsActive, RunsUnderApproval
<1> QED
  BY <1>2, <1>3, <1>4

(* Only an approved contract is started.                                     *)
LEMMA StartKeeps ==
  ASSUME IInv, NEW c \in Clients, StartExecution(c)
  PROVE  IInv'
<1> USE DEF IInv, TypeOK, StoredState, RunState, Terminal, Write, reviewVars, contractVars, leaseVars, runVars
<1> USE DEF StartExecution
<1>0. MaxVersion \in Nat /\ MaxContracts \in Nat /\ MaxLease \in Nat
  BY LifecycleAssumption
<1>1. slot[c] \in Request /\ keys' \subseteq Request /\ state \notin NoRow
  BY KeyedType
<1>2. TypeOK'
  BY <1>0, <1>1 DEF Request
<1>3. RequestsBehind'
  BY <1>0, <1>1, StillBehind DEF NoRow
<1>4. BeforeReview' /\ ContractsInOrder' /\ ReviewAgreement' /\ ContractQuotesAnswers'
        /\ NewestContractIsActive' /\ RunsUnderApproval'
  BY DEF BeforeReview, ContractsInOrder, ReviewAgreement, ContractQuotesAnswers,
         NewestContractIsActive, RunsUnderApproval
<1> QED
  BY <1>2, <1>3, <1>4

(* A refused start asks, with a fresh read, for the run to be made stale.      *)
LEMMA RefuseKeeps ==
  ASSUME IInv, NEW c \in Clients, RefuseStaleStart(c)
  PROVE  IInv'
<1> DEFINE r == [Ask("move", 0) EXCEPT !.target = "stale"]
<1>0. 0 \in 0 .. MaxLease
  BY LifecycleAssumption
<1>1. Ask("move", 0) \in Request /\ Ask("move", 0).version = version
      /\ Ask("move", 0).outcome = "unknown" /\ Ask("move", 0).op = "move"
  BY <1>0, AskType DEF Operation, IInv
<1>2. r \in Request /\ r.version = version /\ r.outcome = "unknown" /\ r.op = "move"
      /\ r.target \in Terminal
  BY <1>1 DEF Request, RunState, Terminal
<1> HIDE DEF r
<1>3. slot' = [slot EXCEPT ![c] = r] /\ slot \in [Clients -> Request \cup {NoRequest}]
  BY DEF RefuseStaleStart, r, IInv, TypeOK
<1>4. \A d \in Clients : slot'[d] = IF d = c THEN r ELSE slot[d]
  BY <1>3
<1>5. UNCHANGED <<storeVars, current>> /\ state \notin NoRow
  BY DEF RefuseStaleStart, Sent
<1> USE <1>5 DEF IInv, storeVars, runVars, reviewVars, contractVars, leaseVars
<1>6. TypeOK'
  BY <1>2, <1>3 DEF TypeOK
<1>7. version \in Nat
  BY DEF TypeOK
<1>8. RequestsBehind'
  BY <1>2, <1>4, <1>7 DEF RequestsBehind, NoRow
<1>9. BeforeReview' /\ ContractsInOrder' /\ ReviewAgreement' /\ ContractQuotesAnswers'
      /\ NewestContractIsActive' /\ RunsUnderApproval'
  BY DEF BeforeReview, ContractsInOrder, ReviewAgreement, ContractQuotesAnswers,
         NewestContractIsActive, RunsUnderApproval
<1> QED
  BY <1>6, <1>8, <1>9

LEMMA DeleteKeeps ==
  ASSUME IInv, NEW c \in Clients, DeleteRun(c)
  PROVE  IInv'
<1> USE DEF IInv, DeleteRun
<1>0. MaxVersion \in Nat /\ MaxContracts \in Nat /\ MaxLease \in Nat
  BY LifecycleAssumption
<1>1. TypeOK'
  <2>1. slot' \in [Clients -> Request \cup {NoRequest}]
    BY DEF TypeOK
  <2>2. NoAnswers \in [Decisions -> Answer \cup {NoAnswer}]
    BY DEF NoAnswers
  <2>3. answer' = NoAnswers /\ basis' \in [Contracts -> [Decisions -> Answer \cup {NoAnswer}]]
    BY <2>2
  <2>4. status' \in [Decisions -> {"unresolved", "deferred", "resolved"}]
    OBVIOUS
  <2>5. state' \in StoredState /\ version' \in 0 .. MaxVersion /\ active' \in 0 .. MaxContracts
        /\ lease' \in 0 .. MaxLease /\ current' \in BOOLEAN
    BY <1>0 DEF TypeOK, StoredState
  <2> QED
    BY <2>1, <2>2, <2>3, <2>4, <2>5 DEF TypeOK
<1>2. \A d \in Clients : slot'[d] = IF d = c THEN NoRequest ELSE slot[d]
  BY DEF TypeOK
<1>3. RequestsBehind'
  BY <1>2 DEF RequestsBehind, NoRow
<1>4. ContractsInOrder'
  <2>1. 0 \in 0 .. MaxContracts /\ {} = 1 .. 0
    BY <1>0
  <2> QED
    BY <2>1 DEF ContractsInOrder
<1>5. BeforeReview' /\ ReviewAgreement' /\ ContractQuotesAnswers'
      /\ NewestContractIsActive' /\ RunsUnderApproval'
  BY DEF BeforeReview, ReviewAgreement, ContractQuotesAnswers,
         NewestContractIsActive, RunsUnderApproval
<1> QED
  BY <1>1, <1>3, <1>4, <1>5

(* A plain transition follows the table, from the version that was read.       *)
LEMMA TransitionKeeps ==
  ASSUME IInv, NEW c \in Clients, TransitionRun(c)
  PROVE  IInv'
<1> USE DEF IInv, TransitionRun, Move, Write, Current
<1>0. MaxVersion \in Nat /\ version \in Nat
  BY LifecycleAssumption DEF TypeOK
<1>1. slot[c] \in Request /\ slot[c].target \in RunState /\ Allowed(state, slot[c].target)
      /\ state \notin NoRow /\ state' = slot[c].target /\ slot[c].op = "move"
  BY DEF TypeOK, Sent, Request
<1>2. \A d \in Clients : slot'[d] = IF d = c THEN NoRequest ELSE slot[d]
  BY DEF TypeOK
<1>3. version' = version + 1 /\ version' <= MaxVersion /\ version' > version
  BY <1>0
<1>4. TypeOK'
  <2>1. slot' \in [Clients -> Request \cup {NoRequest}]
    BY DEF TypeOK
  <2> QED
    BY <1>0, <1>1, <1>3, <2>1 DEF TypeOK, StoredState, contractVars, reviewVars, leaseVars
<1>5. \A d \in Clients : slot[d] # NoRequest => slot[d].version \in Nat /\ slot[d].version <= version
  BY <1>1 DEF TypeOK, RequestsBehind, Request
<1>6. state' # "absent"
  BY <1>1 DEF RunState, Terminal
<1>7. RequestsBehind'
  BY <1>0, <1>2, <1>3, <1>5, <1>6 DEF RequestsBehind
<1>8. slot[c].target \in {"pausing", "paused"} \cup Terminal
  BY <1>1 DEF Sent, RequestsBehind
<1>9. /\ state' \in {"pausing", "paused"} \cup Terminal
      /\ state' = "pausing" => state = "running"
      /\ state' = "paused" => state = "pausing"
      /\ state' = "completed" => state = "running"
  BY <1>1, <1>8 DEF Allowed, Terminal
<1>10. BeforeReview' /\ ContractsInOrder' /\ ReviewAgreement' /\ ContractQuotesAnswers'
       /\ NewestContractIsActive' /\ RunsUnderApproval'
  BY <1>9 DEF Terminal, BeforeReview, ContractsInOrder, ReviewAgreement, ContractQuotesAnswers,
         NewestContractIsActive, RunsUnderApproval, contractVars, reviewVars
<1> QED
  BY <1>4, <1>7, <1>10

-----------------------------------------------------------------------------
(* The theorems *)

LEMMA InitKeeps == Init => IInv
<1> SUFFICES ASSUME Init PROVE IInv
  OBVIOUS
<1> USE DEF Init
<1>0. MaxVersion \in Nat /\ MaxContracts \in Nat /\ MaxLease \in Nat
  BY LifecycleAssumption
<1>1. NoAnswers \in [Decisions -> Answer \cup {NoAnswer}]
  BY DEF NoAnswers
<1>2. TypeOK
  <2>1. status \in [Decisions -> {"unresolved", "deferred", "resolved"}]
    OBVIOUS
  <2>2. basis \in [Contracts -> [Decisions -> Answer \cup {NoAnswer}]]
    BY <1>1
  <2>3. state \in StoredState /\ version \in 0 .. MaxVersion /\ active \in 0 .. MaxContracts
        /\ lease \in 0 .. MaxLease
    BY <1>0 DEF StoredState
  <2>4. slot \in [Clients -> Request \cup {NoRequest}]
    OBVIOUS
  <2> QED
    BY <1>1, <2>1, <2>2, <2>3, <2>4 DEF TypeOK
<1>3. ContractsInOrder
  <2>1. 0 \in 0 .. MaxContracts /\ {} = 1 .. 0
    BY <1>0
  <2> QED
    BY <2>1 DEF ContractsInOrder
<1>4. BeforeReview /\ RequestsBehind /\ ReviewAgreement /\ ContractQuotesAnswers
      /\ NewestContractIsActive /\ RunsUnderApproval
  BY DEF BeforeReview, RequestsBehind, ReviewAgreement, ContractQuotesAnswers,
         NewestContractIsActive, RunsUnderApproval, NoRow
<1> QED
  BY <1>2, <1>3, <1>4 DEF IInv

LEMMA NextKeeps == IInv /\ [Next]_vars => IInv'
<1> SUFFICES ASSUME IInv, [Next]_vars PROVE IInv'
  OBVIOUS
<1>1. CASE Inspect
  BY <1>1, InspectKeeps
<1>2. CASE Environment
  BY <1>2, EnvironmentKeeps
<1>3. ASSUME NEW c \in Clients, Prepare(c)
      PROVE  IInv'
  BY <1>3, PrepareKeeps
<1>4. ASSUME NEW c \in Clients, Serve(c)
      PROVE  IInv'
  BY <1>4, ChooseKeeps, DecideReviewOnlyKeeps, DecideReadyKeeps, DecideCancelledKeeps,
     DeferKeeps, ReopenKeeps, ApproveKeeps, CancelKeeps, AmendKeeps, StartKeeps,
     RefuseKeeps, TransitionKeeps, DeleteKeeps DEF Serve
<1>5. CASE UNCHANGED vars
  BY <1>5 DEF vars, storeVars, runVars, reviewVars, contractVars, leaseVars, IInv, TypeOK,
     BeforeReview, ContractsInOrder, RequestsBehind, ReviewAgreement, ContractQuotesAnswers,
     NewestContractIsActive, RunsUnderApproval
<1> QED
  BY <1>1, <1>2, <1>3, <1>4, <1>5 DEF Next

(* The inductive invariant holds of every state the store can reach.           *)
THEOREM Invariance == Spec => []IInv
  BY InitKeeps, NextKeeps, PTL DEF Spec

(* Every column keeps its type, whatever clients retry, race or forget.        *)
THEOREM TypeCorrect == Spec => []TypeOK
<1>1. IInv => TypeOK
  BY DEF IInv
<1> QED
  BY <1>1, Invariance, PTL

(* A run waiting for its reviewer is blocked by exactly the open questions.    *)
THEOREM ReviewsAgree == Spec => []ReviewAgreement
<1>1. IInv => ReviewAgreement
  BY DEF IInv
<1> QED
  BY <1>1, Invariance, PTL

(* The active contract quotes the answers on record.                           *)
THEOREM ContractsQuoteAnswers == Spec => []ContractQuotesAnswers
<1>1. IInv => ContractQuotesAnswers
  BY DEF IInv
<1> QED
  BY <1>1, Invariance, PTL

(* The active contract is the newest one, so a paused run can be amended.      *)
THEOREM ActiveIsNewest == Spec => []NewestContractIsActive
<1>1. IInv => NewestContractIsActive
  BY DEF IInv
<1> QED
  BY <1>1, Invariance, PTL

(* Nothing runs but under a contract a human approved.                         *)
THEOREM ApprovalIsRequired == Spec => []RunsUnderApproval
<1>1. IInv => RunsUnderApproval
  BY DEF IInv
<1> QED
  BY <1>1, Invariance, PTL

-----------------------------------------------------------------------------
(* Action properties *)

(* An answer is withdrawn only with its contract, by reopening or deletion.    *)
THEOREM AnswersAreFinal == Spec => AnswersStand
<1> DEFINE Stands == \A d \in Decisions :
             answer[d] # NoAnswer /\ answer'[d] # answer[d] => answer' = NoAnswers /\ active' = 0
<1>1. IInv /\ [Next]_vars => [Stands]_vars
  <2> SUFFICES ASSUME IInv, Next PROVE Stands \/ UNCHANGED answer
    BY DEF Stands
  <2>1. CASE Inspect \/ Environment
    BY <2>1 DEF Inspect, CreateRun, IngestEvent, SaveDecisionPoints, SetBlockingDecisions,
         AwaitReview, SaveContractAndReady, Environment, RecoverInterruptedRuns, SetPinned,
         ClaimReviewCapability, EditRepository, storeVars, reviewVars
  <2>2. ASSUME NEW c \in Clients, Prepare(c) PROVE UNCHANGED answer
    BY <2>2 DEF Prepare, AskDecide, AskDefer, AskReopen, AskApprove, AskCancel, AskAmend,
         AskStart, AskMove, AskDelete, Fill, Forget, storeVars, reviewVars
  <2>3. ASSUME NEW c \in Clients, ReopenReview(c) \/ DeleteRun(c) PROVE Stands
    BY <2>3 DEF ReopenReview, ResetReview, DeleteRun
  <2>4. ASSUME NEW c \in Clients, ResolveDecision(slot[c]) PROVE Stands
    <3>1. answer \in [Decisions -> Answer \cup {NoAnswer}]
      BY DEF IInv, TypeOK
    <3>2. \A d \in Decisions : d # slot[c].decision => answer'[d] = answer[d]
      BY <2>4, <3>1 DEF ResolveDecision
    <3>3. answer[slot[c].decision] = NoAnswer
      BY <2>4 DEF ResolveDecision
    <3> QED
      BY <3>2, <3>3
  <2>5. ASSUME NEW c \in Clients,
               ChooseOutcome(c) \/ DeferDecision(c) \/ ApproveContract(c) \/ CancelRun(c)
               \/ AmendPausedContract(c) \/ StartExecution(c) \/ RefuseStaleStart(c)
               \/ TransitionRun(c)
        PROVE  UNCHANGED answer
    BY <2>5 DEF ChooseOutcome, DeferDecision, ApproveContract, CancelRun, AmendPausedContract,
         StartExecution, RefuseStaleStart, TransitionRun, storeVars, reviewVars
  <2> HIDE DEF Stands
  <2>6. ASSUME NEW c \in Clients, Serve(c) PROVE Stands \/ UNCHANGED answer
    BY <2>3, <2>4, <2>5, <2>6 DEF Serve, DecideReviewOnly, DecideReady, DecideCancelled
  <2> QED
    BY <2>1, <2>2, <2>6 DEF Next
<1> QED
  BY <1>1, Invariance, PTL DEF Spec, AnswersStand

(* What is over is left as it is, or deleted.                                  *)
LEMMA OverStays ==
  ASSUME Next, state \in Terminal \cup {"deleted"}
  PROVE  state' \in {state, "deleted"}
<1> USE DEF Terminal, storeVars, runVars, Move, Allowed
<1>1. CASE Inspect \/ Environment
  BY <1>1 DEF Inspect, CreateRun, IngestEvent, SaveDecisionPoints, SetBlockingDecisions,
       AwaitReview, SaveContractAndReady, Environment, RecoverInterruptedRuns, SetPinned,
       ClaimReviewCapability, EditRepository
<1>2. ASSUME NEW c \in Clients, Prepare(c) PROVE state' = state
  BY <1>2 DEF Prepare, AskDecide, AskDefer, AskReopen, AskApprove, AskCancel, AskAmend,
       AskStart, AskMove, AskDelete, Fill, Forget
<1>3. ASSUME NEW c \in Clients, Serve(c) PROVE state' \in {state, "deleted"}
  BY <1>3 DEF Serve, ChooseOutcome, DecideReviewOnly, DecideReady, DecideCancelled,
       ResolveDecision, DeferDecision, ReopenReview, ApproveContract, CancelRun,
       AmendPausedContract, StartExecution, RefuseStaleStart, TransitionRun, DeleteRun
<1> QED
  BY <1>1, <1>2, <1>3 DEF Next

(* A run that is over stays over.                                              *)
THEOREM TerminalStatesAreFinal == Spec => TerminalIsFinal
<1> DEFINE Final == (state \in Terminal) => state' \in {state, "deleted"}
<1>1. [Next]_vars => [Final]_vars
  BY OverStays
<1> QED
  BY <1>1, PTL DEF Spec, TerminalIsFinal

-----------------------------------------------------------------------------
(* The store implements the gate *)

LEMMA PhaseValues ==
  /\ PhaseOf("ready_for_approval") = "offered"
  /\ PhaseOf("approved") = "granted"
  /\ PhaseOf("running") = "executing" /\ PhaseOf("pausing") = "executing"
  /\ PhaseOf("paused") = "halted"
  /\ \A s \in Terminal \cup {"deleted"} : PhaseOf(s) = "over"
  /\ \A s \in {"absent", "created", "snapshotting", "probing", "comparing", "needs_review"} :
       PhaseOf(s) = "closed"
BY DEF PhaseOf, Terminal

(* What a step that the gate does not see leaves alone.                        *)
GateView == <<Phase, active, issued, StartedContracts, IF Phase = "over" THEN state ELSE "none">>

LEMMA OverMeansEnded ==
  ASSUME state \in StoredState, Phase = "over"
  PROVE  state \in Terminal \cup {"deleted"}
BY PhaseValues DEF Phase, StoredState, RunState

(* Whatever ends a run ends it for the gate, and ends it once.                 *)
LEMMA EndsAtTheGate ==
  ASSUME Next, state \in StoredState, state' \in StoredState, Phase' = "over"
  PROVE  [Gate!Next]_(Gate!vars)
<1>0. state' \in Terminal \cup {"deleted"}
  BY PhaseValues DEF Phase, StoredState, RunState
<1>1. CASE Phase = "over"
  <2>1. state' \in {state, "deleted"}
    BY <1>1, OverMeansEnded, OverStays
  <2>2. CASE state' = state
    BY <1>1, <2>2 DEF Gate!vars
  <2>3. CASE state' = "deleted"
    <3>1. Gate!Forget
      BY <1>1, <2>3 DEF Gate!Forget
    <3> QED
      BY <3>1 DEF Gate!Next
  <2> QED
    BY <2>1, <2>2, <2>3
<1>2. CASE Phase # "over"
  <2>1. Gate!End
    BY <1>0, <1>2 DEF Gate!End
  <2> QED
    BY <2>1 DEF Gate!Next
<1> QED
  BY <1>1, <1>2

LEMMA UnseenByTheGate ==
  ASSUME UNCHANGED GateView
  PROVE  [Gate!Next]_(Gate!vars)
BY DEF GateView, Gate!vars

(* Keeping a request that is not a start starts no contract.                   *)
LEMMA NothingStarted ==
  ASSUME NEW r \in Request, r.op # "start", Keep(r)
  PROVE  StartedContracts' = StartedContracts
<1>1. KeyOf(r).op # "start"
  BY KeyType
<1>2. {q \in keys' : q.op = "start"} = {q \in keys : q.op = "start"}
  BY <1>1 DEF Keep
<1> QED
  BY <1>2 DEF StartedContracts

(* A new contract is offered at the gate once it is offered in the store.      *)
LEMMA OffersAtTheGate ==
  ASSUME NEW c, NEW h, OfferContract(c, h), StartedContracts' = StartedContracts,
         Phase \in {"closed", "halted"}, state' = "ready_for_approval"
  PROVE  [Gate!Next]_(Gate!vars)
<1>1. Phase' = "offered"
  BY PhaseValues DEF Phase
<1>2. c \in Contracts \ issued /\ active' = c /\ issued' = issued \cup {c}
  BY DEF OfferContract, InsertContract
<1>3. Gate!Offer(c)
  BY <1>1, <1>2 DEF Gate!Offer
<1> QED
  BY <1>2, <1>3 DEF Gate!Next

LEMMA InspectAtTheGate ==
  ASSUME IInv, Inspect
  PROVE  [Gate!Next]_(Gate!vars)
<1>1. CASE SaveContractAndReady
  <2>1. StartedContracts' = StartedContracts
    BY <1>1 DEF SaveContractAndReady, StartedContracts
  <2>2. Phase = "closed" /\ state' = "ready_for_approval"
    BY <1>1, PhaseValues DEF SaveContractAndReady, Move, Write, Phase
  <2> QED
    BY <1>1, <2>1, <2>2, OffersAtTheGate DEF SaveContractAndReady
<1>2. CASE CreateRun \/ IngestEvent \/ SetBlockingDecisions \/ AwaitReview
           \/ \E raised \in SUBSET Decisions \ {{}} : SaveDecisionPoints(raised)
  <2>1. /\ state \in {"absent", "created", "snapshotting", "probing", "comparing", "needs_review"}
        /\ state' \in {"absent", "created", "snapshotting", "probing", "comparing", "needs_review"}
        /\ active' = active /\ issued' = issued /\ keys' = keys
    BY <1>2 DEF CreateRun, IngestEvent, SetBlockingDecisions, AwaitReview, SaveDecisionPoints,
         Move, Write, runVars, contractVars
  <2>2. Phase' = Phase /\ Phase = "closed"
    BY <2>1, PhaseValues DEF Phase
  <2> QED
    BY <2>1, <2>2, UnseenByTheGate DEF GateView, StartedContracts
<1> QED
  BY <1>1, <1>2 DEF Inspect

LEMMA EnvironmentAtTheGate ==
  ASSUME IInv, Environment
  PROVE  [Gate!Next]_(Gate!vars)
<1>1. CASE RecoverInterruptedRuns
  <2>1. Phase = "executing" /\ Phase' = "halted"
    BY <1>1, PhaseValues DEF RecoverInterruptedRuns, Write, Phase
  <2>2. active' = active /\ issued' = issued /\ StartedContracts' = StartedContracts
    BY <1>1 DEF RecoverInterruptedRuns, contractVars, StartedContracts
  <2>3. Gate!Halt
    BY <2>1, <2>2 DEF Gate!Halt
  <2> QED
    BY <2>3 DEF Gate!Next
<1>2. CASE SetPinned \/ ClaimReviewCapability \/ EditRepository
  <2>1. state' = state /\ active' = active /\ issued' = issued /\ keys' = keys
    BY <1>2 DEF SetPinned, ClaimReviewCapability, EditRepository, storeVars, runVars, contractVars
  <2> QED
    BY <2>1, UnseenByTheGate DEF GateView, StartedContracts, Phase
<1> QED
  BY <1>1, <1>2 DEF Environment

LEMMA PrepareAtTheGate ==
  ASSUME IInv, NEW c \in Clients, Prepare(c)
  PROVE  [Gate!Next]_(Gate!vars)
<1>1. UNCHANGED storeVars
  BY DEF Prepare, AskDecide, AskDefer, AskReopen, AskApprove, AskCancel, AskAmend,
       AskStart, AskMove, AskDelete, Fill, Forget
<1> QED
  BY <1>1, UnseenByTheGate DEF GateView, StartedContracts, Phase, storeVars, runVars, contractVars

(* A keyed request that is not a start, and what it keeps.                     *)
LEMMA KeyedStartsNothing ==
  ASSUME IInv, NEW c \in Clients, NEW op, Keyed(c, op), op # "start"
  PROVE  StartedContracts' = StartedContracts
BY NothingStarted DEF Keyed, Sent, IInv, TypeOK

LEMMA ServeAtTheGate ==
  ASSUME IInv, IInv', NEW c \in Clients, Serve(c)
  PROVE  [Gate!Next]_(Gate!vars)
<1>0. Next /\ state \in StoredState /\ state' \in StoredState
  BY DEF Next, IInv, TypeOK
<1> USE PhaseValues DEF Phase
<1>1. CASE ChooseOutcome(c) \/ RefuseStaleStart(c)
  BY <1>1, UnseenByTheGate DEF ChooseOutcome, RefuseStaleStart, GateView, StartedContracts,
     storeVars, runVars, contractVars
<1>2. CASE DecideReviewOnly(c) \/ DeferDecision(c)
  <2>1. state' = state /\ active' = active /\ issued' = issued
    BY <1>2 DEF DecideReviewOnly, DeferDecision, Write, contractVars
  <2>2. StartedContracts' = StartedContracts
    BY <1>2, KeyedStartsNothing DEF DecideReviewOnly, DeferDecision
  <2> QED
    BY <2>1, <2>2, UnseenByTheGate DEF GateView
<1>3. CASE DecideReady(c)
  <2>1. state = "needs_review" /\ state' = "ready_for_approval"
    BY <1>3 DEF DecideReady, ResolveDecision, Write
  <2>2. StartedContracts' = StartedContracts
    BY <1>3, KeyedStartsNothing DEF DecideReady
  <2> QED
    BY <1>3, <2>1, <2>2, OffersAtTheGate DEF DecideReady
<1>4. CASE DecideCancelled(c) \/ DeleteRun(c)
  <2>1. Phase' = "over"
    BY <1>4 DEF DecideCancelled, DeleteRun, Write, Terminal
  <2> QED
    BY <2>1, <1>0, EndsAtTheGate
<1>5. CASE ReopenReview(c)
  <2>1. Phase = "offered" /\ Phase' = "closed"
    BY <1>5 DEF ReopenReview, Move, Write
  <2>2. active' = 0 /\ issued' = issued
    BY <1>5 DEF ReopenReview, ResetReview, contractVars
  <2>3. StartedContracts' = StartedContracts
    BY <1>5, KeyedStartsNothing DEF ReopenReview
  <2>4. Gate!Withdraw
    BY <2>1, <2>2, <2>3 DEF Gate!Withdraw
  <2> QED
    BY <2>4 DEF Gate!Next
<1>6. CASE ApproveContract(c)
  <2>1. Phase = "offered" /\ Phase' = "granted"
    BY <1>6 DEF ApproveContract, Move, Write, Allowed
  <2>2. active' = active /\ issued' = issued
    BY <1>6 DEF ApproveContract
  <2>3. StartedContracts' = StartedContracts
    BY <1>6, KeyedStartsNothing DEF ApproveContract
  <2>4. Gate!Grant
    BY <2>1, <2>2, <2>3 DEF Gate!Grant
  <2> QED
    BY <2>4 DEF Gate!Next
<1>7. CASE CancelRun(c)
  <2>1. CASE state \in Terminal
    BY <1>7, <2>1, <1>0, EndsAtTheGate DEF CancelRun, Move, Allowed, Terminal
  <2>2. CASE state \notin Terminal
    <3>1. Phase' = "over"
      BY <1>7, <2>2 DEF CancelRun, Move, Write, Terminal
    <3> QED
      BY <3>1, <1>0, EndsAtTheGate
  <2> QED
    BY <2>1, <2>2
<1>8. CASE AmendPausedContract(c)
  <2>1. state = "paused" /\ state' = "ready_for_approval"
    BY <1>8 DEF AmendPausedContract, Write
  <2>2. StartedContracts' = StartedContracts
    BY <1>8, KeyedStartsNothing DEF AmendPausedContract
  <2> QED
    BY <1>8, <2>1, <2>2, OffersAtTheGate DEF AmendPausedContract
<1>9. CASE StartExecution(c)
  <2>1. Phase = "granted" /\ Phase' = "executing"
    BY <1>9 DEF StartExecution, Write
  <2>2. active' = active /\ issued' = issued /\ active = slot[c].contract
    BY <1>9 DEF StartExecution, contractVars
  <2>3. slot[c] \in Request /\ slot[c].op = "start"
    BY <1>9, KeyedType DEF StartExecution, IInv
  <2>4. active \notin StartedContracts
    BY <1>9, <2>2, <2>3 DEF StartExecution, Keyed, KeyTaken, StartedContracts
  <2>5. KeyOf(slot[c]).op = "start" /\ KeyOf(slot[c]).contract = active
    BY <2>2, <2>3, KeyType
  <2>6. keys' = keys \cup {KeyOf(slot[c])}
    BY <1>9 DEF StartExecution, Keyed, Keep
  <2>7. StartedContracts' = StartedContracts \cup {active}
    BY <2>5, <2>6 DEF StartedContracts
  <2>8. Gate!Start
    BY <2>1, <2>2, <2>4, <2>7 DEF Gate!Start
  <2> QED
    BY <2>8 DEF Gate!Next
<1>10. CASE TransitionRun(c)
  <2>1. slot[c].target \in {"pausing", "paused"} \cup Terminal
    BY <1>10 DEF TransitionRun, Sent, IInv, RequestsBehind
  <2>2. Allowed(state, slot[c].target) /\ state' = slot[c].target
        /\ active' = active /\ issued' = issued /\ StartedContracts' = StartedContracts
    BY <1>10 DEF TransitionRun, Move, Write, contractVars, StartedContracts
  <2>3. CASE slot[c].target \in Terminal
    BY <2>2, <2>3, <1>0, EndsAtTheGate
  <2>4. CASE slot[c].target = "pausing"
    <3>1. state = "running"
      BY <2>2, <2>4 DEF Allowed, Terminal
    <3> QED
      BY <2>2, <2>4, <3>1, UnseenByTheGate DEF GateView
  <2>5. CASE slot[c].target = "paused"
    <3>1. state = "pausing"
      BY <2>2, <2>5 DEF Allowed, Terminal
    <3>2. Gate!Halt
      BY <2>2, <2>5, <3>1 DEF Gate!Halt
    <3> QED
      BY <3>2 DEF Gate!Next
  <2> QED
    BY <2>1, <2>3, <2>4, <2>5
<1> QED
  BY <1>1, <1>2, <1>3, <1>4, <1>5, <1>6, <1>7, <1>8, <1>9, <1>10 DEF Serve

(* Every behaviour of the store is a behaviour of the gate: nothing starts     *)
(* without a grant, nothing starts twice, and a halt needs a new grant.        *)
THEOREM StoreImplementsGate == Spec => ImplementsGate
<1>1. Init => Gate!Init
  BY PhaseValues DEF Init, Gate!Init, Phase, StartedContracts
<1>2. IInv /\ [Next]_vars => [Gate!Next]_(Gate!vars)
  <2> SUFFICES ASSUME IInv, [Next]_vars PROVE [Gate!Next]_(Gate!vars)
    OBVIOUS
  <2>1. CASE UNCHANGED vars
    BY <2>1, UnseenByTheGate DEF vars, storeVars, runVars, contractVars, GateView, Phase,
       StartedContracts
  <2>2. CASE Next
    BY <2>2, NextKeeps, InspectAtTheGate, EnvironmentAtTheGate, PrepareAtTheGate, ServeAtTheGate DEF Next
  <2> QED
    BY <2>1, <2>2
<1> QED
  BY <1>1, <1>2, Invariance, PTL DEF Spec, ImplementsGate, Gate!Spec
=============================================================================
