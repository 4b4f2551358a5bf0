------------------------------- MODULE Boundary -------------------------------
(***************************************************************************)
(* From the plans of the probes to the files an execution leaves behind:    *)
(* the review asks its questions (packages/openai-comparator: normalizer.ts *)
(* over deterministic-policy.ts), the answers make a contract               *)
(* (contracts.ts), and the gate holds the execution to it (ContractGate).   *)
(***************************************************************************)
EXTENDS ContractGate

CONSTANTS
  Reviews,  \* what an inspection may hand over: task, plans, divergences, unknowns, degraded
  Choices,  \* bound: the options the user may choose
  Samples   \* [paths, patterns]: what the matcher is compared on with its meaning

(* A text says finitely many things; probes are told apart by their ids, which *)
(* the coordinator numbers (probe-coordinator.ts:95, comparator.ts:44) and are *)
(* none of the names that stand for the task and the policy itself.            *)
Statements(plan) == {plan.statements[i].text : i \in DOMAIN plan.statements}

ASSUME ReviewAssumption ==
  \A r \in Reviews :
    /\ \A text \in {r.task} \cup UNION {Statements(p) : p \in r.plans} :
         text.says \subseteq Occurrence /\ IsFiniteSet(text.says)
    /\ \A p \in r.plans : p.probeId \notin {"task", "policy"} /\ p.files \subseteq Seq(Seq(STRING))
    /\ \A p, q \in r.plans : p.probeId = q.probeId => p = q

(* A star in a path is refused before it is matched.                           *)
ASSUME SampleAssumption ==
  \A s \in Samples :
    /\ s.paths \cup s.patterns \subseteq Seq(Seq(STRING))
    /\ \A path \in s.paths : StarFree(path)

VARIABLES
  review,      \* the one of this run
  decisions,   \* its questions; the empty set until it is normalized
  answers,     \* the answers so far, at most one for a question
  phase        \* "inspected", "review", "approved"

vars == <<review, decisions, answers, phase, gateVars>>

-----------------------------------------------------------------------------
(* The questions *)

Option(id, probes) == [id |-> id, probes |-> probes]

Decision(id, category, triggers, details, refs, options) ==
  [decisionId |-> id, category |-> category, deterministicTriggers |-> triggers,
   details |-> details, evidenceRefs |-> refs, options |-> options]

ProbeIds(plans) == {p.probeId : p \in plans}

(* Mutant of SupportingProbes: what nobody mentions has everybody's support.   *)
SupportingProbesOrAll(blocker, plans) ==
  LET named == {ref[1] : ref \in blocker.evidenceRefs} \cap ProbeIds(plans) IN
  IF named # {} THEN named ELSE ProbeIds(plans)

SupportingProbes(blocker, plans) ==
  LET named == {ref[1] : ref \in blocker.evidenceRefs} \cap ProbeIds(plans) IN
  CASE named # {} -> named
    [] \A ref \in blocker.evidenceRefs : ref[1] = "task" -> {}
    [] OTHER -> ProbeIds(plans)

(* A local effect may be allowed with the contract; any other is at most       *)
(* prepared for.  Either way the question names the probes that mention it.    *)
PolicyDecision(blocker, plans) ==
  LET probes == SupportingProbes(blocker, plans)
      allow  == IF blocker.trigger \in {"compatibility", "breaking_api"} THEN "allow_local"
                ELSE "implementation_only" IN
  Decision(<<"policy", blocker.blockerId>>, blocker.category, {blocker.trigger}, blocker.details,
           blocker.evidenceRefs, {Option("deny", probes), Option(allow, probes)})

DivergenceDecision(d) ==
  Decision(<<"divergence", d.subject>>, d.category, {}, {}, {}, d.alternatives)

UnknownDecision(subject) ==
  Decision(<<"unresolved", subject>>, "unknown", {"unknown"}, {}, {},
           {Option("clarify", {}), Option("cancel", {})})

DegradedDecision(plans) ==
  Decision(<<"degraded", ProbeIds(plans)>>, "unknown", {"degraded_probe_set"}, {}, {},
           {Option("rerun", ProbeIds(plans)), Option("manual", ProbeIds(plans))})

(* normalizeReview keeps one question for an id, the one it meets last.        *)
OnePerId(questions) ==
  {selection \in SUBSET questions :
     /\ \A q \in questions : \E kept \in selection : kept.decisionId = q.decisionId
     /\ \A q1, q2 \in selection : q1.decisionId = q2.decisionId => q1 = q2}

Questions ==
  LET policy == EvaluateDeterministicPolicy(review.task, review.plans) IN
  {PolicyDecision(b, review.plans) : b \in policy}
  \cup {DivergenceDecision(d) : d \in review.divergences}
  \cup {UnknownDecision(u) : u \in review.unknowns}
  \cup (IF review.degraded THEN {DegradedDecision(review.plans)} ELSE {})

NormalizeReview ==
  /\ phase = "inspected"
  /\ decisions' \in OnePerId(Questions)
  /\ phase' = "review"
  /\ UNCHANGED <<review, answers, gateVars>>

Open == {d \in decisions : ~\E a \in answers : a.decisionId = d.decisionId}

Freeform == "freeform"

OptionsOf(decision) == {o.id : o \in decision.options} \cup {Freeform}

Answer(decision, choice) ==
  /\ phase = "review"
  /\ decision \in Open
  /\ choice \in Choices \cap OptionsOf(decision)
  /\ answers' = answers \cup {[decisionId |-> decision.decisionId, choice |-> choice]}
  /\ UNCHANGED <<review, decisions, phase, gateVars>>

-----------------------------------------------------------------------------
(* The contract *)

(* Mutant of Shared: what is in any of these lists.                            *)
AnyOf(lists) == UNION lists

(* What all of these lists have in common.                                     *)
Shared(lists) == {v \in UNION lists : \A l \in lists : v \in l}

(* The plans behind each alternative that was chosen.                          *)
SelectedPlanGroups ==
  LET chosen == {c \in decisions \X UNION {d.options : d \in decisions} :
                   /\ c[1].deterministicTriggers = {} /\ c[2] \in c[1].options
                   /\ [decisionId |-> c[1].decisionId, choice |-> c[2].id] \in answers} IN
  {{p \in review.plans : p.probeId \in c[2].probes} : c \in chosen}

(* What all plans have in common, and what those behind each choice have.      *)
SelectedBoundary(values) ==
  Shared({values[p] : p \in review.plans})
  \cup UNION {Shared({values[p] : p \in group}) : group \in SelectedPlanGroups}

Verifies(line) ==
  \E c \in ElementsOf(line.commands) :
    {"test", "lint", "typecheck", "build", "check"} \cap (Texts(c.args) \cup {c.program}) # {}

(* The checks are sorted by how they read; any order of theirs will do.        *)
InSomeOrder(lines) ==
  CHOOSE s \in [1 .. Cardinality(lines) -> lines] : ElementsOf(s) = lines

CreateContractPreview ==
  LET files   == [plan \in review.plans |-> plan.files]
      checked == [plan \in review.plans |-> {l \in ElementsOf(plan.commands) : Verifies(l)}] IN
  [allowedPaths |-> SelectedBoundary(files),
   protectedPaths |-> {<<<<".env">>>>, <<<<".env", ".", "*">>>>, <<<<".git">>, AnySegments>>,
                       <<AnySegments, <<".env">>>>, <<AnySegments, <<".env", ".", "*">>>>},
   allowedCommandClasses |-> {"static_read", "test", "lint", "typecheck", "build", "verification"},
   deniedCommandClasses |-> {"destructive", "permission", "secret_access", "remote_write", "deploy",
                             "release", "migration"},
   requiredChecks |-> InSomeOrder(SelectedBoundary(checked))]

(* Every question answered, the preview is made, approved and executed.        *)
Resolved == Open = {}

Approve ==
  /\ phase = "review" /\ Resolved
  /\ phase' = "approved"
  /\ contract' = CreateContractPreview
  /\ turn' = "running"
  /\ UNCHANGED <<review, decisions, answers, content, status, events, observation, record, checks,
                 outcome>>

-----------------------------------------------------------------------------
Init == /\ review \in Reviews
        /\ decisions = {} /\ answers = {} /\ phase = "inspected"
        /\ GateInit

Next == \/ NormalizeReview
        \/ \E d \in decisions, choice \in Choices : Answer(d, choice)
        \/ Approve
        \/ GateNext /\ UNCHANGED <<review, decisions, answers, phase>>

Spec == Init /\ [][Next]_vars

-----------------------------------------------------------------------------
(* Properties *)

(* What an honest reader finds in a text, wherever the search goes: the        *)
(* triggers that some occurrence means.                                        *)
Stated(text, for) == {o.pattern.trigger : o \in {p \in text.says : p.pattern.for = for /\ Actionable(p)}}

TypeOK ==
  /\ review \in Reviews /\ phase \in {"inspected", "review", "approved"}
  /\ \A a \in answers : \E d \in decisions :
       a.decisionId = d.decisionId /\ a.choice \in OptionsOf(d)
  /\ DOMAIN contract = DOMAIN NoContract
  /\ content \in [Paths -> {"commit", "approved", "new"}]
  /\ turn \in {"idle", "running", "checks", "final", "over"}
  /\ status \in {"none", "completed", "interrupted", "failed"}
  /\ events \in 0 .. MaxEvents
  /\ announced \in [Items -> SUBSET Names] /\ validated \subseteq Items /\ accepted \subseteq Items
  /\ actions \subseteq {"command", "file_change", "network", "permission", "external_effect", "check"}
  /\ checks \in Seq({"passed", "failed", "not_run"})
  /\ outcome \in {"none", "completed", "paused", "failed"}

(* A question about the effect, in the words of the text, has an answer.       *)
Answered(trigger, text) ==
  \E d \in decisions : /\ trigger \in d.deterministicTriggers /\ Words(text.shown) \in d.details
                       /\ \E a \in answers : a.decisionId = d.decisionId

(* The statements of a plan that are searched for effects; some fields are not *)
(* when their text declares that there is nothing.                             *)
IsSearched(s) ==
  \/ s.field \in {"summary", "intendedBehavior", "publicApiChanges"}
  \/ s.field \in {"dataChanges", "permissionChanges", "externalEffects"} /\ ~s.text.none

(* Nothing is executed while the task, or a text of a plan that is searched for*)
(* effects, states one that the user was not asked about: each effect that is  *)
(* meant anywhere in such a text was a question, in the words of the text, and *)
(* has an answer.  The texts of the other fields are asked about as a whole or *)
(* not at all (evaluateDeterministicPolicy).                                   *)
EveryEffectIsAnswered ==
  turn # "idle" =>
    /\ \A t \in Stated(review.task, "task") : Answered(t, review.task)
    /\ \A plan \in review.plans : \A i \in DOMAIN plan.statements :
         LET s == plan.statements[i] IN
         IsSearched(s) =>
           \A t \in Stated(s.text, "plan") \cup Stated(s.text, "task") : Answered(t, s.text)

(* A question claims the support of a probe only when the plan of that probe   *)
(* states one of the effects it is about; the task claims nobody's.            *)
States(plan, decision) ==
  \E e \in PlanEffects(plan) : e.key[1] \in decision.deterministicTriggers /\ e.shown \in decision.details

SupportIsStated ==
  \A d \in decisions : d.decisionId[1] = "policy" =>
    \A plan \in review.plans :
      (\E o \in d.options : plan.probeId \in o.probes) => States(plan, d)

(* An execution that is completed has changed only what leads to files that    *)
(* every plan meant to change, or that every plan behind one chosen            *)
(* alternative did, and to none that holds secrets.  Files that git ignores    *)
(* are out of sight.  What a pattern means is Denotes, not the matcher.        *)
Meant(plan, path) == \E f \in plan.files : Denotes(Normalize(path), Normalize(f))

Planned(path) ==
  \/ review.plans # {} /\ \A plan \in review.plans : Meant(plan, path)
  \/ \E d \in decisions : \E o \in d.options :
       LET behind == {plan \in review.plans : plan.probeId \in o.probes} IN
       /\ d.decisionId[1] = "divergence" /\ [decisionId |-> d.decisionId, choice |-> o.id] \in answers
       /\ behind # {} /\ \A plan \in behind : Meant(plan, path)

HoldsSecrets(path) == \E f \in DefaultProtected : Denotes(Normalize(path), Normalize(f))

Proper(path) == Planned(path) /\ ~HoldsSecrets(path)

ChangesWerePlanned ==
  outcome = "completed" =>
    \A p \in Paths \ Ignored : content[p] # Unchanged(p) => Proper(Request[p].resolved)

(* A change of files is approved only for names that lead to such files, as    *)
(* its item last announced them, unless it is on record that it did not.       *)
AcceptedWritesWereDisclosed ==
  \A i \in accepted :
    deviations # {} \/ (announced[i] # {} /\ \A n \in announced[i] : Proper(Request[n].resolved))

(* What the agent was refused or paused for is on record, and an execution     *)
(* with anything on record is never completed.                                 *)
RefusalsAreOnRecord ==
  /\ \A key \in refused : \E d \in deviations : d.key = key
  /\ outcome = "completed" => refused = {} /\ deviations = {}

(* The matcher finds exactly what a pattern denotes; that depends on no state  *)
(* and is decided in the initial ones.                                         *)
MatcherIsExact ==
  phase = "inspected" => \A s \in Samples : MatcherIsExactOn(s.paths, s.patterns)

(* Every place where an effect was met stays with the question about it        *)
(* (deterministic-policy.ts:1322-1323: "Every underlying description and       *)
(* evidence reference remains visible").                                       *)
EveryReferenceIsKept ==
  phase # "inspected" =>
    \A e \in Effects(review.task, review.plans) : \E d \in decisions :
      e.key[1] \in d.deterministicTriggers /\ e.shown \in d.details /\ e.ref \in d.evidenceRefs
=============================================================================
