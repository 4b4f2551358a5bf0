----------------------------- MODULE ContractGate -----------------------------
(***************************************************************************)
(* packages/contract-runtime: the gate between the agent and the worktree.  *)
(* It answers the requests of the agent, judges what is observed, and at    *)
(* the end compares the worktree with what it was (execution-gate.ts,       *)
(* change-monitor.ts, command-parser.ts, and what runtime.ts does once the  *)
(* turn has ended).  The agent and its tools are free: they announce, ask   *)
(* and write what they like.                                                *)
(***************************************************************************)
EXTENDS PlanPolicy

CONSTANTS
  Paths,        \* the files of the worktree
  Baseline,     \* those that the approved patch has changed
  Ignored,      \* those that git status does not show
  Names,        \* the names the agent uses for files
  Request,      \* [Names \cup Paths -> what resolvePath makes of the name]
  Root,         \* the name of the root of the worktree
  Items,        \* the items of the turn
  Commands,     \* commands of the agent: [cwd, actions], each action [line, path, type]
  MaxEvents     \* bound: requests and observations of one turn

ASSUME GateAssumption ==
  /\ Baseline \subseteq Paths /\ Ignored \subseteq Paths /\ Baseline \cap Ignored = {}
  /\ Root \notin Names /\ MaxEvents \in Nat
  /\ \A n \in Names \cup Paths : Request[n].resolved \in Seq(Seq(STRING))

VARIABLES
  contract,     \* the approved contract
  content,      \* what each file holds: the commit's, the approved patch's, or something new
  turn,         \* "idle", "running", "checks", "final", "over"
  status,       \* how the client says the turn ended
  events,       \* how many events of the turn there were
  announced,    \* the names an item was last announced with
  validated,    \* items whose announced names were all writable
  accepted,     \* items whose change was approved
  refused,      \* what the agent was refused, or paused for
  deviations,   \* what is on record: [key, category]
  actions,      \* the kinds of the audit's actions
  checks,       \* the outcomes of the required checks
  outcome       \* what the port returns

gateVars == <<contract, content, turn, status, events, announced, validated, accepted, refused,
              deviations, actions, checks, outcome>>
observation == <<announced, validated, accepted>>
record == <<refused, deviations, actions>>

NoContract == [allowedPaths |-> {}, protectedPaths |-> {}, allowedCommandClasses |-> {},
               deniedCommandClasses |-> {}, requiredChecks |-> <<>>]

Unchanged(path) == IF path \in Baseline THEN "approved" ELSE "commit"

GateInit ==
  /\ contract = NoContract
  /\ content = [p \in Paths |-> Unchanged(p)]
  /\ turn = "idle" /\ status = "none" /\ events = 0
  /\ announced = [i \in Items |-> {}] /\ validated = {} /\ accepted = {}
  /\ refused = {} /\ deviations = {} /\ actions = {} /\ checks = <<>> /\ outcome = "none"

-----------------------------------------------------------------------------
(* What the monitor says of a name *)

Guarded == contract.protectedPaths \cup {<<<<".git">>>>, <<<<".git">>, AnySegments>>}

Writable(name) ==
  MatchPathRequest(Request[name], contract.allowedPaths, Guarded) = "allowed_path"
Readable(name) ==
  name = Root \/ MatchPathRequest(Request[name], {<<AnySegments>>}, Guarded) = "allowed_path"

(* Mutant of ChangedPaths: only what git status shows.                         *)
ChangedPathsShown ==
  {p \in Paths \ Ignored : content[p] # "commit" /\ (p \in Baseline => content[p] # "approved")}

(* git status shows what differs from the commit; a file of the approved patch *)
(* is looked at even when it no longer does.                                   *)
ChangedPaths ==
  LET shown == {p \in Paths \ Ignored : content[p] # "commit"} IN
  {p \in Baseline \cup shown : p \in Baseline => content[p] # "approved"}

-----------------------------------------------------------------------------
(* What the gate says of a command *)

Parses(line) == Len(line.commands) = 1 /\ line.kind # "expansion"

(* evaluateCommand: whether it is allowed, and the classes known by then.  The *)
(* first action that the client could not type, that does not parse or that    *)
(* reads out of bounds refuses the command.                                    *)
EvaluateCommand(command) ==
  LET parts == command.actions
      unfit == {i \in DOMAIN parts : \/ parts[i].type = "unknown" \/ ~Parses(parts[i].line)
                                     \/ ~Readable(parts[i].path)}
      parsed == [i \in DOMAIN parts |-> parts[i].line.commands[1]]
      classes == {Classify(parsed[i]) : i \in DOMAIN parts} \ {Unknown}
      Refuse(known) == [allowed |-> FALSE, classes |-> known] IN
  CASE ~Readable(command.cwd) \/ parts = <<>> -> Refuse({})
    [] unfit # {} ->
         LET first == CHOOSE i \in unfit : \A j \in unfit : i <= j IN
         Refuse(IF Parses(parts[first].line) THEN {Classify(parsed[first])} \ {Unknown} ELSE {})
    [] OTHER ->
         LET reason == MatchCommandRequest(parsed, contract.allowedCommandClasses,
                                           contract.deniedCommandClasses) IN
         [allowed |-> reason = "command_allowed",
          classes |-> IF reason = "unknown_command" THEN {} ELSE classes]

CommandCategory(classes) ==
  CASE "dependency" \in classes -> "dependency"
    [] "remote_write" \in classes -> "external_effect"
    [] OTHER -> "command"

VerificationClasses == {"test", "lint", "typecheck", "build", "verification"}

ValidateRequiredCheck(line) ==
  /\ Parses(line)
  /\ MatchCommandRequest(line.commands, contract.allowedCommandClasses,
                         contract.deniedCommandClasses) = "command_allowed"
  /\ Classify(line.commands[1]) \in VerificationClasses

-----------------------------------------------------------------------------
(* What is put on record *)

RecordAction(kind) == actions' = actions \cup {kind}

(* Mutant of Deviation: one for the turn.                                      *)
FirstDeviation(key, category) ==
  IF deviations # {} THEN deviations ELSE {[key |-> key, category |-> category]}

(* One deviation for a key: the first.                                         *)
Deviation(key, category) ==
  IF \E d \in deviations : d.key = key THEN deviations
  ELSE deviations \cup {[key |-> key, category |-> category]}

DeclineApproval(method, item, category) ==
  LET key == <<"approval", method, item>> IN
  /\ deviations' = Deviation(key, category)
  /\ refused' = refused \cup {key}
  /\ RecordAction(CASE category \in {"network", "permission", "external_effect"} -> category
                    [] category = "file_path" -> "file_change"
                    [] OTHER -> "command")

ObservedDeviation(key, category) ==
  /\ deviations' = Deviation(key, category)
  /\ refused' = refused \cup {key}
  /\ IF \E d \in deviations : d.key = key THEN actions' = actions
     ELSE RecordAction(CASE category = "file_path" -> "file_change"
                         [] category \in {"network", "permission", "command"} -> category
                         [] OTHER -> "external_effect")

-----------------------------------------------------------------------------
(* The turn *)

Event == /\ turn = "running" /\ events < MaxEvents
         /\ events' = events + 1
         /\ UNCHANGED <<contract, content, turn, status, checks, outcome>>

NoItem == "none"

RequestCommand(item, command, besides) ==
  /\ Event
  /\ UNCHANGED observation
  /\ LET judged == EvaluateCommand(command)
         method == "commandExecution" IN
     CASE besides = "network" -> DeclineApproval(method, item, "network")
       [] besides = "amendment" -> DeclineApproval(method, item, "permission")
       [] besides = "none" /\ ~judged.allowed ->
            DeclineApproval(method, item, CommandCategory(judged.classes))
       [] OTHER -> UNCHANGED record

RequestFileChange(item) ==
  /\ Event
  /\ UNCHANGED <<announced, validated>>
  /\ \/ /\ item \in validated
        /\ accepted' = accepted \cup {item}
        /\ UNCHANGED record
     \/ /\ item \notin validated
        /\ DeclineApproval("fileChange", item, "file_path")
        /\ UNCHANGED accepted

(* Everything else is refused, whatever it asks for.                           *)
OtherRequests ==
  [permissions |-> "permission", dynamicTool |-> "external_effect",
   elicitation |-> "external_effect", userInput |-> "unknown_action", other |-> "unknown_action"]
RequestOther(method, item) ==
  /\ Event
  /\ UNCHANGED observation
  /\ DeclineApproval(method, IF method \in {"elicitation", "other"} THEN NoItem ELSE item,
                     OtherRequests[method])

ObserveCommand(item, command, method) ==
  /\ Event
  /\ UNCHANGED observation
  /\ IF ~EvaluateCommand(command).allowed
     THEN ObservedDeviation(<<"item", item, "command">>, "command")
     ELSE /\ actions' = actions \cup (IF method = "completed" THEN {"command"} ELSE {})
          /\ UNCHANGED <<refused, deviations>>

(* Whether the names of a change may be written decides about its item.        *)
Validated(item, names, method) ==
  IF method = "started" /\ names # {} /\ \A n \in names : Writable(n)
  THEN validated \cup {item} ELSE validated

ObserveFileChange(item, names, method) ==
  LET outside == {n \in names : ~Writable(n)} IN
  /\ Event
  /\ announced' = [announced EXCEPT ![item] = names]
  /\ validated' = Validated(item, names, method)
  /\ UNCHANGED accepted
  /\ CASE names = {} -> ObservedDeviation(<<"item", item, "empty">>, "unknown_action")
       [] outside # {} -> \E n \in outside : ObservedDeviation(<<"item", item, "path", n>>, "file_path")
       [] OTHER -> /\ actions' = actions \cup (IF method = "completed" THEN {"file_change"} ELSE {})
                   /\ UNCHANGED <<refused, deviations>>

ObserveImage(item, name) ==
  /\ Event
  /\ UNCHANGED observation
  /\ IF Readable(name) THEN UNCHANGED record
     ELSE ObservedDeviation(<<"item", item, "image">>, "file_path")

ObserveTool(item, tool) ==
  /\ Event
  /\ UNCHANGED observation
  /\ ObservedDeviation(<<"item", item, tool>>,
                       IF tool = "webSearch" THEN "network" ELSE "external_effect")

(* The diff of the turn so far, with the names it gives, none of which is no   *)
(* diff at all.                                                                *)
ObserveDiff(names) ==
  LET outside == {n \in names : ~Writable(n)} IN
  /\ Event
  /\ UNCHANGED observation
  /\ IF outside = {} THEN UNCHANGED record
     ELSE \E n \in outside : ObservedDeviation(<<"diff", n>>, "file_path")

(* A diff that has text and names no file cannot be judged.                    *)
ObserveNamelessDiff ==
  /\ Event
  /\ UNCHANGED observation
  /\ ObservedDeviation(<<"diff">>, "unknown_action")

(* What the worktree may hold by now: nothing of the above looks at it, so all *)
(* that the agent and its tools have written shows here.                       *)
Left == {c \in [Paths -> {"commit", "approved", "new"}] :
           \A p \in Paths : c[p] = "approved" => content[p] = "approved"}

EndTurn(how) ==
  /\ turn = "running"
  /\ status' = how
  /\ content' \in Left
  /\ turn' = IF how = "completed" /\ deviations = {} THEN "checks" ELSE "final"
  /\ UNCHANGED <<contract, events, observation, record, checks, outcome>>

-----------------------------------------------------------------------------
(* After the turn *)

FinalDeviations(paths) ==
  {[key |-> <<"final-diff", p>>, category |-> "file_path"] : p \in {q \in paths : ~Writable(q)}}

RecordCheck(result) ==
  checks' = Append(checks, IF result \in {"passed", "failed"} THEN result ELSE "not_run")

CheckDeviation(line, result) ==
  IF result = "passed" THEN {} ELSE {[key |-> <<"check", line.shown>>, category |-> "check"]}

(* A required check is run when it may be, and writes what it likes; the       *)
(* worktree is looked at after each, and the first that does not pass or       *)
(* leaves something outside the contract ends them.                            *)
RunCheck(result) ==
  LET line  == contract.requiredChecks[Len(checks) + 1]
      found == IF result = "passed" THEN FinalDeviations(ChangedPaths') ELSE {} IN
  /\ turn = "checks" /\ Len(checks) < Len(contract.requiredChecks)
  /\ result \in (IF ValidateRequiredCheck(line) THEN {"passed", "failed", "unavailable", "cancelled"}
                 ELSE {"denied", "cancelled"})
  /\ content' \in (IF result \in {"passed", "failed", "unavailable"} THEN Left ELSE {content})
  /\ RecordCheck(result)
  /\ deviations' = deviations \cup CheckDeviation(line, result) \cup found
  /\ actions' = actions \cup {"check"} \cup (IF found = {} THEN {} ELSE {"file_change"})
  /\ turn' = IF result = "passed" /\ found = {} THEN "checks" ELSE "final"
  /\ UNCHANGED <<contract, status, events, observation, refused, outcome>>

(* What the port returns once every deviation is known.                        *)
Outcome(known) ==
  CASE known # {} \/ status = "interrupted" -> "paused"
    [] status = "failed" -> "failed"
    [] \/ \E i \in DOMAIN checks : checks[i] # "passed"
       \/ Len(checks) # Len(contract.requiredChecks) -> "paused"
    [] OTHER -> "completed"

Conclude ==
  /\ turn = "final" \/ (turn = "checks" /\ Len(checks) = Len(contract.requiredChecks))
  /\ LET found == FinalDeviations(ChangedPaths)
         known == deviations \cup found IN
     /\ deviations' = known
     /\ outcome' = Outcome(known)
     /\ actions' = actions \cup {"network", "permission", "external_effect"}
                   \cup (IF found = {} THEN {} ELSE {"file_change"})
  /\ turn' = "over"
  /\ UNCHANGED <<contract, content, status, events, observation, refused, checks>>

(* The client is cancelled or times out, or anything throws.                   *)
Throw(how) ==
  /\ turn \in {"running", "checks", "final"} /\ how \in {"paused", "failed"}
  /\ outcome' = how /\ turn' = "over"
  /\ UNCHANGED <<contract, content, status, events, observation, record, checks>>

GateNext ==
  \/ \E item \in Items :
       \/ \E c \in Commands :
            \/ \E besides \in {"none", "network", "amendment"} : RequestCommand(item, c, besides)
            \/ \E method \in {"started", "completed"} : ObserveCommand(item, c, method)
       \/ RequestFileChange(item)
       \/ \E method \in DOMAIN OtherRequests : RequestOther(method, item)
       \/ \E names \in SUBSET Names, method \in {"started", "completed"} :
            ObserveFileChange(item, names, method)
       \/ \E name \in Names : ObserveImage(item, name)
       \/ \E tool \in {"webSearch", "mcpToolCall"} : ObserveTool(item, tool)
  \/ \E names \in SUBSET Names : ObserveDiff(names)
  \/ ObserveNamelessDiff
  \/ \E how \in {"completed", "interrupted", "failed"} : EndTurn(how)
  \/ \E result \in {"passed", "failed", "unavailable", "cancelled", "denied"} : RunCheck(result)
  \/ Conclude
  \/ \E how \in {"paused", "failed"} : Throw(how)
=============================================================================
