------------------------------ MODULE PlanPolicy ------------------------------
(***************************************************************************)
(* packages/policy/src/deterministic-policy.ts: what in a task and in its   *)
(* plans needs a decision of the user, and how those questions are put.     *)
(*                                                                          *)
(* A text is what the patterns make of it: the occurrences of a trigger in  *)
(* it, each with the words around it that make it harmless.  Its wording    *)
(* after redaction is "shown"; "same" is what it has in common with texts   *)
(* that differ only in case, spacing and final punctuation; "none" says     *)
(* that it states the absence of what its field is for.                     *)
(***************************************************************************)
EXTENDS CommandPolicy, PathPolicy

Rules ==
  [destructive_data       |-> [category |-> "destructive", impact |-> "high"],
   migration              |-> [category |-> "destructive", impact |-> "high"],
   production             |-> [category |-> "production", impact |-> "high"],
   deploy_release_publish |-> [category |-> "production", impact |-> "high"],
   remote_write           |-> [category |-> "production", impact |-> "high"],
   authentication         |-> [category |-> "authentication", impact |-> "high"],
   secret                 |-> [category |-> "secret", impact |-> "high"],
   permission             |-> [category |-> "permission", impact |-> "high"],
   billing                |-> [category |-> "billing", impact |-> "high"],
   network                |-> [category |-> "network", impact |-> "high"],
   persistent_data        |-> [category |-> "persistent_data", impact |-> "medium"],
   dependency             |-> [category |-> "dependency", impact |-> "medium"],
   breaking_api           |-> [category |-> "public_api", impact |-> "high"],
   compatibility          |-> [category |-> "compatibility", impact |-> "medium"],
   irreversible           |-> [category |-> "destructive", impact |-> "high"],
   scope_expansion        |-> [category |-> "scope", impact |-> "high"],
   unknown                |-> [category |-> "unknown", impact |-> "high"]]

Triggers == DOMAIN Rules

(* The patterns for the text of a plan, and the narrower ones for a task.      *)
Patterns == [for : {"plan", "task"}, trigger : Triggers]

(* What stands around an occurrence: a negation before or after it; a new      *)
(* clause that this negation does not reach; words that make it the subject of *)
(* documentation or of a test; a later "then run it" that takes that back, and *)
(* whether the negation is of the documenting and not of the act.              *)
Occurrence == [pattern : Patterns, at : Nat, end : Nat,
               around : SUBSET {"not_before", "not_after", "own_clause", "documented",
                                "then_done", "not_only_documented"}]

Text == [shown : STRING, same : STRING, none : BOOLEAN, says : SUBSET Occurrence]

Actionable(o) ==
  LET undone == {"then_done", "not_only_documented"} \subseteq o.around IN
  /\ "not_before" \in o.around => "own_clause" \in o.around \/ undone
  /\ "not_after" \in o.around => undone
  /\ "documented" \in o.around => "then_done" \in o.around

(* Mutant of Resume: it goes on behind the occurrence.                         *)
ResumeBehind(o) == o.end + 1

(* Where the search goes on after an occurrence that means nothing: inside it, *)
(* so that one it overlaps is still found.                                     *)
Resume(o) == o.at + 1

Positions(text) == {0} \cup {Resume(o) : o \in text.says}

(* The next occurrence decides; there are several of them at one place when    *)
(* the pattern is made of several expressions, which are searched for apart.   *)
PositiveMatch(text, pattern) ==
  LET search[from \in Positions(text)] ==
        LET ahead == {o \in text.says : o.pattern = pattern /\ o.at >= from}
            next  == {o \in ahead : \A p \in ahead : o.at <= p.at} IN
        \E o \in next : Actionable(o) \/ search[Resume(o)]
  IN search[0]

MatchingTaskTriggers(text) ==
  {t \in Triggers : PositiveMatch(text, [for |-> "task", trigger |-> t])}

MatchingTriggers(text) ==
  MatchingTaskTriggers(text) \cup {t \in Triggers : PositiveMatch(text, [for |-> "plan", trigger |-> t])}

-----------------------------------------------------------------------------
(* The commands of a plan *)

(* A command line: how it reads, its commands, and what else its characters    *)
(* do.  A pattern is taken as it stands by parseContractCommand, an expansion  *)
(* by neither.                                                                 *)
Line(shown, commands, kind) == [shown |-> shown, commands |-> commands, kind |-> kind]
LineKind == {"plain", "pattern", "expansion"}

CommandClassTriggers(class) ==
  CASE class \in {"static_read", "git_read", "test", "lint", "typecheck", "build", "verification"} -> {}
    [] class = "git_write" -> {"deploy_release_publish"}
    [] class = "dependency" -> {"dependency", "network"}
    [] class = "network" -> {"network"}
    [] class = "remote_write" -> {"remote_write", "network"}
    [] class = "destructive" -> {"destructive_data"}
    [] class = "permission" -> {"permission"}
    [] class = "secret_access" -> {"secret"}
    [] class = "migration" -> {"migration"}
    [] class \in {"deploy", "release"} -> {"deploy_release_publish", "network"}
    [] OTHER -> {"unknown"}

ElementsOf(s) == {s[i] : i \in DOMAIN s}

Scripts == {"test", "lint", "typecheck", "build", "check", "verify"}

IsKnownVerificationCommand(c) ==
  \/ c.program = "npm" /\ Nth(c.args, 1).text = "run" /\ Nth(c.args, 2).text \in Scripts
  \/ c.program = "pnpm" /\ Nth(c.args, 1).text \in Scripts

(* Options are compared in lower case, by all programs but rg: the tables have *)
(* both cases of a letter, and not the capitals that the code lists, which are *)
(* never met (-L of jq and tree, -S and -T of sort, -I and -P of tree).        *)
OutputOptions == {"-o", "-O", "--output", "--output-file", "--out-dir"}
PathValueOptions == OutputOptions \cup {"--basetemp", "--config", "--project", "--temporary-directory"}

(* The options of a program whose next word is their value and no operand.     *)
ValueOptions(program) ==
  CASE program = "rg" -> {"-A", "-B", "-C", "-g", "-m", "-t", "-T", "--glob", "--pre", "--type"}
    [] program = "jq" -> {"-f", "-F", "--arg", "--argjson", "--indent", "--join-output", "--rawfile",
                          "--slurpfile"}
    [] program = "sed" -> {"-e", "-E", "--expression"}
    [] program \in {"head", "tail"} -> {"-c", "-C", "-n", "-N", "--bytes", "--lines", "--pid"}
    [] program = "cut" -> {"-b", "-B", "-c", "-C", "-d", "-D", "-f", "-F", "--delimiter", "--fields"}
    [] program = "sort" -> {"-k", "-K", "-t", "-T", "--key", "--field-separator"}
    [] program = "uniq" -> {"-f", "-F", "-s", "-S", "-w", "-W", "--skip-fields"}
    [] program = "tree" -> {"--filelimit", "--timefmt"}
    [] program = "pytest" -> {"-k", "-K", "-m", "-M", "--ignore", "--rootdir", "--tb"}
    [] program \in {"jest", "vitest", "eslint"} -> {"-t", "-T", "--coverage-directory"}
    [] program = "ruff" -> {"--select"}
    [] program = "tsc" -> {"--lib", "--module", "--target"}
    [] OTHER -> {}

NamesPath(word) == word.option /\ word.text \in PathValueOptions

(* How many of the next words belong to the words so far, each of which takes  *)
(* as many as it can unless it belongs to another itself.                      *)
Owed(takes) ==
  LET owed[i \in 0 .. Len(takes)] ==
        IF i = 0 THEN 0
        ELSE LET rest == owed[i - 1] IN IF rest > 0 THEN rest - 1 ELSE takes[i]
  IN owed

(* The words that others take last.                                            *)
TakenLast(args, takes) ==
  LET owed == Owed(takes) IN {args[i] : i \in {j \in DOMAIN args : owed[j - 1] = 1}}

(* The words that follow an option that names a path, or carry it after "=".   *)
PathOptionOperands(args) ==
  TakenLast(args, [i \in DOMAIN args |-> IF NamesPath(args[i]) /\ args[i].path = "none" THEN 1 ELSE 0])
  \cup {w \in ElementsOf(args) : NamesPath(w) /\ w.path # "none"}

(* The words behind each output option, even one that is taken by another.     *)
OutputPathOperands(args) ==
  {Nth(args, i + 1) : i \in {j \in DOMAIN args : args[j].option /\ args[j].text \in OutputOptions
                                                /\ args[j].path = "none"}}

HasAmbiguousPathOption(args) ==
  \E i \in DOMAIN args : /\ NamesPath(args[i]) /\ args[i].path = "none"
                         /\ i = Len(args) \/ Nth(args, i + 1).option

(* Everything after "--" is an operand, and before it what is neither an       *)
(* option nor the value of one.                                                *)
Positionals(program, args) ==
  LET valued == ValueOptions(program) \cup (IF program = "rg" THEN {} ELSE PathValueOptions)
      Takes(w) == IF w.option /\ w.text \in valued /\ w.path = "none" THEN 1 ELSE 0
      owed   == Owed([i \in DOMAIN args |-> Takes(args[i])])
      free   == {i \in DOMAIN args : owed[i - 1] = 0}
      ends   == {i \in free : args[i] = EndOfOptions}
      Operand(i) == (i \in free /\ ~args[i].option) \/ \E e \in ends : e < i
      places == SelectSeq([i \in DOMAIN args |-> i], Operand)
  IN [k \in DOMAIN places |-> args[places[k]]]

Behind(s) == IF s = <<>> THEN <<>> ELSE Tail(s)

(* What stands before, and behind, the first word that ends something.         *)
Before(args, ends) ==
  SubSeq(args, 1, IF ends = {} THEN Len(args) ELSE (CHOOSE i \in ends : \A j \in ends : i <= j) - 1)
BehindFirst(args, ends) ==
  IF ends = {} THEN <<>> ELSE SubSeq(args, Len(Before(args, ends)) + 2, Len(args))

(* find takes its roots up to the first word of its expression.                *)
FindRoots(args) ==
  SelectSeq(Before(args, {i \in DOMAIN args : \/ args[i].option /\ args[i].text \notin {"-H", "-L", "-P"}
                                            \/ args[i].text = "!"}),
            LAMBDA w : ~w.option)

JqFiles(args) ==
  LET Takes(w) == CASE w.path # "none" -> 0
                    [] w.text \in {"-f", "--from-file"} -> 1
                    [] w.text \in {"--slurpfile", "--rawfile", "--argfile"} -> 2
                    [] OTHER -> 0
  IN TakenLast(args, [i \in DOMAIN args |-> Takes(args[i])])

CommandPathOperands(program, args) ==
  LET first == Nth(args, 1).text
      all   == Positionals(program, args)
      named == CASE program = "rg" -> IF "--files" \in Texts(args) THEN all ELSE Behind(all)
                 [] program = "jq" -> Behind(all)
                 [] program = "sed" -> IF Texts(args) \cap {"-e", "--expression"} # {}
                                       THEN all ELSE Behind(all)
                 [] program = "git" -> IF first = "show" THEN Positionals(program, Tail(args)) ELSE <<>>
                 [] program = "ruff" -> IF first \in {"check", "format"}
                                        THEN Positionals(program, Tail(args)) ELSE all
                 [] program \in {"npm", "pnpm"} ->
                      Positionals(program, BehindFirst(args, {i \in DOMAIN args : args[i] = EndOfOptions}))
                 [] program = "find" -> FindRoots(args)
                 [] ValueOptions(program) # {} \/ program \in {"cat", "file", "stat", "wc"} -> all
                 [] OTHER -> <<>>
  IN PathOptionOperands(args) \cup ElementsOf(named) \cup (IF program = "jq" THEN JqFiles(args) ELSE {})

SimpleCommandTriggers(c) ==
  LET operands == CommandPathOperands(c.program, c.args)
      class    == Classify(c)
      git      == IF c.program = "git" THEN Nth(c.args, 1).text ELSE ""
      written  == \E w \in ElementsOf(c.args) : w.option /\ w.text \in OutputOptions IN
     (IF written \/ HasAmbiguousPathOption(c.args) THEN {"unknown"} ELSE {})
     \cup (IF \E w \in operands \cup OutputPathOperands(c.args) : w.path = "outside"
           THEN {"scope_expansion", "unknown"} ELSE {})
     \cup (IF \E w \in operands : w.path = "protected" THEN {"secret"} ELSE {})
     \cup (CASE c.program = "open" /\ "https://" \in Texts(c.args) -> {"network"}
             [] git = "send-pack" -> {"remote_write", "network"}
             [] git = "ls-remote" -> {"network"}
             [] IsKnownVerificationCommand(c) -> {}
             [] class = Unknown -> {"unknown"}
             [] OTHER -> CommandClassTriggers(class))

(* A line that is not one plain command is unknown, and whatever the commands  *)
(* it is made of are besides.                                                  *)
PlannedCommandTriggers(line) ==
  IF Len(line.commands) = 1 /\ line.kind = "plain" THEN SimpleCommandTriggers(line.commands[1])
  ELSE {"unknown"} \cup (IF Len(line.commands) = 1 THEN {}
                         ELSE UNION {SimpleCommandTriggers(c) : c \in ElementsOf(line.commands)})

-----------------------------------------------------------------------------
(* The effects a task and its plans state *)

Fields == {"summary", "intendedBehavior", "dataChanges", "permissionChanges", "dependencyChanges",
           "externalEffects", "publicApiChanges", "compatibilityImpacts", "unknowns"}

(* What one statement of a plan asks about.                                    *)
StatementTriggers(field, text) ==
  LET said == MatchingTriggers(text)
      Or(known, otherwise) == IF said \cap known = {} THEN said \cup {otherwise} ELSE said IN
  CASE field \in {"summary", "intendedBehavior", "publicApiChanges"} -> said
    [] field = "unknowns" -> {"unknown"}
    [] OTHER ->
         IF text.none THEN {} ELSE
         CASE field = "dataChanges" -> Or({"destructive_data", "migration"}, "persistent_data")
           [] field = "permissionChanges" -> Or({"authentication", "secret", "permission"}, "permission")
           [] field = "externalEffects" -> Or(Triggers, "unknown")
           [] field = "dependencyChanges" -> {"dependency"}
           [] OTHER -> {"compatibility"}

(* An effect is a trigger with the words it was met in and where; effects of   *)
(* one key are put as one question.  Words are a text or the name of a file.   *)
Words(text) == <<"text", text>>
AllImpacts == <<"all">>
Effect(trigger, shown, same, plan, where) ==
  [key |-> <<trigger, same>>, shown |-> shown, components |-> plan.components,
   ref |-> <<plan.probeId, where>>]
Plain(trigger, words, plan, where) == Effect(trigger, words, words, plan, where)

NoPlan(source) == [probeId |-> source, components |-> {}]

TaskEffects(task) ==
  {Effect(t, Words(task.shown), Words(task.same), NoPlan("task"), <<"normalized">>)
   : t \in MatchingTaskTriggers(task)}

StatementEffects(plan) ==
  UNION {LET s == plan.statements[i]
             key == IF s.field = "compatibilityImpacts" THEN AllImpacts ELSE Words(s.text.same) IN
         {Effect(t, Words(s.text.shown), key, plan, <<s.field, i>>)
          : t \in StatementTriggers(s.field, s.text)}
         : i \in DOMAIN plan.statements}

CommandEffects(plan) ==
  UNION {{Plain(t, Words(plan.commands[i].shown), plan, <<"commands", i>>)
          : t \in PlannedCommandTriggers(plan.commands[i])} : i \in DOMAIN plan.commands}

FileEffects(plan) ==
  {Plain("secret", <<"file", f>>, plan, <<"filesToChange", f>>)
   : f \in {g \in plan.files : IsSecretLikePath(g)}}

ReversibilityEffects(plan) ==
  {Plain(IF plan.reversibility = "unknown" THEN "unknown" ELSE "irreversible",
         Words(plan.reversibility), plan, <<"reversibility">>)
   : r \in {plan.reversibility} \ {"reversible"}}

PlanEffects(plan) ==
  StatementEffects(plan) \cup CommandEffects(plan) \cup FileEffects(plan) \cup ReversibilityEffects(plan)

Effects(task, plans) ==
  TaskEffects(task) \cup UNION {PlanEffects(p) : p \in plans}
  \cup (IF plans = {} THEN {Plain("unknown", Words("no plans"), NoPlan("policy"), <<"plans">>)}
        ELSE {})

(* evaluateDeterministicPolicy: the effects of a key together, named by their  *)
(* trigger and their words.                                                    *)
Blocker(effects) ==
  LET trigger == (CHOOSE e \in effects : TRUE).key[1]
      details == {e.shown : e \in effects} IN
  [blockerId |-> <<trigger, details>>, trigger |-> trigger, details |-> details,
   category |-> Rules[trigger].category, impact |-> Rules[trigger].impact,
   affectedComponents |-> UNION {e.components : e \in effects},
   evidenceRefs |-> {e.ref : e \in effects}]

EvaluateDeterministicPolicy(task, plans) ==
  LET effects == Effects(task, plans) IN
  {Blocker({e \in effects : e.key = key}) : key \in {e.key : e \in effects}}
=============================================================================
