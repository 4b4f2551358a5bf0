------------------------------ MODULE MC_Boundary ------------------------------
EXTENDS Boundary

A == <<<<"s">>, <<"a">>>>
B == <<<<"s">>, <<"b">>>>
E == <<<<".env">>>>
O == <<<<"o">>>>
L == <<<<"l">>>>

Says(trigger, for, at, end, around) ==
  [pattern |-> [for |-> for, trigger |-> trigger], at |-> at, end |-> end, around |-> around]
T(shown, says) == [shown |-> shown, same |-> shown, none |-> FALSE, says |-> says]

Calm == T("calm", {})
(* "document how to deploy, then deploy": the first hides the second.          *)
Deploys == T("deploys", {Says("deploy_release_publish", "task", 1, 9, {"documented"}),
                         Says("deploy_release_publish", "task", 5, 9, {})})
Drops == T("drops", {Says("destructive_data", "plan", 1, 3, {"not_before", "own_clause"}),
                     Says("migration", "plan", 4, 6, {"not_before"})})
Compat == T("compat", {Says("compatibility", "plan", 0, 2, {})})

S(field, text) == [field |-> field, text |-> text]
Test == Line("npm test", <<[program |-> "npm", args |-> <<Arg("test")>>]>>, "plain")
Install == Line("npm ci", <<[program |-> "npm", args |-> <<Arg("ci")>>]>>, "plain")
Lint == Line("pnpm lint", <<[program |-> "pnpm", args |-> <<Arg("lint")>>]>>, "plain")

P(id, statements, files, commands) ==
  [probeId |-> id, statements |-> statements, files |-> files, commands |-> commands,
   components |-> {}, reversibility |-> "reversible"]

Review(task, plans, divergences) ==
  [task |-> task, plans |-> plans, divergences |-> divergences, unknowns |-> {}, degraded |-> FALSE]

(* The three reviews: a task that hides what it asks for; plans that differ,   *)
(* two of which word an effect alike; a change of data that says more than it  *)
(* is asked for, with a check that will not be let through.                    *)
Agreeing == {P("p1", <<S("summary", Calm)>>, {A, <<<<"s">>, <<"*">>>>}, <<Test>>),
             P("p2", <<S("summary", Calm)>>, {A}, <<Test>>)}
Differing == {P("p1", <<S("summary", Compat)>>, {A}, <<Test>>),
              P("p2", <<S("compatibilityImpacts", Compat)>>, {B}, <<>>)}
Alone == {P("p1", <<S("dataChanges", Drops)>>, {<<AnySegments>>}, <<Lint>>)}
Choice == [subject |-> "d", category |-> "scope",
           alternatives |-> {Option("one", {"p1"}), Option("two", {"p2"})}]

MCReviews == {Review(Deploys, Agreeing, {}), Review(Calm, Differing, {Choice}), Review(Calm, Alone, {})}
MCChoices == {"deny", "one", Freeform}

(* The agent reaches A by a link.                                              *)
MCPaths == {A, E, O}
MCNames == {L, E}
MCRequest == [n \in MCNames \cup MCPaths |->
                [requested |-> n, resolved |-> IF n = L THEN A ELSE n, ambiguous |-> FALSE]]
MCRoot == <<>>
MCBaseline == {A}
MCIgnored == {O}
Action(line, path, type) == [line |-> line, path |-> path, type |-> type]
MCCommands == {[cwd |-> MCRoot, actions |-> <<Action(Test, MCRoot, "read")>>],
               [cwd |-> MCRoot, actions |-> <<Action(Test, A, "read"), Action(Install, MCRoot, "read")>>],
               [cwd |-> MCRoot, actions |-> <<Action(Test, MCRoot, "unknown")>>],
               [cwd |-> E, actions |-> <<Action(Test, MCRoot, "read")>>]}

Strings(chars, n) == UNION {[1 .. k -> chars] : k \in 1 .. n}
(* All segments of up to three letters over two, patterns of up to four        *)
(* characters, and both in paths of up to two segments.                        *)
MCSamples ==
  {[paths |-> {<<v>> : v \in Strings({"a", "b"}, 3)},
    patterns |-> {<<p>> : p \in Strings({"a", "b", "*"}, 4)}],
   [paths |-> Strings(Strings({"a"}, 2), 2),
    patterns |-> Strings(Strings({"a", "*"}, 2) \cup {AnySegments}, 3)]}
=============================================================================
