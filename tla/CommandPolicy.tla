---------------------------- MODULE CommandPolicy ----------------------------
(***************************************************************************)
(* packages/policy/src/command-policy.ts: the class of a command, and       *)
(* whether a contract lets a request of several commands through.  Planning *)
(* (PlanPolicy) and execution (ContractGate) both decide by this class.     *)
(*                                                                          *)
(* A command is a program and its words.  A word is an option or a          *)
(* positional argument; what it stands for as a path, if anything, is in    *)
(* "path".  Programs, subcommands and scripts are plain names in lower case *)
(* already; options keep their case.                                        *)
(***************************************************************************)
EXTENDS Naturals, Sequences, FiniteSets

CommandClass ==
  {"static_read", "git_read", "test", "lint", "typecheck", "build", "verification",
   "file_write", "git_write", "dependency", "network", "remote_write", "destructive",
   "permission", "secret_access", "migration", "deploy", "release", "interpreter"}

(* Where a word points when it is taken for a path; "none" when it cannot be.  *)
PathKind == {"none", "inside", "outside", "protected"}

Word == [option : BOOLEAN, text : STRING, path : PathKind]

Arg(text)       == [option |-> FALSE, text |-> text, path |-> "none"]
File(kind)      == [option |-> FALSE, text |-> "file", path |-> kind]
Opt(name)       == [option |-> TRUE, text |-> name, path |-> "none"]
OptFor(name, p) == [option |-> TRUE, text |-> name, path |-> p]  \* --name=path
EndOfOptions    == Opt("--")

NoWord == Arg("")
Nth(args, i) == IF i \in DOMAIN args THEN args[i] ELSE NoWord
Texts(args) == {args[i].text : i \in DOMAIN args}
Options(args) == {args[i].text : i \in {j \in DOMAIN args : args[j].option}}

Programs ==
  [static_read   |-> {"cat", "cut", "echo", "file", "find", "head", "jq", "ls", "pwd", "rg",
                      "sort", "stat", "tail", "tr", "tree", "uniq", "wc"},
   test          |-> {"jest", "node:test", "pytest", "vitest"},
   lint          |-> {"eslint", "pylint", "ruff", "shellcheck"},
   typecheck     |-> {"mypy", "pyright", "tsc"},
   interpreter   |-> {"bun", "deno", "node", "perl", "php", "python", "python3", "ruby"},
   remote_write  |-> {"ftp", "nc", "scp", "sftp", "ssh"},
   deploy        |-> {"ansible", "flyctl", "gcloud", "helm", "kubectl", "netlify", "pulumi",
                      "serverless", "terraform", "vercel"},
   migration     |-> {"alembic", "flyway", "liquibase"},
   file_write    |-> {"cp", "install", "mkdir", "mv", "tee", "touch"},
   permission    |-> {"chmod", "chown", "chgrp", "sudo"},
   secret_access |-> {"env", "keychain", "printenv", "security"},
   destructive   |-> {"rm"}]

Shells == {"bash", "dash", "fish", "sh", "zsh"}
BuildPrograms == {"cargo", "go", "gradle", "mvn", "xcodebuild"}
ControlTokens == {"&&", "||", ";", "|", "&"}

Unknown == "unknown"

-----------------------------------------------------------------------------
(* The programs whose class depends on their words *)

(* sed prints the lines it is asked for, and nothing else.                     *)
SedClass(args) ==
  LET quiet  == IF Nth(args, 1).text \in {"-n", "--quiet", "--silent"} THEN 1 ELSE 0
      script == IF Nth(args, quiet + 1).text = "-e" THEN quiet + 2 ELSE quiet + 1 IN
  IF /\ Nth(args, script).text = "1,20p" /\ Len(args) > script
     /\ \A i \in script + 1 .. Len(args) : ~args[i].option
  THEN "static_read" ELSE Unknown

(* A script is known by the first of these names that its own name contains.   *)
ScriptClass(name) ==
  CASE name = "lint" -> "lint"  [] name = "typecheck" -> "typecheck"  [] name = "build" -> "build"
    [] name = "test" -> "test"  [] name = "check" -> "verification"  [] OTHER -> Unknown

PackageManagerClass(program, args) ==
  LET command == Nth(args, 1).text
      child   == Nth(args, 2).text IN
  CASE program \in {"npm", "pnpm", "yarn"} ->
         (CASE command = "test" -> "test"
            [] command \in {"publish", "pack"} -> "release"
            [] command \in {"add", "ci", "install", "remove", "uninstall", "update", "upgrade"} ->
                 "dependency"
            [] command = "run" -> ScriptClass(child)
            [] OTHER -> Unknown)
    [] program = "uv" ->
         (CASE command \in {"add", "remove", "sync"} -> "dependency"
            [] command = "publish" -> "release"
            [] command = "run" ->
                 (CASE child = "pytest" -> "test"  [] child = "ruff" -> "lint"
                    [] child \in {"mypy", "pyright"} -> "typecheck"  [] OTHER -> "interpreter")
            [] OTHER -> Unknown)
    [] OTHER -> Unknown

GitClass(args) ==
  LET command == Nth(args, 1).text IN
  CASE Texts(args) \cap {"--ext-diff", "--textconv"} # {} -> Unknown
    [] "--output" \in Texts(args) -> "file_write"
    [] command \in {"diff", "log", "rev-parse", "show", "status", "ls-files", "ls-tree"} -> "git_read"
    [] command = "branch" -> IF Texts(Tail(args)) \subseteq {"--show-current"} /\ Len(args) <= 2
                             THEN "git_read" ELSE Unknown
    [] command = "push" -> "remote_write"
    [] command \in {"clone", "fetch", "pull"} -> "network"
    [] command \in {"clean", "reset"} -> "destructive"
    [] command \in {"commit", "tag", "add", "am", "apply", "checkout", "merge", "rebase",
                    "restore", "switch", "worktree"} -> "git_write"
    [] OTHER -> Unknown

(* The places of the options of these names.                                   *)
OptionPlaces(args, names) == {i \in DOMAIN args : args[i].option /\ args[i].text \in names}

(* gh: the method that the last of these words gives; a field makes it POST.   *)
MethodOf(args) ==
  LET fields == {"--input", "-f", "-F", "--field", "--raw-field"}
      giving == OptionPlaces(args, fields \cup {"-X", "--method"}) IN
  IF giving = {} THEN "get"
  ELSE LET last == CHOOSE i \in giving : \A j \in giving : j <= i IN
       IF args[last].text \in fields THEN "post" ELSE Nth(args, last + 1).text

GitHubClass(args) ==
  LET area == Nth(args, 1).text
      method == MethodOf(args) IN
  CASE area = "api" ->
         (CASE method = "" -> Unknown  [] method = "get" -> "network"  [] OTHER -> "remote_write")
    [] area \in {"auth", "secret", "variable"} -> "secret_access"
    [] area \in {"issue", "pr", "release", "repo", "workflow"}
         /\ Nth(args, 2).text \in {"close", "comment", "create", "delete", "edit", "merge", "ready",
                                   "reopen", "review", "run", "upload"} -> "remote_write"
    [] area \in {"browse", "issue", "pr", "repo", "run", "search", "workflow"} -> "network"
    [] OTHER -> Unknown

MakeClass(args) ==
  LET targets == {i \in DOMAIN args : ~args[i].option} IN
  IF Cardinality(targets) # 1 THEN Unknown
  ELSE ScriptClass(args[CHOOSE i \in targets : TRUE].text)

(* curl: what it sends, or the method that the first of these words names.  The*)
(* options that send are compared without regard to case.                      *)
CurlSends == {"-d", "-D", "-f", "-F", "-t", "-T", "-XPOST", "--data", "--form", "--json",
              "--request=POST", "--upload-file"}

CurlClass(args) ==
  LET naming == OptionPlaces(args, {"-X", "--request"})
      named  == {Nth(args, i + 1).text : i \in {j \in naming : \A k \in naming : j <= k}} IN
  IF Options(args) \cap CurlSends # {} \/ ~(named \subseteq {"get", "head", ""})
  THEN "remote_write" ELSE "network"

BuildToolClass(args) ==
  CASE Nth(args, 1).text = "test" -> "test"  [] Nth(args, 1).text = "check" -> "verification"
    [] Nth(args, 1).text = "build" -> "build"  [] OTHER -> Unknown

(* Some words of find, sort and rg make them write, or run other programs.     *)
WrittenBy(program, args) ==
  CASE program = "find" -> Options(args) \cap {"-delete", "-fls", "-fprint"} # {}
    [] program = "sort" -> Options(args) \cap {"-o", "--output"} # {}
    [] OTHER -> FALSE

RunsOthers(program, args) ==
  CASE program = "find" -> Options(args) \cap {"-exec", "-execdir", "-ok", "-okdir"} # {}
    [] program = "rg" -> Options(args) \cap {"--pre", "--pre-glob"} # {}
    [] OTHER -> program \in Shells

Classify(command) ==
  LET program == command.program
      args    == command.args IN
  CASE program = "" \/ Texts(args) \cap ControlTokens # {} -> Unknown
    [] RunsOthers(program, args) -> Unknown
    [] WrittenBy(program, args) -> "file_write"
    [] program = "sed" -> SedClass(args)
    [] program = "curl" -> CurlClass(args)
    [] program = "wget" -> IF Options(args) \cap {"--post-data", "--post-file"} # {}
                           THEN "remote_write" ELSE "network"
    [] program = "git" -> GitClass(args)
    [] program = "gh" -> GitHubClass(args)
    [] program = "make" -> MakeClass(args)
    [] program = "prisma" -> IF Nth(args, 1).text = "migrate" THEN "migration" ELSE Unknown
    [] program \in BuildPrograms -> BuildToolClass(args)
    [] \E class \in DOMAIN Programs : program \in Programs[class] ->
         CHOOSE class \in DOMAIN Programs : program \in Programs[class]
    [] OTHER -> PackageManagerClass(program, args)

(* matchCommandRequest: every command of the request is known, of no denied    *)
(* class and of an allowed one.  The classes a contract names are well formed, *)
(* and every request comes with its commands apart.                            *)
MatchCommandRequest(commands, allowed, denied) ==
  LET classes == {Classify(commands[i]) : i \in DOMAIN commands} IN
  CASE commands = <<>> -> "empty_command"
    [] Unknown \in classes -> "unknown_command"
    [] classes \cap denied # {} -> "command_class_denied"
    [] ~(classes \subseteq allowed) -> "command_class_not_allowed"
    [] OTHER -> "command_allowed"
=============================================================================
