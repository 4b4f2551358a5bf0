------------------------------- MODULE Checkout -------------------------------
(***************************************************************************)
(* The source checkout while PromptTripwire reads it and a person works in  *)
(* it: prepareRepositorySnapshot (git-snapshot/src/snapshot-service.ts), the*)
(* creation of a disposable worktree from the prepared snapshot, and its    *)
(* removal (worktrees.ts).  Nothing locks the checkout: a snapshot is read  *)
(* piece by piece and compared with a second look at the end.               *)
(*                                                                         *)
(* The checkout is a commit and working files, each a function from Files to*)
(* the number of the edit that wrote the file.  Numbers only grow: an edit  *)
(* that brings back exactly what a file held before is not in the model, and*)
(* the double look could not see it.  One file, "rules", stands for the     *)
(* instruction and configuration files that are hashed on their own; the    *)
(* branch, submodules, model and versions are left out.                     *)
(***************************************************************************)
EXTENDS Integers, FiniteSets

CONSTANTS
  Modes,     \* contentMode, of "committed_only", "include_patch"
  Kinds,     \* WorktreeKind, of "probe", "execution"
  MaxEdits   \* bound: edits of a person

Files == {"code", "rules"}

ASSUME CheckoutAssumption ==
  /\ Modes \subseteq {"committed_only", "include_patch"}
  /\ Kinds \subseteq {"probe", "execution"} /\ MaxEdits \in Nat

VARIABLES
  head,      \* the files of the commit HEAD points to
  work,      \* the working files
  edits,     \* the number of the last edit
  moments,   \* the pairs of head and work since the present reading began
  mode,      \* contentMode of the snapshot
  kind,      \* what the worktree is for
  stage,     \* how far the operation is
  todo,      \* what is still to be read in this stage
  seen,      \* what has been read
  prepared,  \* the approved snapshot
  before,    \* captureOriginalCheckoutState when the creation or cleanup began
  failure,   \* why a creation under way will fail, or "none"
  disk,      \* what is there of the worktree
  outcome    \* how the operation ended

sourceVars  == <<head, work, edits, moments>>
readingVars == <<todo, seen>>
treeVars    == <<before, failure, disk>>
vars == <<sourceVars, mode, kind, stage, readingVars, prepared, treeVars, outcome>>

Version == 0 .. MaxEdits
Content == [Files -> Version]
Blank   == [f \in Files |-> 0]

(* The reads of prepareWithParameters.  Those of one set run concurrently.     *)
ReadsOf == [inspect     |-> {"commit", "status"},
            fingerprint |-> {"code1", "rules1"},
            patch       |-> {"codeP", "rulesP"},
            hash        |-> {"rulesH"},
            recheck     |-> {"commit2", "status2", "code2", "rules2"}]
After   == [inspect |-> "fingerprint", fingerprint |-> "patch", patch |-> "hash",
            hash |-> "recheck", recheck |-> "compare"]
Reading == DOMAIN ReadsOf
Stage   == Reading \cup {"compare", "ready", "capture", "add", "apply", "verify",
                         "undo", "recover", "held", "removing", "deleting", "emptying",
                         "checking", "ended"}

Unread  == [commit |-> Blank, commit2 |-> Blank, status |-> {}, status2 |-> {},
            code1 |-> 0, rules1 |-> 0, code2 |-> 0, rules2 |-> 0,
            codeP |-> 0, rulesP |-> 0, rulesH |-> 0]
Nothing == [root |-> FALSE, tree |-> FALSE, branch |-> FALSE, content |-> Blank]
NoSnapshot == [commit |-> Blank, content |-> Blank, rules |-> -1]

State == <<head, work>>
Dirty == {f \in Files : head[f] # work[f]}

Init ==
  /\ head = Blank /\ work = Blank /\ edits = 0 /\ moments = {State}
  /\ mode \in Modes /\ kind \in Kinds
  /\ stage = "inspect" /\ todo = ReadsOf.inspect /\ seen = Unread
  /\ prepared = NoSnapshot
  /\ before = State /\ failure = "none" /\ disk = Nothing /\ outcome = "none"

-----------------------------------------------------------------------------
(* The person: edits a file, or commits what is there.                         *)

Changes(h, w) ==
  /\ head' = h /\ work' = w
  /\ moments' = moments \cup {<<h, w>>}

Edit(f) ==
  /\ edits < MaxEdits
  /\ edits' = edits + 1
  /\ Changes(head, [work EXCEPT ![f] = edits + 1])
  /\ UNCHANGED <<mode, kind, stage, readingVars, prepared, treeVars, outcome>>

Commit ==
  /\ Dirty # {}
  /\ Changes(work, work)
  /\ UNCHANGED <<edits, mode, kind, stage, readingVars, prepared, treeVars, outcome>>

-----------------------------------------------------------------------------
(* Reading a snapshot.                                                         *)

Holds(x) ==
  CASE x \in {"commit", "commit2"} -> head
    [] x \in {"status", "status2"} -> Dirty
    [] x \in {"code1", "code2", "codeP"} -> work["code"]
    [] x \in {"rules1", "rules2", "rulesP"} -> work["rules"]
    [] x = "rulesH" -> IF mode = "include_patch" THEN work["rules"] ELSE seen.commit["rules"]

Read(x) ==
  /\ stage \in Reading /\ x \in todo
  /\ seen' = [seen EXCEPT ![x] = Holds(x)]
  /\ todo' = IF todo = {x} /\ After[stage] \in Reading THEN ReadsOf[After[stage]] ELSE todo \ {x}
  /\ stage' = IF todo = {x} THEN After[stage] ELSE stage
  /\ UNCHANGED <<sourceVars, mode, kind, prepared, treeVars, outcome>>

(* approvedPatch: the working files as a patch on the inspected commit, unless *)
(* only commits count or the inspection saw no change.                         *)
Patched == mode = "include_patch" /\ seen.status # {}

Snapshot ==
  [commit  |-> seen.commit,
   content |-> IF Patched THEN [f \in Files |-> IF f = "code" THEN seen.codeP ELSE seen.rulesP]
               ELSE seen.commit,
   rules   |-> seen.rulesH]

(* Mutant of Unmoved: the files are looked at again, the repository is not.    *)
FilesUnmoved == seen.code1 = seen.code2 /\ seen.rules1 = seen.rules2

(* The second look shows the files and the state of the repository unchanged.  *)
Unmoved ==
  /\ seen.code1 = seen.code2 /\ seen.rules1 = seen.rules2
  /\ seen.commit = seen.commit2 /\ seen.status = seen.status2

(* Mutant of Fresh: only the commit has to be the approved one.                *)
SameCommit == Snapshot.commit = prepared.commit

(* checkPreparedSnapshot: a snapshot taken now hashes to the approved one.     *)
Fresh == Snapshot = prepared

End(how) == stage' = "ended" /\ outcome' = how

(* The first reading yields the snapshot; a later one decides whether the      *)
(* worktree may be created.                                                    *)
Compare ==
  /\ stage = "compare"
  /\ seen' = Unread
  /\ IF ~Unmoved
     THEN End("source_changed") /\ UNCHANGED prepared
     ELSE IF prepared = NoSnapshot
     THEN prepared' = Snapshot /\ stage' = "ready" /\ UNCHANGED outcome
     ELSE /\ IF Fresh THEN stage' = "capture" /\ UNCHANGED outcome ELSE End("stale")
          /\ UNCHANGED prepared
  /\ UNCHANGED <<sourceVars, mode, kind, todo, treeVars>>

-----------------------------------------------------------------------------
(* createDisposableWorktree.                                                   *)

BeginCreation ==
  /\ stage = "ready"
  /\ stage' = "inspect" /\ todo' = ReadsOf.inspect
  /\ moments' = {State}
  /\ UNCHANGED <<head, work, edits, mode, kind, seen, prepared, treeVars, outcome>>

(* The state of the checkout is captured and the temporary root made.          *)
Capture ==
  /\ stage = "capture" /\ failure = "none" /\ disk = Nothing
  /\ before' = State
  /\ disk' = [disk EXCEPT !.root = TRUE]
  /\ stage' = "add"
  /\ UNCHANGED <<sourceVars, mode, kind, readingVars, prepared, failure, outcome>>

(* git worktree add, at the approved commit and for an execution on a new      *)
(* branch, which git makes first: one that fails or is killed may leave it.    *)
(* What it leaves in the root goes with the root, and git prunes its own entry.*)
AddTree ==
  /\ stage = "add"
  /\ \/ /\ disk' = [disk EXCEPT !.tree = TRUE, !.branch = (kind = "execution"),
                                !.content = prepared.commit]
        /\ stage' = "apply" /\ UNCHANGED failure
     \/ /\ \E made \in {FALSE, kind = "execution"} : disk' = [disk EXCEPT !.branch = made]
        /\ failure' = "git" /\ stage' = "undo"
  /\ UNCHANGED <<sourceVars, mode, kind, readingVars, prepared, before, outcome>>

(* applyApprovedPatch with its verification, and materializeSubmodules.  Each  *)
(* failure has a code of its own, but for a git diff that does not run.        *)
ApplyPatch ==
  /\ stage = "apply"
  /\ \/ /\ disk' = [disk EXCEPT !.content = prepared.content]
        /\ stage' = "verify" /\ UNCHANGED failure
     \/ failure' \in {"git", "apply"} /\ stage' = "undo" /\ UNCHANGED disk
  /\ UNCHANGED <<sourceVars, mode, kind, readingVars, prepared, before, outcome>>

(* The checkout must be as it was when the creation began.                     *)
Verify ==
  /\ stage = "verify"
  /\ IF before = State
     THEN stage' = "held" /\ UNCHANGED failure
     ELSE stage' = "undo" /\ failure' = "source_changed"
  /\ UNCHANGED <<sourceVars, mode, kind, readingVars, prepared, before, disk, outcome>>

-----------------------------------------------------------------------------
(* cleanupInternal, alone or to undo a creation that failed.                   *)

(* An undone creation remembers what went wrong and that its cleanup failed.   *)
Undoing == failure # "none"
Note(step) == IF Undoing THEN "cleanup" ELSE step

(* A creation that added no worktree removes only the temporary root, and does *)
(* not look for a branch.                                                      *)
Undo ==
  /\ stage = "undo"
  /\ stage' = IF disk.tree THEN "removing" ELSE "emptying"
  /\ UNCHANGED <<sourceVars, mode, kind, readingVars, prepared, treeVars, outcome>>

(* The caller is done with the worktree.                                       *)
Release ==
  /\ stage = "held" /\ stage' = "removing"
  /\ before' = State
  /\ UNCHANGED <<sourceVars, mode, kind, readingVars, prepared, failure, disk, outcome>>

Fails(step, next) ==
  /\ outcome' = Note(step) /\ stage' = next /\ UNCHANGED disk

RemoveTree ==
  /\ stage = "removing"
  /\ \/ disk' = [disk EXCEPT !.tree = FALSE] /\ stage' = "deleting" /\ UNCHANGED outcome
     \/ Fails("worktree_remove", "checking")
  /\ UNCHANGED <<sourceVars, mode, kind, readingVars, prepared, before, failure>>

DeleteBranch ==
  /\ stage = "deleting"
  /\ \/ disk' = [disk EXCEPT !.branch = FALSE] /\ stage' = "emptying" /\ UNCHANGED outcome
     \/ disk.branch /\ Fails("branch_delete", "emptying")
  /\ UNCHANGED <<sourceVars, mode, kind, readingVars, prepared, before, failure>>

RemoveRoot ==
  /\ stage = "emptying"
  /\ \/ disk' = [disk EXCEPT !.root = FALSE] /\ stage' = "checking" /\ UNCHANGED outcome
     \/ Fails("temporary_root_remove", "checking")
  /\ UNCHANGED <<sourceVars, mode, kind, readingVars, prepared, before, failure>>

(* Mutant of Verdict: the reason of the failure is given before its cleanup.   *)
CauseFirst == IF Undoing THEN failure ELSE IF outcome # "none" THEN outcome ELSE
              IF before # State THEN "source_verify" ELSE "removed"

(* What the caller is told.  A failed creation reports first that the checkout *)
(* changed, then that its cleanup failed, then why it failed.                  *)
Verdict ==
  CASE Undoing /\ before # State -> "source_changed"
    [] Undoing /\ before = State -> IF outcome # "none" THEN outcome ELSE failure
    [] ~Undoing /\ outcome # "none" -> outcome
    [] ~Undoing /\ outcome = "none" -> IF before # State THEN "source_verify" ELSE "removed"

CheckSource ==
  /\ stage = "checking" /\ End(Verdict)
  /\ UNCHANGED <<sourceVars, mode, kind, readingVars, prepared, treeVars>>

Next ==
  \/ \E f \in Files : Edit(f)
  \/ Commit
  \/ \E x \in DOMAIN Unread : Read(x)
  \/ Compare \/ BeginCreation \/ Capture \/ AddTree \/ ApplyPatch \/ Verify
  \/ Undo \/ Release \/ RemoveTree \/ DeleteBranch \/ RemoveRoot \/ CheckSource

Spec == Init /\ [][Next]_vars

-----------------------------------------------------------------------------
(* Properties.                                                                 *)

TypeOK ==
  /\ head \in Content /\ work \in Content /\ edits \in Version
  /\ mode \in Modes /\ kind \in Kinds /\ stage \in Stage
  /\ todo \subseteq DOMAIN Unread /\ (stage \in Reading => todo \subseteq ReadsOf[stage] /\ todo # {})
  /\ moments \subseteq Content \X Content /\ State \in moments /\ before \in Content \X Content
  /\ seen \in [commit : Content, commit2 : Content, status : SUBSET Files, status2 : SUBSET Files,
               code1 : Version, rules1 : Version, code2 : Version, rules2 : Version,
               codeP : Version, rulesP : Version, rulesH : Version]
  /\ prepared \in [commit : Content, content : Content, rules : Version \cup {-1}]
  /\ disk \in [root : BOOLEAN, tree : BOOLEAN, branch : BOOLEAN, content : Content]
  /\ failure \in {"none", "git", "apply", "source_changed"}
  /\ outcome \in {"none", "source_changed", "stale", "git", "apply", "cleanup", "worktree_remove",
                  "branch_delete", "temporary_root_remove", "source_verify", "removed"}

(* What the snapshot says was true of the checkout in one moment m.            *)
Describes(m) ==
  /\ m[1] = prepared.commit
  /\ mode = "include_patch" => m[2] = prepared.content
  /\ prepared.rules = prepared.content["rules"]

(* A snapshot with a patch is never torn: its commit, its patch and its        *)
(* instructions stood together in one moment.  (prepareWithParameters)         *)
PatchIsOneMoment ==
  stage = "ready" /\ prepared.content # prepared.commit => \E m \in moments : Describes(m)

(* A worktree that is handed over holds what was approved, its instructions    *)
(* included, and the checkout still was as approved when its creation was under*)
(* way (createDisposableWorktree, checkPreparedSnapshot).                      *)
HandedOverAsApproved ==
  stage = "held" =>
    /\ disk.content = prepared.content
    /\ \E m \in moments : Describes(m)

(* What is reported where no cleanup failed and the checkout stood still.      *)
SaidClean == {"git", "apply", "stale", "removed", "source_verify"}

(* Whoever is told neither that a cleanup failed nor that the checkout changed *)
(* has no directory and no worktree left over, and no branch either, but for   *)
(* one case: a plain git error of an execution, whose git worktree add may have*)
(* made the branch that the undoing does not look for.  A removal that names   *)
(* its first failed step is right about it (createDisposableWorktree,          *)
(* cleanupInternal).                                                           *)
LeftoversAreNamed ==
  /\ stage = "ended" /\ outcome \in SaidClean =>
       /\ ~disk.root /\ ~disk.tree
       /\ disk.branch => outcome = "git" /\ kind = "execution"
  /\ outcome = "worktree_remove" => disk.tree
=============================================================================
