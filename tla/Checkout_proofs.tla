---------------------------- MODULE Checkout_proofs ----------------------------
(***************************************************************************)
(* Proofs about Checkout, for any number of edits: what is read in pieces    *)
(* and found unmoved was there in one moment, because a file never goes back *)
(* to an earlier edit.  Each piece is therefore bounded from below by what   *)
(* was read before it and from above by what is read after it.               *)
(***************************************************************************)
EXTENDS Checkout, TLAPS

-----------------------------------------------------------------------------
(* The inductive invariant *)

Leq(a, b) == \A f \in Files : a[f] <= b[f]

(* Edits and commits only go forward, and every moment lies in the past.       *)
SourceOK ==
  /\ Leq(head, work) /\ \A f \in Files : work[f] <= edits
  /\ \A m \in moments : Leq(m[1], head) /\ Leq(m[2], work)

(* What has been read once a stage is over, or while it lasts.                 *)
ReachedAt(s) ==
  CASE s = "inspect"     -> {"commit", "status"}
    [] s = "fingerprint" -> {"commit", "status", "code1", "rules1"}
    [] s = "patch"       -> {"commit", "status", "code1", "rules1", "codeP", "rulesP"}
    [] s = "hash"        -> {"commit", "status", "code1", "rules1", "codeP", "rulesP", "rulesH"}
    [] s \in {"recheck", "compare"} -> DOMAIN Unread

Underway == Reading \cup {"compare"}
Done(x)  == stage \in Underway /\ x \in ReachedAt(stage) /\ x \notin todo

(* No piece is ahead of the checkout.                                          *)
PiecesOK ==
  /\ stage \in {"compare", "ready"} => todo = {}
  /\ Leq(seen.commit, head) /\ Leq(seen.commit2, head)
  /\ \A x \in {"code1", "code2", "codeP"} : seen[x] <= work["code"]
  /\ \A x \in {"rules1", "rules2", "rulesP", "rulesH"} : seen[x] <= work["rules"]
  /\ Done("rulesH") => seen.commit["rules"] <= seen.rulesH
  /\ Done("rulesH") /\ mode # "include_patch" => seen.rulesH = seen.commit["rules"]

(* A moment m between the fingerprint and everything that is read after it.    *)
Between(m) ==
  /\ Leq(seen.commit, m[1]) /\ seen.code1 <= m[2]["code"] /\ seen.rules1 <= m[2]["rules"]
  /\ Done("codeP") => m[2]["code"] <= seen.codeP
  /\ Done("rulesP") => m[2]["rules"] <= seen.rulesP
  /\ Done("rulesH") /\ mode = "include_patch" => m[2]["rules"] <= seen.rulesH
  /\ Done("commit2") => Leq(m[1], seen.commit2)
  /\ Done("code2") => seen.codeP <= seen.code2
  /\ Done("rules2") => seen.rulesP <= seen.rules2
  /\ Done("rules2") /\ mode = "include_patch" => seen.rulesH <= seen.rules2

MomentOK ==
  stage \in {"patch", "hash", "recheck", "compare"} => \E m \in moments : Between(m)

(* A moment m in which a creation, asking for the status, found no changes.    *)
Clean(m) ==
  /\ m[1] = m[2] /\ Leq(prepared.commit, m[1]) /\ prepared.rules <= m[2]["rules"]
  /\ Done("commit2") => Leq(m[1], seen.commit2)

CleanOK ==
  Done("status") /\ seen.status = {} /\ prepared # NoSnapshot => \E m \in moments : Clean(m)

(* The approved snapshot is not ahead of the checkout either, and a worktree   *)
(* is only created while it describes a moment of the reading before.          *)
SnapshotOK ==
  /\ prepared # NoSnapshot =>
       /\ Leq(prepared.commit, head)
       /\ prepared.commit["rules"] <= prepared.rules /\ prepared.rules <= work["rules"]
  /\ prepared = NoSnapshot => stage \in Underway \cup {"ended"}
  /\ PatchIsOneMoment
  /\ stage \notin Underway \cup {"ready", "ended"} => \E m \in moments : Describes(m)

(* What is on disk in each stage of a creation or a removal.                   *)
TreeOK ==
  /\ stage \in Underway \cup {"ready", "capture"} => disk = Nothing /\ failure = "none"
  /\ stage = "add" => ~disk.tree /\ ~disk.branch /\ failure = "none"
  /\ stage \in {"apply", "verify", "held"} => disk.tree /\ failure = "none"
  /\ stage \in {"verify", "held"} => disk.content = prepared.content
  /\ disk.branch => kind = "execution"
  /\ stage = "undo" => failure # "none" /\ (disk.branch => disk.tree \/ failure = "git")
  /\ stage \notin {"emptying", "checking", "ended"} => outcome = "none"
  /\ stage \in {"deleting", "emptying"} => ~disk.tree
  /\ stage = "removing" => disk.tree
  /\ stage = "emptying" => outcome \in {"none", Note("branch_delete")}
  /\ stage = "emptying" /\ outcome = "none" /\ disk.branch => failure = "git"
  /\ stage = "checking" =>
       /\ outcome = "none" \/ (\E step \in {"worktree_remove", "branch_delete", "temporary_root_remove"} :
                                 outcome = Note(step))
       /\ outcome = "none" => ~disk.root /\ ~disk.tree /\ (disk.branch => failure = "git")
       /\ outcome = "worktree_remove" => disk.tree
  /\ LeftoversAreNamed

IInv == TypeOK /\ SourceOK /\ PiecesOK /\ MomentOK /\ CleanOK /\ SnapshotOK /\ TreeOK

-----------------------------------------------------------------------------
(* Order *)

LEMMA VersionsAreNumbers ==
  /\ \A v \in Version : v \in Nat
  /\ \A a \in Content : \A f \in Files : a[f] \in Version /\ a[f] \in Nat
BY CheckoutAssumption DEF Version, Content

LEMMA LeqTransitive ==
  ASSUME NEW a \in Content, NEW b \in Content, NEW c \in Content, Leq(a, b), Leq(b, c)
  PROVE  Leq(a, c)
BY VersionsAreNumbers DEF Leq

LEMMA LeqAntisymmetric ==
  ASSUME NEW a \in Content, NEW b \in Content, Leq(a, b), Leq(b, a)
  PROVE  a = b
<1>1. \A f \in Files : a[f] = b[f]
  BY VersionsAreNumbers DEF Leq
<1> QED
  BY <1>1 DEF Content

LEMMA FilesAre == "code" \in Files /\ "rules" \in Files
BY DEF Files

(* The types of what is read and of the moments, ready for use.                *)
LEMMA Types ==
  ASSUME IInv
  PROVE  /\ head \in Content /\ work \in Content
         /\ \A m \in moments : m[1] \in Content /\ m[2] \in Content
         /\ seen.commit \in Content /\ seen.commit2 \in Content
         /\ seen.status \subseteq Files /\ seen.status2 \subseteq Files
         /\ seen.code1 \in Version /\ seen.rules1 \in Version
         /\ seen.code2 \in Version /\ seen.rules2 \in Version
         /\ seen.codeP \in Version /\ seen.rulesP \in Version /\ seen.rulesH \in Version
BY DEF IInv, TypeOK

-----------------------------------------------------------------------------
(* The person *)

LEMMA SourceGrows ==
  ASSUME IInv, head' \in Content, work' \in Content, edits' \in Version,
         Leq(head, head'), Leq(work, work'), Leq(head', work'),
         \A f \in Files : work'[f] <= edits',
         moments' = moments \cup {<<head', work'>>},
         UNCHANGED <<mode, kind, stage, readingVars, prepared, treeVars, outcome>>
  PROVE  IInv'
<1>1. /\ mode' = mode /\ kind' = kind /\ stage' = stage /\ todo' = todo /\ seen' = seen
      /\ prepared' = prepared /\ before' = before /\ failure' = failure /\ disk' = disk
      /\ outcome' = outcome
  BY DEF readingVars, treeVars
<1>2. TypeOK'
  BY <1>1 DEF IInv, TypeOK, State
<1>3. SourceOK'
  <2>1. ASSUME NEW m \in moments
        PROVE  Leq(m[1], head') /\ Leq(m[2], work')
    <3>1. m[1] \in Content /\ m[2] \in Content /\ Leq(m[1], head) /\ Leq(m[2], work)
      BY Types DEF IInv, SourceOK
    <3> QED
      BY <3>1, Types, LeqTransitive
  <2>2. Leq(head', head') /\ Leq(work', work')
    BY VersionsAreNumbers DEF Leq
  <2> QED
    BY <2>1, <2>2 DEF SourceOK, Leq
<1>4. PiecesOK'
  <2>1. Leq(seen.commit, head') /\ Leq(seen.commit2, head')
    BY Types, LeqTransitive DEF IInv, PiecesOK
  <2>2. work["code"] <= work'["code"] /\ work["rules"] <= work'["rules"]
    BY FilesAre DEF Leq
  <2>3. /\ work["code"] \in Nat /\ work["rules"] \in Nat /\ work'["code"] \in Nat /\ work'["rules"] \in Nat
    BY Types, VersionsAreNumbers, FilesAre
  <2>4. /\ seen.code1 <= work'["code"] /\ seen.code2 <= work'["code"] /\ seen.codeP <= work'["code"]
        /\ seen.rules1 <= work'["rules"] /\ seen.rules2 <= work'["rules"]
        /\ seen.rulesP <= work'["rules"] /\ seen.rulesH <= work'["rules"]
    BY <2>2, <2>3, Types, VersionsAreNumbers DEF IInv, PiecesOK
  <2> QED
    BY <1>1, <2>1, <2>4 DEF IInv, PiecesOK, Done
<1>5. MomentOK'
  BY <1>1 DEF IInv, MomentOK, Between, Done, Leq
<1>6. CleanOK'
  BY <1>1 DEF IInv, CleanOK, Clean, Done, Leq
<1>7. SnapshotOK'
  <2>1. CASE prepared = NoSnapshot
    BY <1>1, <2>1 DEF IInv, SnapshotOK, PatchIsOneMoment, Describes
  <2>2. CASE prepared # NoSnapshot
    <3>1. Leq(prepared.commit, head) /\ prepared.commit \in Content /\ prepared.rules \in Int
          /\ prepared.rules <= work["rules"]
      BY <2>2, VersionsAreNumbers DEF IInv, SnapshotOK, TypeOK
    <3>2. Leq(prepared.commit, head')
      BY <3>1, Types, LeqTransitive
    <3>3. prepared.rules <= work'["rules"]
      BY <3>1, Types, VersionsAreNumbers, FilesAre DEF Leq
    <3> QED
      BY <1>1, <3>2, <3>3 DEF IInv, SnapshotOK, PatchIsOneMoment, Describes
  <2> QED
    BY <2>1, <2>2
<1>8. TreeOK'
  BY <1>1 DEF IInv, TreeOK, LeftoversAreNamed, SaidClean, Note, Undoing
<1> QED
  BY <1>2, <1>3, <1>4, <1>5, <1>6, <1>7, <1>8 DEF IInv

LEMMA EditStep ==
  ASSUME IInv, NEW f \in Files, Edit(f)
  PROVE  IInv'
<1>1. /\ edits < MaxEdits /\ edits' = edits + 1 /\ head' = head
      /\ work' = [work EXCEPT ![f] = edits + 1]
      /\ moments' = moments \cup {<<head', work'>>}
      /\ UNCHANGED <<mode, kind, stage, readingVars, prepared, treeVars, outcome>>
  BY DEF Edit, Changes
<1>2. edits \in Nat /\ edits' \in Version
  BY <1>1, CheckoutAssumption DEF IInv, TypeOK, Version
<1>3. work' \in Content
  BY <1>1, <1>2, Types DEF Content
<1>4. \A g \in Files : /\ work[g] <= edits /\ head[g] <= work[g]
                      /\ work[g] \in Nat /\ head[g] \in Nat
                      /\ work'[g] = IF g = f THEN edits + 1 ELSE work[g]
  BY <1>1, Types, VersionsAreNumbers DEF IInv, SourceOK, Leq, Content
<1>5. /\ Leq(head, head') /\ Leq(work, work') /\ Leq(head', work')
      /\ \A g \in Files : work'[g] <= edits'
  BY <1>1, <1>2, <1>4 DEF Leq
<1> QED
  BY <1>1, <1>2, <1>3, <1>5, Types, SourceGrows

LEMMA CommitStep ==
  ASSUME IInv, Commit
  PROVE  IInv'
<1>1. /\ head' = work /\ work' = work /\ edits' = edits
      /\ moments' = moments \cup {<<head', work'>>}
      /\ UNCHANGED <<mode, kind, stage, readingVars, prepared, treeVars, outcome>>
  BY DEF Commit, Changes
<1>2. Leq(work, work)
  BY Types, VersionsAreNumbers DEF Leq
<1>3. /\ Leq(head, head') /\ Leq(work, work') /\ Leq(head', work')
      /\ edits' \in Version /\ \A f \in Files : work'[f] <= edits'
  BY <1>1, <1>2 DEF IInv, SourceOK, TypeOK
<1> QED
  BY <1>1, <1>3, Types, SourceGrows

-----------------------------------------------------------------------------
(* Reading a piece *)

HashedRules == IF mode = "include_patch" THEN work["rules"] ELSE seen.commit["rules"]

(* What a reading changes of what was seen.                                    *)
SeenWith(x) ==
  /\ seen'.commit = (IF x = "commit" THEN head ELSE seen.commit)
  /\ seen'.commit2 = (IF x = "commit2" THEN head ELSE seen.commit2)
  /\ seen'.status = (IF x = "status" THEN Dirty ELSE seen.status)
  /\ seen'.status2 = (IF x = "status2" THEN Dirty ELSE seen.status2)
  /\ seen'.code1 = (IF x = "code1" THEN work["code"] ELSE seen.code1)
  /\ seen'.rules1 = (IF x = "rules1" THEN work["rules"] ELSE seen.rules1)
  /\ seen'.code2 = (IF x = "code2" THEN work["code"] ELSE seen.code2)
  /\ seen'.rules2 = (IF x = "rules2" THEN work["rules"] ELSE seen.rules2)
  /\ seen'.codeP = (IF x = "codeP" THEN work["code"] ELSE seen.codeP)
  /\ seen'.rulesP = (IF x = "rulesP" THEN work["rules"] ELSE seen.rulesP)
  /\ seen'.rulesH = (IF x = "rulesH" THEN HashedRules ELSE seen.rulesH)

LEMMA SeenStep ==
  ASSUME IInv, NEW x \in DOMAIN Unread, seen' = [seen EXCEPT ![x] = Holds(x)]
  PROVE  SeenWith(x)
<1>1. DOMAIN Unread = {"commit", "commit2", "status", "status2", "code1", "rules1", "code2",
                       "rules2", "codeP", "rulesP", "rulesH"}
  BY DEF Unread
<1>2. seen = [commit |-> seen.commit, commit2 |-> seen.commit2, status |-> seen.status,
              status2 |-> seen.status2, code1 |-> seen.code1, rules1 |-> seen.rules1,
              code2 |-> seen.code2, rules2 |-> seen.rules2, codeP |-> seen.codeP,
              rulesP |-> seen.rulesP, rulesH |-> seen.rulesH]
  BY DEF IInv, TypeOK
<1>3. CASE x = "commit"
  <2>1. Holds(x) = head
    BY <1>3 DEF Holds
  <2> QED
    BY <1>2, <1>3, <2>1 DEF SeenWith
<1>4. CASE x = "commit2"
  <2>1. Holds(x) = head
    BY <1>4 DEF Holds
  <2> QED
    BY <1>2, <1>4, <2>1 DEF SeenWith
<1>5. CASE x = "status"
  <2>1. Holds(x) = Dirty
    BY <1>5 DEF Holds
  <2> QED
    BY <1>2, <1>5, <2>1 DEF SeenWith
<1>6. CASE x = "status2"
  <2>1. Holds(x) = Dirty
    BY <1>6 DEF Holds
  <2> QED
    BY <1>2, <1>6, <2>1 DEF SeenWith
<1>7. CASE x = "code1"
  <2>1. Holds(x) = work["code"]
    BY <1>7 DEF Holds
  <2> QED
    BY <1>2, <1>7, <2>1 DEF SeenWith
<1>8. CASE x = "rules1"
  <2>1. Holds(x) = work["rules"]
    BY <1>8 DEF Holds
  <2> QED
    BY <1>2, <1>8, <2>1 DEF SeenWith
<1>9. CASE x = "code2"
  <2>1. Holds(x) = work["code"]
    BY <1>9 DEF Holds
  <2> QED
    BY <1>2, <1>9, <2>1 DEF SeenWith
<1>10. CASE x = "rules2"
  <2>1. Holds(x) = work["rules"]
    BY <1>10 DEF Holds
  <2> QED
    BY <1>2, <1>10, <2>1 DEF SeenWith
<1>11. CASE x = "codeP"
  <2>1. Holds(x) = work["code"]
    BY <1>11 DEF Holds
  <2> QED
    BY <1>2, <1>11, <2>1 DEF SeenWith
<1>12. CASE x = "rulesP"
  <2>1. Holds(x) = work["rules"]
    BY <1>12 DEF Holds
  <2> QED
    BY <1>2, <1>12, <2>1 DEF SeenWith
<1>13. CASE x = "rulesH"
  <2>1. Holds(x) = HashedRules
    BY <1>13 DEF Holds, HashedRules
  <2> QED
    BY <1>2, <1>13, <2>1 DEF SeenWith
<1> QED
  BY <1>1, <1>3, <1>4, <1>5, <1>6, <1>7, <1>8, <1>9, <1>10, <1>11, <1>12, <1>13

(* A piece that is read is done, and nothing else is.                          *)
LEMMA ReadingMoves ==
  ASSUME IInv, NEW x \in DOMAIN Unread, Read(x)
  PROVE  /\ x \in ReachedAt(stage)
         /\ stage' \in Underway
         /\ stage' \in Reading => todo' \subseteq ReadsOf[stage'] /\ todo' # {}
         /\ stage' = "compare" => todo' = {}
         /\ todo' \subseteq DOMAIN Unread
         /\ \A y \in DOMAIN Unread : Done(y)' <=> y = x \/ Done(y)
<1>1. /\ stage \in Reading /\ x \in todo /\ todo \subseteq ReadsOf[stage]
      /\ todo' = IF todo = {x} /\ After[stage] \in Reading THEN ReadsOf[After[stage]] ELSE todo \ {x}
      /\ stage' = IF todo = {x} THEN After[stage] ELSE stage
  BY DEF Read, IInv, TypeOK
<1>2. Reading = {"inspect", "fingerprint", "patch", "hash", "recheck"}
  BY DEF Reading, ReadsOf
<1>3. DOMAIN Unread = {"commit", "commit2", "status", "status2", "code1", "rules1", "code2",
                       "rules2", "codeP", "rulesP", "rulesH"}
  BY DEF Unread
<1>4. CASE stage = "inspect"
  <2>1. After[stage] = "fingerprint"
    BY <1>4 DEF After
  <2> QED
    BY <1>1, <1>2, <1>3, <1>4, <2>1 DEF ReadsOf, Done, ReachedAt, Underway
<1>5. CASE stage = "fingerprint"
  <2>1. After[stage] = "patch"
    BY <1>5 DEF After
  <2> QED
    BY <1>1, <1>2, <1>3, <1>5, <2>1 DEF ReadsOf, Done, ReachedAt, Underway
<1>6. CASE stage = "patch"
  <2>1. After[stage] = "hash"
    BY <1>6 DEF After
  <2> QED
    BY <1>1, <1>2, <1>3, <1>6, <2>1 DEF ReadsOf, Done, ReachedAt, Underway
<1>7. CASE stage = "hash"
  <2>1. After[stage] = "recheck"
    BY <1>7 DEF After
  <2> QED
    BY <1>1, <1>2, <1>3, <1>7, <2>1 DEF ReadsOf, Done, ReachedAt, Underway
<1>8. CASE stage = "recheck"
  <2>1. After[stage] = "compare"
    BY <1>8 DEF After
  <2> QED
    BY <1>1, <1>2, <1>3, <1>8, <2>1 DEF ReadsOf, Done, ReachedAt, Underway
<1> QED
  BY <1>1, <1>2, <1>4, <1>5, <1>6, <1>7, <1>8

LEMMA ReadStep ==
  ASSUME IInv, NEW x \in DOMAIN Unread, Read(x)
  PROVE  IInv'
<1>1. /\ head' = head /\ work' = work /\ edits' = edits /\ moments' = moments
      /\ UNCHANGED <<mode, kind, prepared, treeVars, outcome>>
      /\ stage \in Reading /\ x \in todo
  BY DEF Read, sourceVars
<1>2. SeenWith(x)
  BY SeenStep DEF Read
<1>3. /\ x \in ReachedAt(stage) /\ stage' \in Underway
      /\ stage' \in Reading => todo' \subseteq ReadsOf[stage'] /\ todo' # {}
      /\ stage' = "compare" => todo' = {}
      /\ todo' \subseteq DOMAIN Unread
      /\ \A y \in DOMAIN Unread : Done(y)' <=> y = x \/ Done(y)
  BY ReadingMoves
<1>4. /\ head \in Content /\ work \in Content /\ HashedRules \in Version
      /\ work["code"] \in Version /\ work["rules"] \in Version /\ Dirty \subseteq Files
  BY Types, VersionsAreNumbers, FilesAre DEF Dirty, HashedRules
<1>5. /\ work["code"] \in Nat /\ work["rules"] \in Nat /\ head["rules"] \in Nat
      /\ seen.commit["rules"] \in Nat
  BY Types, VersionsAreNumbers, FilesAre
<1>6. DOMAIN Unread = {"commit", "commit2", "status", "status2", "code1", "rules1", "code2",
                       "rules2", "codeP", "rulesP", "rulesH"}
  BY DEF Unread
<1>7. TypeOK'
  <2>1. seen' \in [commit : Content, commit2 : Content, status : SUBSET Files, status2 : SUBSET Files,
                   code1 : Version, rules1 : Version, code2 : Version, rules2 : Version,
                   codeP : Version, rulesP : Version, rulesH : Version]
    <3>1. seen' = [seen EXCEPT ![x] = Holds(x)]
      BY DEF Read
    <3>2. \A y \in DOMAIN Unread : y # x => seen'[y] = seen[y]
      BY <1>6, <3>1 DEF IInv, TypeOK
    <3>3. /\ seen'.commit \in Content /\ seen'.commit2 \in Content
          /\ seen'.status \in SUBSET Files /\ seen'.status2 \in SUBSET Files
          /\ seen'.code1 \in Version /\ seen'.rules1 \in Version
          /\ seen'.code2 \in Version /\ seen'.rules2 \in Version
          /\ seen'.codeP \in Version /\ seen'.rulesP \in Version /\ seen'.rulesH \in Version
      BY <1>2, <1>4, Types DEF SeenWith
    <3>4. DOMAIN seen' = DOMAIN seen
      BY <3>1
    <3>5. seen' = [commit |-> seen'.commit, commit2 |-> seen'.commit2, status |-> seen'.status,
                   status2 |-> seen'.status2, code1 |-> seen'.code1, rules1 |-> seen'.rules1,
                   code2 |-> seen'.code2, rules2 |-> seen'.rules2, codeP |-> seen'.codeP,
                   rulesP |-> seen'.rulesP, rulesH |-> seen'.rulesH]
      BY <3>1 DEF IInv, TypeOK
    <3> QED
      BY <3>3, <3>5
  <2>2. stage' \in Stage
    BY <1>3 DEF Stage, Underway
  <2> QED
    BY <1>1, <1>3, <2>1, <2>2 DEF IInv, TypeOK, treeVars, State
<1>8. SourceOK'
  BY <1>1 DEF IInv, SourceOK, Leq
<1>9. PiecesOK'
  <2>1. Leq(head, head) /\ head["rules"] <= work["rules"]
    BY Types, VersionsAreNumbers, FilesAre DEF Leq, IInv, SourceOK
  <2>2. Leq(seen.commit, head) /\ Leq(seen.commit2, head)
    BY DEF IInv, PiecesOK
  <2>3. Leq(seen'.commit, head') /\ Leq(seen'.commit2, head')
    BY <1>1, <1>2, <2>1, <2>2 DEF SeenWith
  <2>4. seen.commit["rules"] <= work["rules"]
    BY <1>5, <2>1, <2>2, FilesAre DEF Leq
  <2>5. /\ seen'.code1 <= work["code"] /\ seen'.code2 <= work["code"] /\ seen'.codeP <= work["code"]
        /\ seen'.rules1 <= work["rules"] /\ seen'.rules2 <= work["rules"]
        /\ seen'.rulesP <= work["rules"] /\ seen'.rulesH <= work["rules"]
    BY <1>2, <1>5, <2>4 DEF IInv, PiecesOK, SeenWith, HashedRules
  <2>6. Done("rulesH") => stage \notin {"inspect", "fingerprint", "patch"}
    BY DEF Done, ReachedAt
  <2>7. x = "commit" => stage = "inspect"
    BY <1>1 DEF IInv, TypeOK, ReadsOf, Reading
  <2>8. ASSUME Done("rulesH")'
        PROVE  /\ seen'.commit["rules"] <= seen'.rulesH
               /\ mode # "include_patch" => seen'.rulesH = seen'.commit["rules"]
    <3>1. CASE x = "rulesH"
      <4>1. seen'.commit = seen.commit /\ seen'.rulesH = HashedRules
        BY <1>2, <3>1 DEF SeenWith
      <4> QED
        BY <1>5, <2>4, <4>1 DEF HashedRules
    <3>2. CASE x # "rulesH"
      <4>1. Done("rulesH")
        BY <1>3, <1>6, <2>8, <3>2
      <4>2. seen'.commit = seen.commit /\ seen'.rulesH = seen.rulesH
        BY <1>2, <2>6, <2>7, <3>2, <4>1 DEF SeenWith
      <4> QED
        BY <4>1, <4>2 DEF IInv, PiecesOK
    <3> QED
      BY <3>1, <3>2
  <2>9. stage' \in {"compare", "ready"} => todo' = {}
    BY <1>3 DEF Underway, Reading, ReadsOf
  <2> QED
    BY <1>1, <2>3, <2>5, <2>8, <2>9 DEF PiecesOK
<1>10. MomentOK'
  <2>1. SUFFICES ASSUME stage' \in {"patch", "hash", "recheck", "compare"}
                 PROVE  \E m \in moments' : Between(m)'
    BY DEF MomentOK
  <2>2. CASE stage \in {"inspect", "fingerprint"}
    <3>1. stage = "fingerprint" /\ x \in {"code1", "rules1"}
      BY <1>1, <2>1, <2>2 DEF Read, After, IInv, TypeOK, ReadsOf, Reading
    <3>2. ~Done("codeP")' /\ ~Done("rulesP")' /\ ~Done("rulesH")' /\ ~Done("commit2")'
          /\ ~Done("code2")' /\ ~Done("rules2")'
      BY <1>3, <1>6, <3>1 DEF Done, ReachedAt
    <3>3. /\ Leq(seen'.commit, head) /\ seen'.code1 <= work["code"] /\ seen'.rules1 <= work["rules"]
      BY <1>1, <1>9 DEF PiecesOK
    <3>4. State \in moments'
      BY <1>1 DEF IInv, TypeOK
    <3>5. PICK m : m = State
      OBVIOUS
    <3>6. Between(m)'
      BY <3>2, <3>3, <3>5 DEF Between, State
    <3> QED
      BY <3>4, <3>5, <3>6
  <2>3. CASE stage \notin {"inspect", "fingerprint"}
    <3>1. PICK m \in moments : Between(m)
      BY <1>1, <2>3 DEF IInv, MomentOK, Reading, ReadsOf
    <3>2. /\ m[1] \in Content /\ m[2] \in Content /\ Leq(m[1], head) /\ Leq(m[2], work)
      BY Types DEF IInv, SourceOK
    <3>3. m[2]["code"] <= work["code"] /\ m[2]["rules"] <= work["rules"]
      BY <3>2, FilesAre DEF Leq
    <3>4. x \notin {"commit", "status", "code1", "rules1"}
      BY <1>1, <2>3 DEF IInv, TypeOK, ReadsOf, Reading
    <3>5. /\ seen.codeP <= work["code"] /\ seen.rulesP <= work["rules"] /\ seen.rulesH <= work["rules"]
      BY DEF IInv, PiecesOK
    <3>6. /\ x \in {"codeP", "rulesP"} => stage = "patch"
          /\ x = "rulesH" => stage = "hash"
      BY <1>1 DEF IInv, TypeOK, ReadsOf, Reading
    <3>7. Done("code2") \/ Done("rules2") => stage \in {"recheck", "compare"}
      BY DEF Done, ReachedAt, Underway, Reading, ReadsOf
    <3>8. Between(m)'
      <4>1. Leq(seen'.commit, m[1]) /\ seen'.code1 <= m[2]["code"] /\ seen'.rules1 <= m[2]["rules"]
        BY <1>2, <3>1, <3>4 DEF SeenWith, Between
      <4>2. Done("codeP")' => m[2]["code"] <= seen'.codeP
        BY <1>2, <1>3, <1>6, <3>1, <3>3 DEF SeenWith, Between
      <4>3. Done("rulesP")' => m[2]["rules"] <= seen'.rulesP
        BY <1>2, <1>3, <1>6, <3>1, <3>3 DEF SeenWith, Between
      <4>4. Done("rulesH")' /\ mode = "include_patch" => m[2]["rules"] <= seen'.rulesH
        BY <1>2, <1>3, <1>6, <3>1, <3>3 DEF SeenWith, Between, HashedRules
      <4>5. Done("commit2")' => Leq(m[1], seen'.commit2)
        BY <1>2, <1>3, <1>6, <3>1, <3>2 DEF SeenWith, Between
      <4>6. Done("code2")' => seen'.codeP <= seen'.code2
        BY <1>2, <1>3, <1>6, <3>1, <3>5, <3>6, <3>7 DEF SeenWith, Between
      <4>7. Done("rules2")' => seen'.rulesP <= seen'.rules2
        BY <1>2, <1>3, <1>6, <3>1, <3>5, <3>6, <3>7 DEF SeenWith, Between
      <4>8. Done("rules2")' /\ mode = "include_patch" => seen'.rulesH <= seen'.rules2
        BY <1>2, <1>3, <1>6, <3>1, <3>5, <3>6, <3>7 DEF SeenWith, Between
      <4> QED
        BY <1>1, <4>1, <4>2, <4>3, <4>4, <4>5, <4>6, <4>7, <4>8 DEF Between
    <3> QED
      BY <1>1, <3>8
  <2> QED
    BY <2>2, <2>3
<1>11. CleanOK'
  <2>1. SUFFICES ASSUME Done("status")', seen'.status = {}, prepared # NoSnapshot
                 PROVE  \E m \in moments' : Clean(m)'
    BY <1>1 DEF CleanOK
  <2>2. CASE x = "status"
    <3>1. \A f \in Files : head[f] = work[f]
      BY <1>2, <2>1, <2>2 DEF SeenWith, Dirty
    <3>2. head = work
      BY <3>1, Types DEF Content
    <3>3. ~Done("commit2")'
      <4>1. stage = "inspect"
        BY <1>1, <2>2 DEF IInv, TypeOK, ReadsOf, Reading
      <4> QED
        BY <1>3, <1>6, <2>2, <4>1 DEF Done, ReachedAt
    <3>4. Leq(prepared.commit, head) /\ prepared.rules <= work["rules"]
      BY <2>1 DEF IInv, SnapshotOK
    <3>5. PICK m : m = State
      OBVIOUS
    <3>6. Clean(m)'
      BY <1>1, <3>2, <3>3, <3>4, <3>5 DEF Clean, State
    <3> QED
      BY <1>1, <3>5, <3>6 DEF IInv, TypeOK
  <2>3. CASE x # "status"
    <3>1. Done("status") /\ seen.status = {}
      BY <1>2, <1>3, <1>6, <2>1, <2>3 DEF SeenWith
    <3>2. PICK m \in moments : Clean(m)
      BY <2>1, <3>1 DEF IInv, CleanOK
    <3>3. Leq(m[1], head)
      BY DEF IInv, SourceOK
    <3>4. Done("commit2")' => Leq(m[1], seen'.commit2)
      BY <1>2, <1>3, <1>6, <3>2, <3>3 DEF SeenWith, Clean
    <3>5. Clean(m)'
      BY <1>1, <3>2, <3>4 DEF Clean
    <3> QED
      BY <1>1, <3>5
  <2> QED
    BY <2>2, <2>3
<1>12. SnapshotOK'
  <2>1. stage \in Underway /\ stage' # "ready"
    BY <1>1, <1>3 DEF Underway, Reading, ReadsOf
  <2> QED
    BY <1>1, <1>3, <2>1 DEF IInv, SnapshotOK, PatchIsOneMoment
<1>13. TreeOK'
  <2>1. stage \in Underway /\ Underway = {"inspect", "fingerprint", "patch", "hash", "recheck", "compare"}
    BY <1>1 DEF Underway, Reading, ReadsOf
  <2> QED
    BY <1>1, <1>3, <2>1 DEF IInv, TreeOK, LeftoversAreNamed, SaidClean, treeVars
<1> QED
  BY <1>7, <1>8, <1>9, <1>10, <1>11, <1>12, <1>13 DEF IInv

-----------------------------------------------------------------------------
(* The second look                                                            *)

(* What was read and found unmoved was there in one moment.                    *)
LEMMA Sandwich ==
  ASSUME IInv, stage = "compare", Unmoved
  PROVE  \E m \in moments :
           /\ m[1] = seen.commit /\ m[2]["code"] = seen.codeP /\ m[2]["rules"] = seen.rulesP
           /\ mode = "include_patch" => seen.rulesH = seen.rulesP
<1>1. PICK m \in moments : Between(m)
  BY DEF IInv, MomentOK
<1>2. \A y \in DOMAIN Unread : Done(y)
  BY DEF IInv, PiecesOK, Done, ReachedAt, Underway
<1>3. Done("codeP") /\ Done("rulesP") /\ Done("rulesH") /\ Done("commit2") /\ Done("code2") /\ Done("rules2")
  BY <1>2 DEF Unread
<1>4. m[1] \in Content /\ m[2] \in Content /\ m[2]["code"] \in Nat /\ m[2]["rules"] \in Nat
  BY Types, VersionsAreNumbers, FilesAre
<1>5. /\ seen.commit \in Content /\ seen.code1 \in Nat /\ seen.rules1 \in Nat /\ seen.codeP \in Nat
      /\ seen.rulesP \in Nat /\ seen.rulesH \in Nat
  BY Types, VersionsAreNumbers
<1>6. seen.code1 = seen.code2 /\ seen.rules1 = seen.rules2 /\ seen.commit = seen.commit2
  BY DEF Unmoved
<1>7. m[1] = seen.commit
  BY <1>1, <1>3, <1>4, <1>5, <1>6, LeqAntisymmetric DEF Between
<1>8. m[2]["code"] = seen.codeP
  BY <1>1, <1>3, <1>4, <1>5, <1>6 DEF Between
<1>9. m[2]["rules"] = seen.rulesP
  BY <1>1, <1>3, <1>4, <1>5, <1>6 DEF Between
<1>10. mode = "include_patch" => seen.rulesH = seen.rulesP
  BY <1>1, <1>3, <1>4, <1>5, <1>6, <1>9 DEF Between
<1> QED
  BY <1>7, <1>8, <1>9, <1>10

LEMMA SnapshotType ==
  ASSUME IInv
  PROVE  /\ Snapshot \in [commit : Content, content : Content, rules : Version \cup {-1}]
         /\ Snapshot.commit = seen.commit /\ Snapshot.rules = seen.rulesH
         /\ Snapshot.content = IF Patched
                               THEN [f \in Files |-> IF f = "code" THEN seen.codeP ELSE seen.rulesP]
                               ELSE seen.commit
<1>1. [f \in Files |-> IF f = "code" THEN seen.codeP ELSE seen.rulesP] \in Content
  BY Types DEF Content
<1> QED
  BY <1>1, Types DEF Snapshot

(* A snapshot with a patch describes that moment.                              *)
LEMMA PatchedSnapshot ==
  ASSUME IInv, stage = "compare", Unmoved, Patched
  PROVE  \E m \in moments : /\ m[1] = Snapshot.commit /\ m[2] = Snapshot.content
                           /\ Snapshot.rules = Snapshot.content["rules"]
<1>1. PICK m \in moments :
        /\ m[1] = seen.commit /\ m[2]["code"] = seen.codeP /\ m[2]["rules"] = seen.rulesP
        /\ mode = "include_patch" => seen.rulesH = seen.rulesP
  BY Sandwich
<1>2. Snapshot.content = [f \in Files |-> IF f = "code" THEN seen.codeP ELSE seen.rulesP]
  BY SnapshotType
<1>3. m[2] \in Content /\ Snapshot.content \in Content
  BY Types, SnapshotType
<1>4. \A f \in Files : m[2][f] = Snapshot.content[f]
  BY <1>1, <1>2 DEF Files
<1>5. m[2] = Snapshot.content
  BY <1>3, <1>4 DEF Content
<1>6. Snapshot.rules = Snapshot.content["rules"]
  BY <1>1, <1>2, SnapshotType, FilesAre DEF Patched
<1> QED
  BY <1>1, <1>5, <1>6, SnapshotType

(* A creation that found the approved snapshot again: even when it saw no      *)
(* changes, that snapshot was there in one moment of this reading, because the *)
(* commit and the instructions stood still since the snapshot was approved.    *)
LEMMA FreshSnapshot ==
  ASSUME IInv, stage = "compare", Unmoved, prepared # NoSnapshot, Fresh
  PROVE  \E m \in moments : Describes(m)
<1>1. prepared = Snapshot /\ prepared.commit = seen.commit /\ prepared.rules = seen.rulesH
  BY SnapshotType DEF Fresh
<1>2. CASE Patched
  BY <1>1, <1>2, PatchedSnapshot DEF Describes
<1>3. CASE ~Patched /\ mode # "include_patch"
  <2>1. PICK m \in moments : m[1] = seen.commit
    BY Sandwich
  <2>2. Done("rulesH")
    BY DEF IInv, PiecesOK, Done, ReachedAt, Underway, Unread
  <2>3. prepared.content = seen.commit /\ prepared.rules = seen.commit["rules"]
    BY <1>1, <1>3, <2>2, SnapshotType DEF IInv, PiecesOK
  <2> QED
    BY <1>1, <1>3, <2>1, <2>3 DEF Describes
<1>4. CASE ~Patched /\ mode = "include_patch"
  <2>1. seen.status = {}
    BY <1>4 DEF Patched
  <2>2. Done("status") /\ Done("commit2")
    BY DEF IInv, PiecesOK, Done, ReachedAt, Underway, Unread
  <2>3. PICK m \in moments : Clean(m)
    BY <2>1, <2>2 DEF IInv, CleanOK
  <2>4. m[1] \in Content /\ seen.commit \in Content
    BY Types
  <2>5. m[1] = seen.commit /\ m[2] = seen.commit
    BY <1>1, <2>2, <2>3, <2>4, LeqAntisymmetric DEF Clean, Unmoved
  <2>6. prepared.content = seen.commit
    BY <1>1, <1>4, SnapshotType
  <2>7. prepared.rules = seen.commit["rules"]
    <3>1. prepared.rules <= seen.commit["rules"] /\ seen.commit["rules"] <= prepared.rules
      BY <1>1, <2>3, <2>5 DEF Clean, IInv, SnapshotOK
    <3>2. prepared.rules \in Int /\ seen.commit["rules"] \in Int
      BY <1>1, <2>4, Types, VersionsAreNumbers, FilesAre
    <3> QED
      BY <3>1, <3>2
  <2> QED
    BY <1>1, <2>5, <2>6, <2>7 DEF Describes
<1> QED
  BY <1>2, <1>3, <1>4

LEMMA CompareStep ==
  ASSUME IInv, Compare
  PROVE  IInv'
<1>1. /\ stage = "compare" /\ seen' = Unread
      /\ head' = head /\ work' = work /\ edits' = edits /\ moments' = moments
      /\ mode' = mode /\ kind' = kind /\ todo' = todo /\ todo = {}
      /\ before' = before /\ failure' = failure /\ disk' = disk
      /\ disk = Nothing /\ failure = "none" /\ outcome = "none"
  BY DEF Compare, sourceVars, treeVars, IInv, PiecesOK, TreeOK, Underway
<1>2. /\ seen'.commit = Blank /\ seen'.commit2 = Blank /\ seen'.code1 = 0 /\ seen'.rules1 = 0
      /\ seen'.code2 = 0 /\ seen'.rules2 = 0 /\ seen'.codeP = 0 /\ seen'.rulesP = 0 /\ seen'.rulesH = 0
      /\ seen'.status = {} /\ seen'.status2 = {}
  BY <1>1 DEF Unread
<1>3. Blank \in Content /\ 0 \in Version /\ \A f \in Files : Blank[f] = 0
  BY CheckoutAssumption DEF Blank, Content, Version
<1>4. stage' \in {"ended", "ready", "capture"}
  BY DEF Compare, End
<1>5. ~Done("rulesH")' /\ stage' \notin Underway
  BY <1>4 DEF Done, Underway, Reading, ReadsOf
<1>6. seen' \in [commit : Content, commit2 : Content, status : SUBSET Files, status2 : SUBSET Files,
                code1 : Version, rules1 : Version, code2 : Version, rules2 : Version,
                codeP : Version, rulesP : Version, rulesH : Version]
  BY <1>1, <1>3 DEF Unread
<1>7. SourceOK'
  BY <1>1 DEF IInv, SourceOK, Leq
<1>8. PiecesOK'
  <2>1. work["code"] \in Nat /\ work["rules"] \in Nat /\ \A f \in Files : head[f] \in Nat
    BY Types, VersionsAreNumbers, FilesAre
  <2> QED
    BY <1>1, <1>2, <1>3, <1>5, <2>1 DEF PiecesOK, Leq
<1>9. MomentOK' /\ CleanOK'
  BY <1>4, <1>5 DEF MomentOK, CleanOK, Done
<1>10. (stage' \in Stage) /\ (stage' \notin Reading)
  BY <1>4, <1>5 DEF Stage, Underway
<1>11. CASE ~Unmoved \/ (prepared # NoSnapshot /\ ~Fresh)
  <2>1. prepared' = prepared /\ stage' = "ended" /\ outcome' \in {"source_changed", "stale"}
    BY <1>11 DEF Compare, End
  <2>2. TypeOK'
    BY <1>1, <1>6, <1>10, <2>1 DEF IInv, TypeOK, State
  <2>3. SnapshotOK'
    BY <1>1, <2>1 DEF IInv, SnapshotOK, PatchIsOneMoment, Leq
  <2>4. TreeOK'
    BY <1>1, <1>5, <2>1 DEF TreeOK, LeftoversAreNamed, SaidClean, Nothing
  <2> QED
    BY <1>7, <1>8, <1>9, <2>2, <2>3, <2>4 DEF IInv
<1>12. CASE Unmoved /\ prepared = NoSnapshot
  <2>1. prepared' = Snapshot /\ stage' = "ready" /\ outcome' = outcome
    BY <1>12 DEF Compare
  <2>2. TypeOK'
    BY <1>1, <1>6, <1>10, <2>1, SnapshotType DEF IInv, TypeOK, State
  <2>3. Done("rulesH")
    BY <1>1 DEF Done, ReachedAt, Underway, Unread
  <2>4. prepared' # NoSnapshot
    <3>1. prepared'.rules \in Nat
      BY <2>1, SnapshotType, Types, VersionsAreNumbers
    <3> QED
      BY <3>1 DEF NoSnapshot
  <2>5. PatchIsOneMoment'
    <3>1. ASSUME prepared'.content # prepared'.commit
          PROVE  \E m \in moments : Describes(m)'
      <4>1. Patched
        BY <2>1, <3>1, SnapshotType
      <4>2. PICK m \in moments : /\ m[1] = Snapshot.commit /\ m[2] = Snapshot.content
                               /\ Snapshot.rules = Snapshot.content["rules"]
        BY <1>1, <1>12, <4>1, PatchedSnapshot
      <4> QED
        BY <2>1, <4>2 DEF Describes
    <3> QED
      BY <1>1, <3>1 DEF PatchIsOneMoment
  <2>6. SnapshotOK'
    BY <1>1, <2>1, <2>3, <2>4, <2>5, SnapshotType DEF IInv, PiecesOK, SnapshotOK, Leq
  <2>7. TreeOK'
    BY <1>1, <1>5, <2>1 DEF TreeOK, LeftoversAreNamed, SaidClean, Nothing
  <2> QED
    BY <1>7, <1>8, <1>9, <2>2, <2>6, <2>7 DEF IInv
<1>13. CASE Unmoved /\ prepared # NoSnapshot /\ Fresh
  <2>1. prepared' = prepared /\ stage' = "capture" /\ outcome' = outcome
    BY <1>13 DEF Compare
  <2>2. TypeOK'
    BY <1>1, <1>6, <1>10, <2>1 DEF IInv, TypeOK, State
  <2>3. SnapshotOK'
    <3>1. PICK m \in moments : Describes(m)
      BY <1>1, <1>13, FreshSnapshot
    <3>2. Describes(m)'
      BY <1>1, <2>1, <3>1 DEF Describes
    <3> QED
      BY <1>1, <1>13, <2>1, <3>2 DEF IInv, SnapshotOK, PatchIsOneMoment, Leq
  <2>4. TreeOK'
    BY <1>1, <1>5, <2>1 DEF TreeOK, LeftoversAreNamed, SaidClean, Nothing
  <2> QED
    BY <1>7, <1>8, <1>9, <2>2, <2>3, <2>4 DEF IInv
<1> QED
  BY <1>11, <1>12, <1>13

LEMMA BeginCreationStep ==
  ASSUME IInv, BeginCreation
  PROVE  IInv'
<1>1. /\ stage = "ready" /\ stage' = "inspect" /\ todo' = {"commit", "status"} /\ moments' = {State}
      /\ head' = head /\ work' = work /\ edits' = edits /\ mode' = mode /\ kind' = kind /\ seen' = seen
      /\ prepared' = prepared /\ before' = before /\ failure' = failure /\ disk' = disk
      /\ outcome' = outcome
  BY DEF BeginCreation, treeVars, ReadsOf
<1>2. "inspect" \in Underway /\ "inspect" \in Stage /\ "inspect" \in Reading
  BY DEF Underway, Stage, Reading, ReadsOf
<1>3. \A y \in DOMAIN Unread : ~Done(y)'
  BY <1>1 DEF Done, ReachedAt
<1>4. DOMAIN Unread = {"commit", "commit2", "status", "status2", "code1", "rules1", "code2",
                       "rules2", "codeP", "rulesP", "rulesH"}
  BY DEF Unread
<1>5. TypeOK'
  <2>1. todo' \subseteq DOMAIN Unread /\ todo' \subseteq ReadsOf["inspect"] /\ todo' # {}
    BY <1>1, <1>4 DEF ReadsOf
  <2>2. moments' \subseteq Content \X Content /\ State' \in moments'
    BY <1>1, Types DEF State
  <2> QED
    BY <1>1, <1>2, <2>1, <2>2 DEF IInv, TypeOK
<1>6. SourceOK'
  <2>1. Leq(head, head) /\ Leq(work, work)
    BY Types, VersionsAreNumbers DEF Leq
  <2> QED
    BY <1>1, <2>1 DEF IInv, SourceOK, State, Leq
<1>7. PiecesOK'
  BY <1>1, <1>3, <1>4 DEF IInv, PiecesOK, Leq
<1>8. MomentOK' /\ CleanOK'
  BY <1>1, <1>3, <1>4 DEF MomentOK, CleanOK
<1>9. SnapshotOK'
  BY <1>1, <1>2 DEF IInv, SnapshotOK, PatchIsOneMoment, Leq
<1>10. TreeOK'
  BY <1>1, <1>2 DEF IInv, TreeOK, LeftoversAreNamed
<1> QED
  BY <1>5, <1>6, <1>7, <1>8, <1>9, <1>10 DEF IInv

-----------------------------------------------------------------------------
(* The worktree *)

(* The stages of a worktree read nothing and keep what was approved.           *)
LEMMA TreeStage ==
  ASSUME IInv, stage \notin Underway \cup {"ready", "ended"},
         stage' \in Stage \ (Underway \cup {"ready"}),
         UNCHANGED <<sourceVars, mode, kind, readingVars, prepared>>,
         before' \in Content \X Content, failure' \in {"none", "git", "apply", "source_changed"},
         disk' \in [root : BOOLEAN, tree : BOOLEAN, branch : BOOLEAN, content : Content],
         outcome' \in {"none", "source_changed", "stale", "git", "apply", "cleanup", "worktree_remove",
                      "branch_delete", "temporary_root_remove", "source_verify", "removed"},
         TreeOK'
  PROVE  IInv'
<1>1. /\ head' = head /\ work' = work /\ edits' = edits /\ moments' = moments
      /\ mode' = mode /\ kind' = kind /\ todo' = todo /\ seen' = seen /\ prepared' = prepared
  BY DEF sourceVars, readingVars
<1>2. \A y : ~Done(y)'
  BY DEF Done
<1>3. stage' \notin Reading
  BY DEF Underway
<1>4. TypeOK'
  BY <1>1, <1>3 DEF IInv, TypeOK, State
<1>5. SourceOK'
  BY <1>1 DEF IInv, SourceOK, Leq
<1>6. PiecesOK'
  <2>1. stage' \notin {"compare", "ready"}
    BY DEF Underway
  <2> QED
    BY <1>1, <1>2, <2>1 DEF IInv, PiecesOK, Leq
<1>7. MomentOK' /\ CleanOK'
  <2>1. stage' \notin {"patch", "hash", "recheck", "compare"}
    BY DEF Underway, Reading, ReadsOf
  <2> QED
    BY <1>2, <2>1 DEF MomentOK, CleanOK
<1>8. SnapshotOK'
  <2>1. PICK m \in moments : Describes(m)
    BY DEF IInv, SnapshotOK
  <2>2. Describes(m)'
    BY <1>1, <2>1 DEF Describes
  <2> QED
    BY <1>1, <2>2 DEF IInv, SnapshotOK, PatchIsOneMoment, Leq
<1> QED
  BY <1>4, <1>5, <1>6, <1>7, <1>8 DEF IInv

LEMMA CaptureStep ==
  ASSUME IInv, Capture
  PROVE  IInv'
<1>1. /\ UNCHANGED <<sourceVars, mode, kind, readingVars, prepared>>
      /\ stage = "capture" /\ stage' \in {"add"}
  BY DEF Capture
<1>2. /\ before \in Content \X Content /\ failure \in {"none", "git", "apply", "source_changed"}
      /\ disk \in [root : BOOLEAN, tree : BOOLEAN, branch : BOOLEAN, content : Content]
      /\ outcome \in {"none", "source_changed", "stale", "git", "apply", "cleanup", "worktree_remove",
                      "branch_delete", "temporary_root_remove", "source_verify", "removed"}
      /\ prepared \in [commit : Content, content : Content, rules : Version \cup {-1}]
      /\ State \in Content \X Content
  BY Types DEF IInv, TypeOK, State
<1>3. /\ before' \in Content \X Content /\ failure' \in {"none", "git", "apply", "source_changed"}
      /\ disk' \in [root : BOOLEAN, tree : BOOLEAN, branch : BOOLEAN, content : Content]
      /\ outcome' \in {"none", "source_changed", "stale", "git", "apply", "cleanup", "worktree_remove",
                      "branch_delete", "temporary_root_remove", "source_verify", "removed"}
  BY <1>1, <1>2 DEF Capture, Nothing
<1>4. TreeOK'
  BY <1>1, <1>2 DEF Capture, Nothing, IInv, TreeOK, LeftoversAreNamed, SaidClean, Note, Undoing,
       Underway, Reading, ReadsOf, Nothing
<1> QED
  BY <1>1, <1>3, <1>4, TreeStage DEF Stage, Underway, Reading, ReadsOf

LEMMA AddTreeStep ==
  ASSUME IInv, AddTree
  PROVE  IInv'
<1>1. /\ UNCHANGED <<sourceVars, mode, kind, readingVars, prepared>>
      /\ stage = "add" /\ stage' \in {"apply", "undo"}
  BY DEF AddTree
<1>2. /\ before \in Content \X Content /\ failure \in {"none", "git", "apply", "source_changed"}
      /\ disk \in [root : BOOLEAN, tree : BOOLEAN, branch : BOOLEAN, content : Content]
      /\ outcome \in {"none", "source_changed", "stale", "git", "apply", "cleanup", "worktree_remove",
                      "branch_delete", "temporary_root_remove", "source_verify", "removed"}
      /\ prepared \in [commit : Content, content : Content, rules : Version \cup {-1}]
      /\ State \in Content \X Content
  BY Types DEF IInv, TypeOK, State
<1>3. /\ before' \in Content \X Content /\ failure' \in {"none", "git", "apply", "source_changed"}
      /\ disk' \in [root : BOOLEAN, tree : BOOLEAN, branch : BOOLEAN, content : Content]
      /\ outcome' \in {"none", "source_changed", "stale", "git", "apply", "cleanup", "worktree_remove",
                      "branch_delete", "temporary_root_remove", "source_verify", "removed"}
  BY <1>1, <1>2 DEF AddTree
<1>4. TreeOK'
  BY <1>1, <1>2 DEF AddTree, IInv, TreeOK, LeftoversAreNamed, SaidClean, Note, Undoing,
       Underway, Reading, ReadsOf, Nothing
<1> QED
  BY <1>1, <1>3, <1>4, TreeStage DEF Stage, Underway, Reading, ReadsOf

LEMMA ApplyPatchStep ==
  ASSUME IInv, ApplyPatch
  PROVE  IInv'
<1>1. /\ UNCHANGED <<sourceVars, mode, kind, readingVars, prepared>>
      /\ stage = "apply" /\ stage' \in {"verify", "undo"}
  BY DEF ApplyPatch
<1>2. /\ before \in Content \X Content /\ failure \in {"none", "git", "apply", "source_changed"}
      /\ disk \in [root : BOOLEAN, tree : BOOLEAN, branch : BOOLEAN, content : Content]
      /\ outcome \in {"none", "source_changed", "stale", "git", "apply", "cleanup", "worktree_remove",
                      "branch_delete", "temporary_root_remove", "source_verify", "removed"}
      /\ prepared \in [commit : Content, content : Content, rules : Version \cup {-1}]
      /\ State \in Content \X Content
  BY Types DEF IInv, TypeOK, State
<1>3. /\ before' \in Content \X Content /\ failure' \in {"none", "git", "apply", "source_changed"}
      /\ disk' \in [root : BOOLEAN, tree : BOOLEAN, branch : BOOLEAN, content : Content]
      /\ outcome' \in {"none", "source_changed", "stale", "git", "apply", "cleanup", "worktree_remove",
                      "branch_delete", "temporary_root_remove", "source_verify", "removed"}
  BY <1>1, <1>2 DEF ApplyPatch
<1>4. TreeOK'
  BY <1>1, <1>2 DEF ApplyPatch, IInv, TreeOK, LeftoversAreNamed, SaidClean, Note, Undoing,
       Underway, Reading, ReadsOf, Nothing
<1> QED
  BY <1>1, <1>3, <1>4, TreeStage DEF Stage, Underway, Reading, ReadsOf

LEMMA VerifyStep ==
  ASSUME IInv, Verify
  PROVE  IInv'
<1>1. /\ UNCHANGED <<sourceVars, mode, kind, readingVars, prepared>>
      /\ stage = "verify" /\ stage' \in {"held", "undo"}
  BY DEF Verify
<1>2. /\ before \in Content \X Content /\ failure \in {"none", "git", "apply", "source_changed"}
      /\ disk \in [root : BOOLEAN, tree : BOOLEAN, branch : BOOLEAN, content : Content]
      /\ outcome \in {"none", "source_changed", "stale", "git", "apply", "cleanup", "worktree_remove",
                      "branch_delete", "temporary_root_remove", "source_verify", "removed"}
      /\ prepared \in [commit : Content, content : Content, rules : Version \cup {-1}]
      /\ State \in Content \X Content
  BY Types DEF IInv, TypeOK, State
<1>3. /\ before' \in Content \X Content /\ failure' \in {"none", "git", "apply", "source_changed"}
      /\ disk' \in [root : BOOLEAN, tree : BOOLEAN, branch : BOOLEAN, content : Content]
      /\ outcome' \in {"none", "source_changed", "stale", "git", "apply", "cleanup", "worktree_remove",
                      "branch_delete", "temporary_root_remove", "source_verify", "removed"}
  BY <1>1, <1>2 DEF Verify
<1>4. TreeOK'
  BY <1>1, <1>2 DEF Verify, IInv, TreeOK, LeftoversAreNamed, SaidClean, Note, Undoing,
       Underway, Reading, ReadsOf, Nothing
<1> QED
  BY <1>1, <1>3, <1>4, TreeStage DEF Stage, Underway, Reading, ReadsOf

LEMMA UndoStep ==
  ASSUME IInv, Undo
  PROVE  IInv'
<1>1. /\ UNCHANGED <<sourceVars, mode, kind, readingVars, prepared>>
      /\ stage = "undo" /\ stage' \in {"removing", "emptying"}
  BY DEF Undo
<1>2. /\ before \in Content \X Content /\ failure \in {"none", "git", "apply", "source_changed"}
      /\ disk \in [root : BOOLEAN, tree : BOOLEAN, branch : BOOLEAN, content : Content]
      /\ outcome \in {"none", "source_changed", "stale", "git", "apply", "cleanup", "worktree_remove",
                      "branch_delete", "temporary_root_remove", "source_verify", "removed"}
      /\ prepared \in [commit : Content, content : Content, rules : Version \cup {-1}]
      /\ State \in Content \X Content
  BY Types DEF IInv, TypeOK, State
<1>3. /\ before' \in Content \X Content /\ failure' \in {"none", "git", "apply", "source_changed"}
      /\ disk' \in [root : BOOLEAN, tree : BOOLEAN, branch : BOOLEAN, content : Content]
      /\ outcome' \in {"none", "source_changed", "stale", "git", "apply", "cleanup", "worktree_remove",
                      "branch_delete", "temporary_root_remove", "source_verify", "removed"}
  BY <1>1, <1>2 DEF Undo, treeVars
<1>4. TreeOK'
  BY <1>1, <1>2 DEF Undo, treeVars, IInv, TreeOK, LeftoversAreNamed, SaidClean, Note, Undoing,
       Underway, Reading, ReadsOf, Nothing
<1> QED
  BY <1>1, <1>3, <1>4, TreeStage DEF Stage, Underway, Reading, ReadsOf

LEMMA ReleaseStep ==
  ASSUME IInv, Release
  PROVE  IInv'
<1>1. /\ UNCHANGED <<sourceVars, mode, kind, readingVars, prepared>>
      /\ stage = "held" /\ stage' \in {"removing"}
  BY DEF Release
<1>2. /\ before \in Content \X Content /\ failure \in {"none", "git", "apply", "source_changed"}
      /\ disk \in [root : BOOLEAN, tree : BOOLEAN, branch : BOOLEAN, content : Content]
      /\ outcome \in {"none", "source_changed", "stale", "git", "apply", "cleanup", "worktree_remove",
                      "branch_delete", "temporary_root_remove", "source_verify", "removed"}
      /\ prepared \in [commit : Content, content : Content, rules : Version \cup {-1}]
      /\ State \in Content \X Content
  BY Types DEF IInv, TypeOK, State
<1>3. /\ before' \in Content \X Content /\ failure' \in {"none", "git", "apply", "source_changed"}
      /\ disk' \in [root : BOOLEAN, tree : BOOLEAN, branch : BOOLEAN, content : Content]
      /\ outcome' \in {"none", "source_changed", "stale", "git", "apply", "cleanup", "worktree_remove",
                      "branch_delete", "temporary_root_remove", "source_verify", "removed"}
  BY <1>1, <1>2 DEF Release
<1>4. TreeOK'
  BY <1>1, <1>2 DEF Release, IInv, TreeOK, LeftoversAreNamed, SaidClean, Note, Undoing,
       Underway, Reading, ReadsOf, Nothing
<1> QED
  BY <1>1, <1>3, <1>4, TreeStage DEF Stage, Underway, Reading, ReadsOf

LEMMA RemoveTreeStep ==
  ASSUME IInv, RemoveTree
  PROVE  IInv'
<1>1. /\ UNCHANGED <<sourceVars, mode, kind, readingVars, prepared>>
      /\ stage = "removing" /\ stage' \in {"deleting", "checking"}
  BY DEF RemoveTree, Fails
<1>2. /\ before \in Content \X Content /\ failure \in {"none", "git", "apply", "source_changed"}
      /\ disk \in [root : BOOLEAN, tree : BOOLEAN, branch : BOOLEAN, content : Content]
      /\ outcome \in {"none", "source_changed", "stale", "git", "apply", "cleanup", "worktree_remove",
                      "branch_delete", "temporary_root_remove", "source_verify", "removed"}
      /\ prepared \in [commit : Content, content : Content, rules : Version \cup {-1}]
      /\ State \in Content \X Content
  BY Types DEF IInv, TypeOK, State
<1>3. /\ before' \in Content \X Content /\ failure' \in {"none", "git", "apply", "source_changed"}
      /\ disk' \in [root : BOOLEAN, tree : BOOLEAN, branch : BOOLEAN, content : Content]
      /\ outcome' \in {"none", "source_changed", "stale", "git", "apply", "cleanup", "worktree_remove",
                      "branch_delete", "temporary_root_remove", "source_verify", "removed"}
  BY <1>1, <1>2 DEF RemoveTree, Fails, Note
<1>4. TreeOK'
  BY <1>1, <1>2 DEF RemoveTree, Fails, Note, IInv, TreeOK, LeftoversAreNamed, SaidClean, Note, Undoing,
       Underway, Reading, ReadsOf, Nothing
<1> QED
  BY <1>1, <1>3, <1>4, TreeStage DEF Stage, Underway, Reading, ReadsOf

LEMMA DeleteBranchStep ==
  ASSUME IInv, DeleteBranch
  PROVE  IInv'
<1>1. /\ UNCHANGED <<sourceVars, mode, kind, readingVars, prepared>>
      /\ stage = "deleting" /\ stage' \in {"emptying"}
  BY DEF DeleteBranch, Fails
<1>2. /\ before \in Content \X Content /\ failure \in {"none", "git", "apply", "source_changed"}
      /\ disk \in [root : BOOLEAN, tree : BOOLEAN, branch : BOOLEAN, content : Content]
      /\ outcome \in {"none", "source_changed", "stale", "git", "apply", "cleanup", "worktree_remove",
                      "branch_delete", "temporary_root_remove", "source_verify", "removed"}
      /\ prepared \in [commit : Content, content : Content, rules : Version \cup {-1}]
      /\ State \in Content \X Content
  BY Types DEF IInv, TypeOK, State
<1>3. /\ before' \in Content \X Content /\ failure' \in {"none", "git", "apply", "source_changed"}
      /\ disk' \in [root : BOOLEAN, tree : BOOLEAN, branch : BOOLEAN, content : Content]
      /\ outcome' \in {"none", "source_changed", "stale", "git", "apply", "cleanup", "worktree_remove",
                      "branch_delete", "temporary_root_remove", "source_verify", "removed"}
  BY <1>1, <1>2 DEF DeleteBranch, Fails, Note
<1>4. TreeOK'
  BY <1>1, <1>2 DEF DeleteBranch, Fails, Note, IInv, TreeOK, LeftoversAreNamed, SaidClean, Note, Undoing,
       Underway, Reading, ReadsOf, Nothing
<1> QED
  BY <1>1, <1>3, <1>4, TreeStage DEF Stage, Underway, Reading, ReadsOf

LEMMA RemoveRootStep ==
  ASSUME IInv, RemoveRoot
  PROVE  IInv'
<1>1. /\ UNCHANGED <<sourceVars, mode, kind, readingVars, prepared>>
      /\ stage = "emptying" /\ stage' \in {"checking"}
  BY DEF RemoveRoot, Fails
<1>2. /\ before \in Content \X Content /\ failure \in {"none", "git", "apply", "source_changed"}
      /\ disk \in [root : BOOLEAN, tree : BOOLEAN, branch : BOOLEAN, content : Content]
      /\ outcome \in {"none", "source_changed", "stale", "git", "apply", "cleanup", "worktree_remove",
                      "branch_delete", "temporary_root_remove", "source_verify", "removed"}
      /\ prepared \in [commit : Content, content : Content, rules : Version \cup {-1}]
      /\ State \in Content \X Content
  BY Types DEF IInv, TypeOK, State
<1>3. /\ before' \in Content \X Content /\ failure' \in {"none", "git", "apply", "source_changed"}
      /\ disk' \in [root : BOOLEAN, tree : BOOLEAN, branch : BOOLEAN, content : Content]
      /\ outcome' \in {"none", "source_changed", "stale", "git", "apply", "cleanup", "worktree_remove",
                      "branch_delete", "temporary_root_remove", "source_verify", "removed"}
  BY <1>1, <1>2 DEF RemoveRoot, Fails, Note
<1>4. TreeOK'
  BY <1>1, <1>2 DEF RemoveRoot, Fails, Note, IInv, TreeOK, LeftoversAreNamed, SaidClean, Note, Undoing,
       Underway, Reading, ReadsOf, Nothing
<1> QED
  BY <1>1, <1>3, <1>4, TreeStage DEF Stage, Underway, Reading, ReadsOf

LEMMA CheckSourceStep ==
  ASSUME IInv, CheckSource
  PROVE  IInv'
<1>1. /\ UNCHANGED <<sourceVars, mode, kind, readingVars, prepared>>
      /\ stage = "checking" /\ stage' \in {"ended"}
  BY DEF CheckSource, End
<1>2. /\ before \in Content \X Content /\ failure \in {"none", "git", "apply", "source_changed"}
      /\ disk \in [root : BOOLEAN, tree : BOOLEAN, branch : BOOLEAN, content : Content]
      /\ outcome \in {"none", "source_changed", "stale", "git", "apply", "cleanup", "worktree_remove",
                      "branch_delete", "temporary_root_remove", "source_verify", "removed"}
      /\ prepared \in [commit : Content, content : Content, rules : Version \cup {-1}]
      /\ State \in Content \X Content
  BY Types DEF IInv, TypeOK, State
<1>3. /\ before' \in Content \X Content /\ failure' \in {"none", "git", "apply", "source_changed"}
      /\ disk' \in [root : BOOLEAN, tree : BOOLEAN, branch : BOOLEAN, content : Content]
      /\ outcome' \in {"none", "source_changed", "stale", "git", "apply", "cleanup", "worktree_remove",
                      "branch_delete", "temporary_root_remove", "source_verify", "removed"}
  BY <1>1, <1>2 DEF CheckSource, End, Verdict, treeVars, Undoing
<1>4. TreeOK'
  BY <1>1, <1>2 DEF CheckSource, End, Verdict, treeVars, Undoing, IInv, TreeOK,
       LeftoversAreNamed, SaidClean, Note, Undoing, Underway, Reading, ReadsOf, Nothing
<1> QED
  BY <1>1, <1>3, <1>4, TreeStage DEF Stage, Underway, Reading, ReadsOf

-----------------------------------------------------------------------------
(* The theorems *)

LEMMA InitInv == Init => IInv
<1> SUFFICES ASSUME Init PROVE IInv
  OBVIOUS
<1>1. /\ head = Blank /\ work = Blank /\ edits = 0 /\ moments = {State} /\ State = <<Blank, Blank>>
      /\ mode \in Modes /\ kind \in Kinds /\ stage = "inspect" /\ todo = {"commit", "status"}
      /\ seen = Unread /\ prepared = NoSnapshot /\ before = <<Blank, Blank>> /\ failure = "none"
      /\ disk = Nothing /\ outcome = "none"
  BY DEF Init, State, ReadsOf
<1>2. Blank \in Content /\ 0 \in Version /\ \A f \in Files : Blank[f] = 0
  BY CheckoutAssumption DEF Blank, Content, Version
<1>3. /\ seen.commit = Blank /\ seen.commit2 = Blank /\ seen.code1 = 0 /\ seen.rules1 = 0
      /\ seen.code2 = 0 /\ seen.rules2 = 0 /\ seen.codeP = 0 /\ seen.rulesP = 0 /\ seen.rulesH = 0
  BY <1>1 DEF Unread
<1>4. \A y \in DOMAIN Unread : ~Done(y)
  BY <1>1 DEF Done, ReachedAt
<1>5. DOMAIN Unread = {"commit", "commit2", "status", "status2", "code1", "rules1", "code2",
                       "rules2", "codeP", "rulesP", "rulesH"}
  BY DEF Unread
<1>6. "inspect" \in Underway /\ "inspect" \in Stage /\ "inspect" \in Reading
  BY DEF Underway, Stage, Reading, ReadsOf
<1>7. TypeOK
  <2>1. seen \in [commit : Content, commit2 : Content, status : SUBSET Files, status2 : SUBSET Files,
                  code1 : Version, rules1 : Version, code2 : Version, rules2 : Version,
                  codeP : Version, rulesP : Version, rulesH : Version]
    BY <1>1, <1>2 DEF Unread
  <2>2. todo \subseteq DOMAIN Unread /\ todo \subseteq ReadsOf["inspect"] /\ todo # {}
    BY <1>1, <1>5 DEF ReadsOf
  <2>3. /\ prepared \in [commit : Content, content : Content, rules : Version \cup {-1}]
        /\ disk \in [root : BOOLEAN, tree : BOOLEAN, branch : BOOLEAN, content : Content]
    BY <1>1, <1>2 DEF NoSnapshot, Nothing
  <2> QED
    BY <1>1, <1>2, <1>6, <2>1, <2>2, <2>3 DEF TypeOK
<1>8. SourceOK
  BY <1>1, <1>2 DEF SourceOK, Leq
<1>9. PiecesOK
  BY <1>1, <1>2, <1>3, <1>4, <1>5, FilesAre DEF PiecesOK, Leq
<1>10. MomentOK /\ CleanOK
  BY <1>1 DEF MomentOK, CleanOK
<1>11. SnapshotOK
  BY <1>1, <1>6 DEF SnapshotOK, PatchIsOneMoment
<1>12. TreeOK
  BY <1>1, <1>6 DEF TreeOK, LeftoversAreNamed, SaidClean, Nothing
<1> QED
  BY <1>7, <1>8, <1>9, <1>10, <1>11, <1>12 DEF IInv

LEMMA NextInv == IInv /\ [Next]_vars => IInv'
<1> SUFFICES ASSUME IInv, [Next]_vars PROVE IInv'
  OBVIOUS
<1>1. CASE Next
  BY <1>1, EditStep, CommitStep, ReadStep, CompareStep, BeginCreationStep, CaptureStep, AddTreeStep,
     ApplyPatchStep, VerifyStep, UndoStep, ReleaseStep, RemoveTreeStep, DeleteBranchStep,
     RemoveRootStep, CheckSourceStep DEF Next
<1>2. CASE UNCHANGED vars
  <2>1. /\ head' = head /\ work' = work /\ edits' = edits /\ moments' = moments
        /\ mode' = mode /\ kind' = kind /\ stage' = stage /\ todo' = todo /\ seen' = seen
        /\ prepared' = prepared /\ before' = before /\ failure' = failure /\ disk' = disk
        /\ outcome' = outcome
    BY <1>2 DEF vars, sourceVars, readingVars, treeVars
  <2>2. TypeOK' /\ SourceOK'
    BY <2>1 DEF IInv, TypeOK, State, SourceOK, Leq
  <2>3. PiecesOK' /\ MomentOK' /\ CleanOK'
    BY <2>1 DEF IInv, PiecesOK, MomentOK, Between, CleanOK, Clean, Done, Leq
  <2>4. SnapshotOK' /\ TreeOK'
    BY <2>1 DEF IInv, SnapshotOK, PatchIsOneMoment, Describes, TreeOK, LeftoversAreNamed, SaidClean, Note,
      Undoing, Leq
  <2> QED
    BY <2>2, <2>3, <2>4 DEF IInv
<1> QED
  BY <1>1, <1>2

LEMMA Invariance == Spec => []IInv
BY InitInv, NextInv, PTL DEF Spec

(* Every state of a reading, a creation and a removal is well formed.          *)
THEOREM TypeInvariant == Spec => []TypeOK
<1>1. IInv => TypeOK
  BY DEF IInv
<1> QED
  BY <1>1, Invariance, PTL

(* However often the checkout changes while it is read, an accepted snapshot   *)
(* with a patch is a state the checkout was in (prepareWithParameters).        *)
THEOREM PatchesAreWhole == Spec => []PatchIsOneMoment
<1>1. IInv => PatchIsOneMoment
  BY DEF IInv, SnapshotOK
<1> QED
  BY <1>1, Invariance, PTL

(* A worktree that is handed over holds what was approved, and the approved    *)
(* snapshot stood in the checkout while the worktree was asked for             *)
(* (createDisposableWorktree, checkPreparedSnapshot).                          *)
THEOREM WorktreesAreApproved == Spec => []HandedOverAsApproved
<1>1. IInv => HandedOverAsApproved
  <2>1. "held" \notin Underway \cup {"ready", "ended"}
    BY DEF Underway, Reading, ReadsOf
  <2> QED
    BY <2>1 DEF IInv, SnapshotOK, TreeOK, HandedOverAsApproved
<1> QED
  BY <1>1, Invariance, PTL

(* Whatever fails in a creation or a removal, what is left over is named, but  *)
(* for the branch of an execution whose git worktree add failed                *)
(* (createDisposableWorktree, cleanupInternal).                                *)
THEOREM LeftoversAreKnown == Spec => []LeftoversAreNamed
<1>1. IInv => LeftoversAreNamed
  BY DEF IInv, TreeOK
<1> QED
  BY <1>1, Invariance, PTL
=============================================================================
