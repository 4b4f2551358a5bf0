------------------------------ MODULE PathPolicy ------------------------------
(***************************************************************************)
(* packages/policy/src/path-policy.ts: repository-relative paths, the       *)
(* patterns of a contract, and whether a contract covers a path.            *)
(*                                                                          *)
(* A path is a sequence of segments and a segment a sequence of characters, *)
(* of which "*" stands for itself only in a path.  The segment "**" of a    *)
(* pattern is <<"**">>.                                                     *)
(***************************************************************************)
EXTENDS Naturals, Sequences, FiniteSets

AnySegments == <<"**">>

(* What normalizeRepositoryRelativePath refuses: a path that starts at the     *)
(* root or leaves the repository, and a "**" that is not a whole segment.      *)
NormalizationError(path, isPattern) ==
  CASE path = <<>> -> "empty_path"
    [] path[1] = <<"/">> -> "absolute_path"
    [] \E i \in DOMAIN path : path[i] = <<"..">> -> "parent_traversal"
    [] isPattern /\ \E i \in DOMAIN path : \E j \in DOMAIN path[i] :
         path[i][j] = "**" /\ Len(path[i]) > 1 -> "unsupported_pattern"
    [] ~isPattern /\ \E i \in DOMAIN path : \E j \in DOMAIN path[i] :
         path[i][j] \in {"*", "**"} -> "unsupported_pattern"
    [] OTHER -> "none"

(* Empty segments and "." say nothing; kept[n] is what the first n leave.      *)
Normalize(path) ==
  LET kept[n \in 0 .. Len(path)] ==
        IF n = 0 THEN <<>>
        ELSE IF path[n] \in {<<>>, <<".">>} THEN kept[n - 1] ELSE Append(kept[n - 1], path[n])
  IN kept[Len(path)]

Normal(path, isPattern) ==
  NormalizationError(path, isPattern) = "none" /\ Normalize(path) # <<>>

(* Mutant of SegmentMatches: a literal that does not fit ends the search, as   *)
(* if the star before it had to take the rest.                                 *)
SegmentMatchesGreedily(value, pattern) ==
  \/ value = pattern
  \/ \E p \in DOMAIN pattern : pattern[p] = "*" /\ SubSeq(value, 1, p - 1) = SubSeq(pattern, 1, p - 1)

(* segmentMatches: a loop with one star to go back to, the last one met.  Its  *)
(* state is how far it is in the value and in the pattern, the star, and how   *)
(* much of the value that star has taken; 0 stands for no star.  Since the     *)
(* star it has met characters only, and each of them took one of the value.    *)
Place(v, p, star, took) == [v |-> v, p |-> p, star |-> star, took |-> took]

Places(value, pattern) ==
  {s \in [v : 1 .. Len(value) + 1, p : 1 .. Len(pattern) + 1,
          star : 0 .. Len(pattern), took : 0 .. Len(value) + 1] :
     /\ s.star < s.p /\ s.took <= s.v
     /\ s.star > 0 => /\ s.v - s.took = s.p - s.star - 1
                      /\ \A q \in s.star + 1 .. s.p - 1 : pattern[q] # "*"}

SegmentMatches(value, pattern) ==
  LET n == Len(value)
      m == Len(pattern)
      loop[s \in Places(value, pattern)] ==
        CASE s.v > n -> \A p \in s.p .. m : pattern[p] = "*"
          [] s.v <= n /\ s.p <= m /\ pattern[s.p] = value[s.v] ->
               loop[Place(s.v + 1, s.p + 1, s.star, s.took)]
          [] s.v <= n /\ s.p <= m /\ pattern[s.p] = "*" /\ value[s.v] # "*" ->
               loop[Place(s.v, s.p + 1, s.p, s.v)]
          [] OTHER ->
               s.star > 0 /\ loop[Place(s.took + 1, s.star + 1, s.star, s.took + 1)]
  IN loop[Place(1, 1, 0, 0)]

(* matchSegments; its table of results only saves repeated work.               *)
MatchSegments(path, pattern) ==
  LET n == Len(path)
      m == Len(pattern)
      match[s \in (1 .. n + 1) \X (1 .. m + 1)] ==
        LET i == s[1]
            j == s[2] IN
        CASE j > m -> i > n
          [] j <= m /\ pattern[j] = AnySegments ->
               match[<<i, j + 1>>] \/ (i <= n /\ match[<<i + 1, j>>])
          [] OTHER -> i <= n /\ SegmentMatches(path[i], pattern[j]) /\ match[<<i + 1, j + 1>>]
  IN match[<<1, 1>>]

MatchesRepositoryPath(path, pattern) ==
  /\ Normal(path, FALSE) /\ Normal(pattern, TRUE)
  /\ MatchSegments(Normalize(path), Normalize(pattern))

-----------------------------------------------------------------------------
(* Requests *)

(* A path as it was requested, and what it resolves to inside the root:        *)
(* Unresolved when it leaves the root or its links are broken.                 *)
Unresolved == <<<<"unresolved">>>>

(* The names that hold secrets, wherever they are.                             *)
DefaultProtected == {<<AnySegments, <<".env">>>>, <<AnySegments, <<".env", ".", "*">>>>}

IsSecretLikePath(path) == \E pattern \in DefaultProtected : MatchesRepositoryPath(path, pattern)

(* matchPathRequest: a protected path is refused under either name, and only   *)
(* what the request resolves to has to be allowed.                             *)
MatchPathRequest(request, allowed, protected) ==
  LET refused == DefaultProtected \cup protected IN
  CASE request.ambiguous -> "case_ambiguity"
    [] ~Normal(request.requested, FALSE) -> "invalid_path"
    [] request.resolved = Unresolved -> "unresolved_path"
    [] ~Normal(request.resolved, FALSE) -> "invalid_path"
    [] \E pattern \in refused \cup allowed : ~Normal(pattern, TRUE) -> "invalid_contract_pattern"
    [] \E pattern \in refused : \/ MatchesRepositoryPath(request.requested, pattern)
                                \/ MatchesRepositoryPath(request.resolved, pattern) -> "protected_path"
    [] ~\E pattern \in allowed : MatchesRepositoryPath(request.resolved, pattern) ->
         "outside_allowed_paths"
    [] OTHER -> "allowed_path"

-----------------------------------------------------------------------------
(* What a pattern means, without an algorithm *)

(* A star of a pattern takes any run of characters, and any other character    *)
(* takes itself: cut[p] is how much of the value the first p have taken.       *)
SegmentDenotes(value, pattern) ==
  \E cut \in [0 .. Len(pattern) -> 0 .. Len(value)] :
    /\ cut[0] = 0 /\ cut[Len(pattern)] = Len(value)
    /\ \A p \in 1 .. Len(pattern) :
         IF pattern[p] = "*" THEN cut[p - 1] <= cut[p]
         ELSE cut[p] = cut[p - 1] + 1 /\ value[cut[p]] = pattern[p]

(* Likewise for a path, whose "**" takes any run of segments.                  *)
Denotes(path, pattern) ==
  \E cut \in [0 .. Len(pattern) -> 0 .. Len(path)] :
    /\ cut[0] = 0 /\ cut[Len(pattern)] = Len(path)
    /\ \A p \in 1 .. Len(pattern) :
         IF pattern[p] = AnySegments THEN cut[p - 1] <= cut[p]
         ELSE cut[p] = cut[p - 1] + 1 /\ SegmentDenotes(path[cut[p]], pattern[p])

StarFree(path) == \A i \in 1 .. Len(path) : \A j \in 1 .. Len(path[i]) : path[i][j] # "*"

(* Both loops, the one that goes back to the last star and the one over the    *)
(* segments, find exactly the paths that a pattern denotes (segmentMatches and *)
(* matchSegments, path-policy.ts:86-147).                                      *)
MatcherIsExactOn(paths, patterns) ==
  \A path \in paths, pattern \in patterns : MatchSegments(path, pattern) = Denotes(path, pattern)
=============================================================================
