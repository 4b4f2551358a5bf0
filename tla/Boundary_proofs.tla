---------------------------- MODULE Boundary_proofs ----------------------------
(***************************************************************************)
(* Proofs about Boundary, for every review, text, pattern, agent and        *)
(* worktree that its assumptions admit.  First the data: the loops of the   *)
(* matcher find what a pattern means, the search of a text finds what it    *)
(* states.  Then what is made of the data: the questions name every effect, *)
(* the contract allows what the plans meant.  At last the invariant of the  *)
(* steps, and the properties that follow from all three.                    *)
(*                                                                          *)
(* An operator defined by a recursive function f[x \in S] == Body(f, x) is  *)
(* some function that satisfies this equation.  That there is one is shown  *)
(* by a function that does; what any such function answers, by looking at   *)
(* the argument where it would first, or last, answer otherwise.            *)
(***************************************************************************)
EXTENDS Boundary, Integers, WellFoundedInduction, TLAPS

-----------------------------------------------------------------------------
(* Numbers and sequences *)

(* The characters that names are written with.  The provers know nothing of    *)
(* what is in STRING, so the strings of the protected names are added to it.   *)
Chars == STRING \cup {"*", "**", ".env", "."}

LEMMA SeqGrows == ASSUME NEW S, NEW T, S \subseteq T PROVE Seq(S) \subseteq Seq(T)
OBVIOUS

LEMMA StringsAreChars == Seq(Seq(STRING)) \subseteq Seq(Seq(Chars))
<1>1. STRING \subseteq Chars
  BY DEF Chars
<1> QED BY <1>1, SeqGrows

Less == {p \in Nat \X Nat : p[1] < p[2]}

LEMMA LessIsWellFounded == IsWellFoundedOn(Less, Nat)
<1>1. IsWellFoundedOn(OpToRel(<, Nat), Nat)
  BY NatLessThanWellFounded
<1>2. OpToRel(<, Nat) = Less
  BY DEF OpToRel, Less
<1> QED BY <1>1, <1>2

(* Every set of numbers that is not empty has a least one.                     *)
LEMMA Least ==
  ASSUME NEW T \in SUBSET Nat, T # {}
  PROVE  \E n \in T : \A m \in T : n <= m
<1>1. T \subseteq Nat
  OBVIOUS
<1>2. \E n \in T : \A y \in T : ~(<<y, n>> \in Less)
  BY <1>1, LessIsWellFounded, WFMin
<1>3. PICK n \in T : \A y \in T : ~(<<y, n>> \in Less)
  BY <1>2
<1>4. ASSUME NEW m \in T PROVE n <= m
  <2>1. <<m, n>> \notin Less
    BY <1>3
  <2>2. m \in Nat /\ n \in Nat
    BY <1>1
  <2> QED BY <2>1, <2>2 DEF Less
<1> QED BY <1>4

(* And a greatest one when it is bounded.                                      *)
LEMMA Greatest ==
  ASSUME NEW b \in Nat, NEW T \in SUBSET (0 .. b), T # {}
  PROVE  \E n \in T : \A m \in T : m <= n
<1> DEFINE D == {b - t : t \in T}
<1>1. D \in SUBSET Nat /\ D # {}
  <2>1. \A t \in T : t \in 0 .. b /\ b - t \in Nat
    OBVIOUS
  <2> QED BY <2>1
<1>2. PICK d \in D : \A e \in D : d <= e
  <2> HIDE DEF D
  <2> QED BY <1>1, Least
<1>3. PICK t \in T : d = b - t
  OBVIOUS
<1>4. ASSUME NEW m \in T PROVE m <= t
  <2>1. b - m \in D
    OBVIOUS
  <2>2. d <= b - m
    BY <1>2, <2>1
  <2>3. m \in 0 .. b /\ t \in 0 .. b
    OBVIOUS
  <2> QED BY <1>3, <2>2, <2>3
<1> QED BY <1>4

-----------------------------------------------------------------------------
(* Cuts *)

(* The places from p on of a pattern of m places take what is left of n things *)
(* after the first i: a star takes any run, any other place one that fits it.  *)
Goes(cut, n, m, stars, fits, i, p) ==
  /\ cut \in [p .. m -> i .. n]
  /\ cut[p] = i /\ cut[m] = n
  /\ \A q \in p + 1 .. m :
       /\ q \in stars => cut[q - 1] <= cut[q]
       /\ q \notin stars => cut[q] = cut[q - 1] + 1 /\ <<cut[q], q>> \in fits

Cuts(n, m, stars, fits, i, p) == \E cut \in [p .. m -> i .. n] : Goes(cut, n, m, stars, fits, i, p)

(* After the last place nothing may be left.                                   *)
LEMMA CutsEnd ==
  ASSUME NEW n \in Nat, NEW m \in Nat, NEW stars, NEW fits, NEW i \in 0 .. n
  PROVE  Cuts(n, m, stars, fits, i, m) <=> i = n
<1>1. ASSUME Cuts(n, m, stars, fits, i, m) PROVE i = n
  BY <1>1 DEF Cuts, Goes
<1>2. ASSUME i = n PROVE Cuts(n, m, stars, fits, i, m)
  <2> DEFINE cut == [q \in m .. m |-> n]
  <2>1. cut \in [m .. m -> i .. n] /\ cut[m] = i /\ cut[m] = n
    BY <1>2
  <2>2. \A q \in m + 1 .. m : FALSE
    OBVIOUS
  <2> HIDE DEF cut
  <2> QED BY <2>1, <2>2 DEF Cuts, Goes
<1> QED BY <1>1, <1>2

(* What a cut has taken never shrinks.                                         *)
LEMMA CutsGrow ==
  ASSUME NEW n \in Nat, NEW m \in Nat, NEW stars, NEW fits, NEW i \in 0 .. n, NEW p \in 0 .. m - 1,
         NEW cut, Goes(cut, n, m, stars, fits, i, p)
  PROVE  \A q \in p + 1 .. m : cut[q] \in cut[p + 1] .. n
<1>1. \A q \in p .. m : cut[q] \in i .. n
  BY DEF Goes
<1> SUFFICES ASSUME NEW q \in p + 1 .. m, cut[q] < cut[p + 1] PROVE FALSE
  BY <1>1
<1> DEFINE Bad == {r \in p + 1 .. m : cut[r] < cut[p + 1]}
<1>2. Bad \in SUBSET Nat /\ Bad # {}
  OBVIOUS
<1>3. PICK r \in Bad : \A s \in Bad : r <= s
  <2> HIDE DEF Bad
  <2> QED BY <1>2, Least
<1>4. r # p + 1 /\ r \in p + 1 .. m /\ cut[r] < cut[p + 1]
  BY <1>1
<1>5. r - 1 \in p + 1 .. m /\ r - 1 \notin Bad
  BY <1>3, <1>4
<1>6. cut[r - 1] \in Int /\ cut[r] \in Int /\ cut[p + 1] \in Int
  BY <1>1, <1>4, <1>5
<1>7. cut[r - 1] <= cut[r]
  <2>1. /\ r \in stars => cut[r - 1] <= cut[r]
        /\ r \notin stars => cut[r] = cut[r - 1] + 1
    BY <1>4, Zenon DEF Goes
  <2> QED BY <1>6, <2>1
<1> QED BY <1>4, <1>5, <1>6, <1>7

(* Without its first place a cut is a cut still.                               *)
LEMMA CutsRest ==
  ASSUME NEW n \in Nat, NEW m \in Nat, NEW stars, NEW fits, NEW i \in 0 .. n, NEW p \in 0 .. m - 1,
         NEW cut, Goes(cut, n, m, stars, fits, i, p)
  PROVE  Cuts(n, m, stars, fits, cut[p + 1], p + 1)
<1> DEFINE rest == [q \in p + 1 .. m |-> cut[q]]
<1>1. \A q \in p + 1 .. m : cut[q] \in cut[p + 1] .. n
  BY CutsGrow
<1>2. rest \in [p + 1 .. m -> cut[p + 1] .. n] /\ rest[p + 1] = cut[p + 1] /\ rest[m] = n
  BY <1>1 DEF Goes
<1>3. ASSUME NEW q \in p + 1 + 1 .. m
      PROVE  /\ q \in stars => rest[q - 1] <= rest[q]
             /\ q \notin stars => rest[q] = rest[q - 1] + 1 /\ <<rest[q], q>> \in fits
  <2>1. q \in p + 1 .. m /\ q - 1 \in p + 1 .. m
    OBVIOUS
  <2>2. rest[q] = cut[q] /\ rest[q - 1] = cut[q - 1]
    BY <2>1
  <2> QED BY <2>1, <2>2 DEF Goes
<1> HIDE DEF rest
<1> QED BY <1>2, <1>3 DEF Cuts, Goes

(* And with a place before it that takes what it may.                          *)
LEMMA CutsMore ==
  ASSUME NEW n \in Nat, NEW m \in Nat, NEW stars, NEW fits, NEW i \in 0 .. n, NEW p \in 0 .. m - 1,
         NEW t \in i .. n, Cuts(n, m, stars, fits, t, p + 1),
         p + 1 \notin stars => t = i + 1 /\ <<t, p + 1>> \in fits
  PROVE  Cuts(n, m, stars, fits, i, p)
<1>1. PICK rest \in [p + 1 .. m -> t .. n] : Goes(rest, n, m, stars, fits, t, p + 1)
  BY DEF Cuts
<1> DEFINE cut == [q \in p .. m |-> IF q = p THEN i ELSE rest[q]]
<1>2. \A q \in p + 1 .. m : cut[q] = rest[q] /\ rest[q] \in i .. n
  OBVIOUS
<1>3. cut[p] = i /\ cut[p + 1] = t /\ cut[m] = n
  BY <1>1, <1>2 DEF Goes
<1>4. cut \in [p .. m -> i .. n]
  BY <1>2
<1>5. ASSUME NEW q \in p + 1 .. m
      PROVE  /\ q \in stars => cut[q - 1] <= cut[q]
             /\ q \notin stars => cut[q] = cut[q - 1] + 1 /\ <<cut[q], q>> \in fits
  <2>1. CASE q = p + 1
    <3>1. q - 1 = p /\ cut[q - 1] = i /\ cut[q] = t /\ i <= t
      BY <1>3, <2>1
    <3>2. q \notin stars => t = i + 1 /\ <<t, q>> \in fits
      BY <2>1
    <3> HIDE DEF cut
    <3> QED BY <3>1, <3>2
  <2>2. CASE q \in p + 1 + 1 .. m
    <3>1. cut[q] = rest[q] /\ cut[q - 1] = rest[q - 1]
      BY <1>2, <2>2
    <3> HIDE DEF cut
    <3> QED BY <1>1, <2>2, <3>1 DEF Goes
  <2> QED BY <2>1, <2>2
<1> HIDE DEF cut
<1> QED BY <1>3, <1>4, <1>5 DEF Cuts, Goes

(* A place that is no star takes the next thing, which has to fit.             *)
LEMMA CutsLiteral ==
  ASSUME NEW n \in Nat, NEW m \in Nat, NEW stars, NEW fits, NEW i \in 0 .. n, NEW p \in 0 .. m - 1,
         p + 1 \notin stars
  PROVE  Cuts(n, m, stars, fits, i, p)
           <=> i < n /\ <<i + 1, p + 1>> \in fits /\ Cuts(n, m, stars, fits, i + 1, p + 1)
<1>1. ASSUME Cuts(n, m, stars, fits, i, p)
      PROVE  i < n /\ <<i + 1, p + 1>> \in fits /\ Cuts(n, m, stars, fits, i + 1, p + 1)
  <2>1. PICK cut : cut \in [p .. m -> i .. n] /\ Goes(cut, n, m, stars, fits, i, p)
    BY <1>1 DEF Cuts
  <2>2. cut[p + 1] = i + 1 /\ <<i + 1, p + 1>> \in fits /\ cut[p + 1] <= n
    <3>1. p + 1 \in p + 1 .. m /\ p + 1 - 1 = p /\ cut[p + 1] \in i .. n
      BY <2>1
    <3>2. cut[p] = i
      BY <2>1 DEF Goes
    <3>3. cut[p + 1] = cut[p + 1 - 1] + 1 /\ <<cut[p + 1], p + 1>> \in fits
      <4>1. \A q \in p + 1 .. m : q \notin stars => cut[q] = cut[q - 1] + 1 /\ <<cut[q], q>> \in fits
        BY <2>1 DEF Goes
      <4>2. p + 1 \notin stars
        OBVIOUS
      <4> QED BY <3>1, <4>1, <4>2
    <3>4. cut[p + 1] = i + 1
      BY <3>1, <3>2, <3>3
    <3> QED BY <3>1, <3>3, <3>4
  <2>3. Cuts(n, m, stars, fits, cut[p + 1], p + 1)
    BY <2>1, CutsRest
  <2> QED BY <2>2, <2>3
<1>2. ASSUME i < n, <<i + 1, p + 1>> \in fits, Cuts(n, m, stars, fits, i + 1, p + 1)
      PROVE  Cuts(n, m, stars, fits, i, p)
  <2>1. i + 1 \in i .. n
    BY <1>2
  <2> QED BY <1>2, <2>1, CutsMore
<1> QED BY <1>1, <1>2

(* A star takes any run of what is left.                                       *)
LEMMA CutsStar ==
  ASSUME NEW n \in Nat, NEW m \in Nat, NEW stars, NEW fits, NEW i \in 0 .. n, NEW p \in 0 .. m - 1,
         p + 1 \in stars
  PROVE  Cuts(n, m, stars, fits, i, p) <=> \E t \in i .. n : Cuts(n, m, stars, fits, t, p + 1)
<1>1. ASSUME Cuts(n, m, stars, fits, i, p)
      PROVE  \E t \in i .. n : Cuts(n, m, stars, fits, t, p + 1)
  <2>1. PICK cut : cut \in [p .. m -> i .. n] /\ Goes(cut, n, m, stars, fits, i, p)
    BY <1>1 DEF Cuts
  <2>2. cut[p + 1] \in i .. n
    BY <2>1
  <2>3. Cuts(n, m, stars, fits, cut[p + 1], p + 1)
    BY <2>1, CutsRest
  <2> QED BY <2>2, <2>3
<1>2. ASSUME NEW t \in i .. n, Cuts(n, m, stars, fits, t, p + 1)
      PROVE  Cuts(n, m, stars, fits, i, p)
  BY <1>2, CutsMore
<1> QED BY <1>1, <1>2

(* Places that are no stars take one thing each.                               *)
LEMMA CutsBlock ==
  ASSUME NEW n \in Nat, NEW m \in Nat, NEW stars, NEW fits, NEW i \in 0 .. n, NEW p \in 0 .. m,
         NEW k \in 0 .. m - p, \A q \in p + 1 .. p + k : q \notin stars,
         Cuts(n, m, stars, fits, i, p)
  PROVE  i + k <= n /\ Cuts(n, m, stars, fits, i + k, p + k)
<1> DEFINE Bad == {j \in 0 .. k : ~(i + j <= n /\ Cuts(n, m, stars, fits, i + j, p + j))}
<1> SUFFICES ASSUME Bad # {} PROVE FALSE
  BY DEF Bad
<1>1. Bad \in SUBSET Nat
  OBVIOUS
<1>2. PICK j \in Bad : \A h \in Bad : j <= h
  <2> HIDE DEF Bad
  <2> QED BY <1>1, Least
<1>3. j \in 0 .. k /\ ~(i + j <= n /\ Cuts(n, m, stars, fits, i + j, p + j))
  OBVIOUS
<1>4. j # 0
  <2>1. i + 0 = i /\ p + 0 = p /\ i <= n
    OBVIOUS
  <2> QED BY <1>3, <2>1
<1> DEFINE h == j - 1
<1>5. h \in 0 .. k /\ h \notin Bad
  BY <1>2, <1>3, <1>4
<1>6. i + h <= n /\ Cuts(n, m, stars, fits, i + h, p + h)
  BY <1>5
<1>7. i + h \in 0 .. n /\ p + h \in 0 .. m - 1 /\ p + h + 1 \notin stars
  BY <1>3, <1>4, <1>6
<1>8. i + h < n /\ Cuts(n, m, stars, fits, i + h + 1, p + h + 1)
  BY <1>6, <1>7, CutsLiteral
<1>9. i + h + 1 = i + j /\ p + h + 1 = p + j
  BY <1>3
<1> QED BY <1>3, <1>7, <1>8, <1>9
-----------------------------------------------------------------------------
(* One segment *)

Stars(pattern, star) == {p \in 1 .. Len(pattern) : pattern[p] = star}
Fits(value, pattern) == {x \in (1 .. Len(value)) \X (1 .. Len(pattern)) : value[x[1]] = pattern[x[2]]}

SegmentCuts(value, pattern, i, p) ==
  Cuts(Len(value), Len(pattern), Stars(pattern, "*"), Fits(value, pattern), i, p)

(* What a pattern of a segment denotes, by cuts.                               *)
LEMMA SegmentDenotesCuts ==
  ASSUME NEW value \in Seq(Chars), NEW pattern \in Seq(Chars)
  PROVE  SegmentDenotes(value, pattern) <=> SegmentCuts(value, pattern, 0, 0)
<1> DEFINE n == Len(value)
           m == Len(pattern)
           stars == Stars(pattern, "*")
           fits == Fits(value, pattern)
<1>1. n \in Nat /\ m \in Nat
  OBVIOUS
<1>2. ASSUME NEW cut \in [0 .. m -> 0 .. n], NEW q \in 1 .. m
      PROVE  (IF pattern[q] = "*" THEN cut[q - 1] <= cut[q]
              ELSE cut[q] = cut[q - 1] + 1 /\ value[cut[q]] = pattern[q])
             <=> /\ q \in stars => cut[q - 1] <= cut[q]
                 /\ q \notin stars => cut[q] = cut[q - 1] + 1 /\ <<cut[q], q>> \in fits
  <2>1. q \in stars <=> pattern[q] = "*"
    BY DEF Stars
  <2>2. cut[q] \in 0 .. n /\ cut[q - 1] \in 0 .. n
    BY <1>1
  <2>3. cut[q] = cut[q - 1] + 1 => (value[cut[q]] = pattern[q] <=> <<cut[q], q>> \in fits)
    BY <1>1, <2>2 DEF Fits
  <2> QED BY <2>1, <2>3
<1>3. ASSUME NEW cut \in [0 .. m -> 0 .. n]
      PROVE  (/\ cut[0] = 0 /\ cut[m] = n
              /\ \A q \in 1 .. m :
                   IF pattern[q] = "*" THEN cut[q - 1] <= cut[q]
                   ELSE cut[q] = cut[q - 1] + 1 /\ value[cut[q]] = pattern[q])
             <=> Goes(cut, n, m, stars, fits, 0, 0)
  <2>1. 0 + 1 .. m = 1 .. m
    OBVIOUS
  <2> HIDE DEF n, m, stars, fits
  <2> QED BY <1>2, <2>1, Zenon DEF Goes
<1> QED BY <1>3 DEF SegmentDenotes, SegmentCuts, Cuts

SegmentBody(loop, value, pattern, s) ==
  CASE s.v > Len(value) -> \A p \in s.p .. Len(pattern) : pattern[p] = "*"
    [] s.v <= Len(value) /\ s.p <= Len(pattern) /\ pattern[s.p] = value[s.v] ->
         loop[Place(s.v + 1, s.p + 1, s.star, s.took)]
    [] s.v <= Len(value) /\ s.p <= Len(pattern) /\ pattern[s.p] = "*" /\ value[s.v] # "*" ->
         loop[Place(s.v, s.p + 1, s.p, s.v)]
    [] OTHER -> s.star > 0 /\ loop[Place(s.took + 1, s.star + 1, s.star, s.took + 1)]

(* A state by its fields.                                                      *)
SegmentFields(value, pattern, v, p, star, took) ==
  /\ v \in 1 .. Len(value) + 1 /\ p \in 1 .. Len(pattern) + 1
  /\ star \in 0 .. Len(pattern) /\ took \in 0 .. Len(value) + 1
  /\ star < p /\ took <= v
  /\ star > 0 => v - took = p - star - 1 /\ \A q \in star + 1 .. p - 1 : pattern[q] # "*"

LEMMA PlaceFields ==
  ASSUME NEW value, NEW pattern, NEW s \in Places(value, pattern)
  PROVE  /\ SegmentFields(value, pattern, s.v, s.p, s.star, s.took)
         /\ s = Place(s.v, s.p, s.star, s.took)
BY DEF Places, SegmentFields, Place

LEMMA PlaceIsPlace ==
  ASSUME NEW value, NEW pattern, NEW v, NEW p, NEW star, NEW took,
         SegmentFields(value, pattern, v, p, star, took)
  PROVE  Place(v, p, star, took) \in Places(value, pattern)
BY DEF Places, SegmentFields, Place

(* The places the loop goes on to are places.                                  *)
LEMMA SegmentCharacter ==
  ASSUME NEW value, NEW pattern, Len(value) \in Nat, Len(pattern) \in Nat,
         NEW v, NEW p, NEW star, NEW took,
         SegmentFields(value, pattern, v, p, star, took),
         v <= Len(value), p <= Len(pattern), pattern[p] # "*"
  PROVE  SegmentFields(value, pattern, v + 1, p + 1, star, took)
<1>1. star > 0 => \A q \in star + 1 .. p + 1 - 1 : pattern[q] # "*"
  <2> SUFFICES ASSUME star > 0, NEW q \in star + 1 .. p + 1 - 1 PROVE pattern[q] # "*"
    OBVIOUS
  <2>1. q = p \/ q \in star + 1 .. p - 1
    BY DEF SegmentFields
  <2> QED BY <2>1 DEF SegmentFields
<1> QED BY <1>1 DEF SegmentFields

LEMMA SegmentStar ==
  ASSUME NEW value, NEW pattern, Len(value) \in Nat, Len(pattern) \in Nat,
         NEW v, NEW p, NEW star, NEW took,
         SegmentFields(value, pattern, v, p, star, took), v <= Len(value), p <= Len(pattern)
  PROVE  SegmentFields(value, pattern, v, p + 1, p, v)
BY DEF SegmentFields

LEMMA SegmentBack ==
  ASSUME NEW value, NEW pattern, Len(value) \in Nat, Len(pattern) \in Nat,
         NEW v, NEW p, NEW star, NEW took,
         SegmentFields(value, pattern, v, p, star, took), v <= Len(value), star > 0
  PROVE  SegmentFields(value, pattern, took + 1, star + 1, star, took + 1)
BY DEF SegmentFields

LEMMA PlaceHasFields ==
  ASSUME NEW v, NEW p, NEW star, NEW took
  PROVE  /\ Place(v, p, star, took).v = v /\ Place(v, p, star, took).p = p
         /\ Place(v, p, star, took).star = star /\ Place(v, p, star, took).took = took
BY DEF Place

(* When the value is used up, only stars may be left.                          *)
LEMMA OnlyStars ==
  ASSUME NEW value \in Seq(Chars), NEW pattern \in Seq(Chars), NEW p \in 1 .. Len(pattern) + 1
  PROVE  SegmentCuts(value, pattern, Len(value), p - 1)
           <=> \A q \in p .. Len(pattern) : pattern[q] = "*"
<1> DEFINE n == Len(value)
           m == Len(pattern)
           stars == Stars(pattern, "*")
           fits == Fits(value, pattern)
<1>1. n \in Nat /\ m \in Nat /\ p - 1 \in 0 .. m
  OBVIOUS
<1>2. ASSUME NEW q \in p .. m PROVE q \in stars <=> pattern[q] = "*"
  BY DEF Stars
<1>3. ASSUME \A q \in p .. m : pattern[q] = "*" PROVE Cuts(n, m, stars, fits, n, p - 1)
  <2> DEFINE cut == [q \in p - 1 .. m |-> n]
  <2>1. cut \in [p - 1 .. m -> n .. n] /\ cut[p - 1] = n /\ cut[m] = n
    BY <1>1
  <2>2. ASSUME NEW q \in p - 1 + 1 .. m PROVE q \in stars /\ cut[q - 1] <= cut[q]
    BY <1>1, <1>2, <1>3
  <2> HIDE DEF cut, n, m, stars, fits
  <2> QED BY <2>1, <2>2 DEF Cuts, Goes
<1>4. ASSUME Cuts(n, m, stars, fits, n, p - 1), NEW q \in p .. m PROVE pattern[q] = "*"
  <2>1. PICK cut : cut \in [p - 1 .. m -> n .. n] /\ Goes(cut, n, m, stars, fits, n, p - 1)
    BY <1>4 DEF Cuts
  <2>2. cut[q] = n /\ cut[q - 1] = n
    BY <1>1, <2>1
  <2>3. cut[q] # cut[q - 1] + 1
    BY <1>1, <2>2
  <2>4. q \in p - 1 + 1 .. m
    BY <1>1
  <2>5. q \in stars
    <3> HIDE DEF n, m, stars, fits
    <3> QED BY <2>1, <2>3, <2>4, Zenon DEF Goes
  <2> QED BY <1>2, <2>5
<1> QED BY <1>3, <1>4 DEF SegmentCuts

Verdict(value, pattern, v, p, star, took) ==
  \/ SegmentCuts(value, pattern, v - 1, p - 1)
  \/ star > 0 /\ \E t \in took .. Len(value) : SegmentCuts(value, pattern, t, star)

(* The run of characters since the star fits one place further on when the     *)
(* star takes more.                                                            *)
LEMMA StarTakesMore ==
  ASSUME NEW value \in Seq(Chars), NEW pattern \in Seq(Chars),
         NEW v, NEW p, NEW star, NEW took, SegmentFields(value, pattern, v, p, star, took), star > 0,
         NEW t \in took .. Len(value), SegmentCuts(value, pattern, t, star)
  PROVE  /\ t + (v - took) \in v .. Len(value)
         /\ SegmentCuts(value, pattern, t + (v - took), p - 1)
<1> DEFINE n == Len(value)
           m == Len(pattern)
           stars == Stars(pattern, "*")
           fits == Fits(value, pattern)
           k == p - star - 1
<1>1. /\ n \in Nat /\ m \in Nat /\ v \in 1 .. n + 1 /\ p \in 1 .. m + 1
      /\ star \in 0 .. m /\ took \in 0 .. n + 1 /\ star < p /\ took <= v /\ v - took = k
  BY DEF SegmentFields
<1>2. t \in 0 .. n /\ k \in 0 .. m - star
  BY <1>1
<1>3. \A q \in star + 1 .. star + k : q \notin stars
  <2> SUFFICES ASSUME NEW q \in star + 1 .. star + k PROVE pattern[q] # "*"
    BY DEF Stars
  <2>1. q \in star + 1 .. p - 1
    BY <1>1
  <2> QED BY <2>1 DEF SegmentFields
<1>4. Cuts(n, m, stars, fits, t, star)
  BY DEF SegmentCuts
<1>5. t + k <= n /\ Cuts(n, m, stars, fits, t + k, star + k)
  <2> HIDE DEF n, m, stars, fits, k
  <2> QED BY <1>1, <1>2, <1>3, <1>4, CutsBlock
<1>6. star + k = p - 1 /\ t + k = t + (v - took) /\ t + k >= v
  BY <1>1, <1>2
<1>7. t + k \in v .. n
  BY <1>1, <1>2, <1>5, <1>6
<1> QED BY <1>5, <1>6, <1>7 DEF SegmentCuts

(* What is found at a place follows from what is found at the next.            *)
LEMMA VerdictAtEnd ==
  ASSUME NEW value \in Seq(Chars), NEW pattern \in Seq(Chars),
         NEW v, NEW p, NEW star, NEW took, SegmentFields(value, pattern, v, p, star, took),
         v > Len(value)
  PROVE  Verdict(value, pattern, v, p, star, took) <=> \A q \in p .. Len(pattern) : pattern[q] = "*"
<1>1. v = Len(value) + 1 /\ v - 1 = Len(value) /\ p \in 1 .. Len(pattern) + 1
  BY DEF SegmentFields
<1>2. SegmentCuts(value, pattern, v - 1, p - 1) <=> \A q \in p .. Len(pattern) : pattern[q] = "*"
  BY <1>1, OnlyStars
<1>3. ASSUME star > 0, NEW t \in took .. Len(value), SegmentCuts(value, pattern, t, star) PROVE FALSE
  <2>1. t + (v - took) \in v .. Len(value)
    BY <1>3, StarTakesMore
  <2> QED BY <1>1, <2>1
<1> QED BY <1>2, <1>3 DEF Verdict

LEMMA VerdictAtCharacter ==
  ASSUME NEW value \in Seq(Chars), NEW pattern \in Seq(Chars),
         NEW v, NEW p, NEW star, NEW took, SegmentFields(value, pattern, v, p, star, took),
         v <= Len(value), p <= Len(pattern), pattern[p] = value[v], pattern[p] # "*"
  PROVE  Verdict(value, pattern, v, p, star, took)
           <=> Verdict(value, pattern, v + 1, p + 1, star, took)
<1> DEFINE n == Len(value)
           m == Len(pattern)
           stars == Stars(pattern, "*")
           fits == Fits(value, pattern)
<1>1. n \in Nat /\ m \in Nat /\ v \in 1 .. n /\ p \in 1 .. m
  BY DEF SegmentFields
<1>2. v - 1 \in 0 .. n /\ p - 1 \in 0 .. m - 1 /\ v - 1 + 1 = v /\ p - 1 + 1 = p /\ v + 1 - 1 = v
      /\ p + 1 - 1 = p /\ v - 1 < n
  BY <1>1
<1>3. p \notin stars /\ <<v, p>> \in fits
  BY <1>1 DEF Stars, Fits
<1>4. Cuts(n, m, stars, fits, v - 1, p - 1) <=> Cuts(n, m, stars, fits, v, p)
  <2> HIDE DEF n, m, stars, fits
  <2>1. Cuts(n, m, stars, fits, v - 1, p - 1)
          <=> v - 1 < n /\ <<v - 1 + 1, p - 1 + 1>> \in fits
              /\ Cuts(n, m, stars, fits, v - 1 + 1, p - 1 + 1)
    BY <1>1, <1>2, <1>3, CutsLiteral
  <2> QED BY <1>2, <1>3, <2>1
<1> QED BY <1>2, <1>4 DEF Verdict, SegmentCuts

LEMMA VerdictAtStar ==
  ASSUME NEW value \in Seq(Chars), NEW pattern \in Seq(Chars),
         NEW v, NEW p, NEW star, NEW took, SegmentFields(value, pattern, v, p, star, took),
         v <= Len(value), p <= Len(pattern), pattern[p] = "*"
  PROVE  Verdict(value, pattern, v, p, star, took) <=> Verdict(value, pattern, v, p + 1, p, v)
<1> DEFINE n == Len(value)
           m == Len(pattern)
           stars == Stars(pattern, "*")
           fits == Fits(value, pattern)
           At(i, q) == SegmentCuts(value, pattern, i, q)
<1>1. n \in Nat /\ m \in Nat /\ v \in 1 .. n /\ p \in 1 .. m /\ p > 0
  BY DEF SegmentFields
<1>2. v - 1 \in 0 .. n /\ p - 1 \in 0 .. m - 1 /\ p - 1 + 1 = p /\ p + 1 - 1 = p
  BY <1>1
<1>3. p \in stars
  BY <1>1 DEF Stars
<1>4. ASSUME NEW i \in 0 .. n PROVE At(i, p - 1) <=> \E t \in i .. n : At(t, p)
  <2>1. Cuts(n, m, stars, fits, i, p - 1) <=> \E t \in i .. n : Cuts(n, m, stars, fits, t, p - 1 + 1)
    <3> HIDE DEF n, m, stars, fits
    <3> QED BY <1>1, <1>2, <1>3, CutsStar
  <2> QED BY <1>2, <2>1 DEF SegmentCuts
<1>5. At(v - 1, p - 1) <=> At(v - 1, p) \/ \E t \in v .. n : At(t, p)
  <2>1. \A t : t \in v - 1 .. n <=> t = v - 1 \/ t \in v .. n
    BY <1>1
  <2> HIDE DEF At, n
  <2> QED BY <1>2, <1>4, <2>1
<1>6. ASSUME star > 0, NEW t \in took .. n, At(t, star) PROVE At(v - 1, p - 1)
  <2> DEFINE u == t + (v - took)
  <2>1. u \in v .. n /\ At(u, p - 1)
    BY <1>6, StarTakesMore
  <2>2. u \in 0 .. n
    BY <1>1, <2>1
  <2>3. PICK w \in u .. n : At(w, p)
    <3> HIDE DEF At, n, u
    <3> QED BY <1>4, <2>1, <2>2
  <2>4. w \in v - 1 .. n
    BY <1>1, <2>1, <2>2, <2>3
  <2> HIDE DEF At, n
  <2> QED BY <1>2, <1>4, <2>3, <2>4
<1>7. Verdict(value, pattern, v, p, star, took) <=> At(v - 1, p - 1)
  BY <1>6 DEF Verdict
<1>8. Verdict(value, pattern, v, p + 1, p, v) <=> At(v - 1, p) \/ \E t \in v .. n : At(t, p)
  BY <1>1, <1>2 DEF Verdict
<1> HIDE DEF At, n
<1> QED BY <1>5, <1>7, <1>8

LEMMA VerdictElsewhere ==
  ASSUME NEW value \in Seq(Chars), NEW pattern \in Seq(Chars),
         NEW v, NEW p, NEW star, NEW took, SegmentFields(value, pattern, v, p, star, took),
         v <= Len(value),
         p <= Len(pattern) => pattern[p] # value[v] /\ pattern[p] # "*"
  PROVE  Verdict(value, pattern, v, p, star, took)
           <=> star > 0 /\ Verdict(value, pattern, took + 1, star + 1, star, took + 1)
<1> DEFINE n == Len(value)
           m == Len(pattern)
           stars == Stars(pattern, "*")
           fits == Fits(value, pattern)
           At(i, q) == SegmentCuts(value, pattern, i, q)
<1>1. /\ n \in Nat /\ m \in Nat /\ v \in 1 .. n /\ p \in 1 .. m + 1
      /\ took \in 0 .. n /\ star \in 0 .. m
  BY DEF SegmentFields
<1>2. ~At(v - 1, p - 1)
  <2>1. CASE p = m + 1
    <3>1. v - 1 \in 0 .. n /\ p - 1 = m /\ v - 1 # n
      BY <1>1, <2>1
    <3>2. ~Cuts(n, m, stars, fits, v - 1, m)
      <4> HIDE DEF n, m, stars, fits
      <4> QED BY <1>1, <3>1, CutsEnd
    <3> QED BY <3>1, <3>2 DEF SegmentCuts
  <2>2. CASE p \in 1 .. m
    <3>1. v - 1 \in 0 .. n /\ p - 1 \in 0 .. m - 1 /\ v - 1 + 1 = v /\ p - 1 + 1 = p
      BY <1>1, <2>2
    <3>2. p \notin stars /\ <<v, p>> \notin fits
      BY <1>1, <2>2 DEF Stars, Fits
    <3>3. Cuts(n, m, stars, fits, v - 1, p - 1) => <<v - 1 + 1, p - 1 + 1>> \in fits
      <4> HIDE DEF n, m, stars, fits
      <4> QED BY <1>1, <3>1, <3>2, CutsLiteral
    <3> QED BY <3>1, <3>2, <3>3 DEF SegmentCuts
  <2> QED BY <1>1, <2>1, <2>2
<1>3. \A t : t \in took .. n <=> t = took \/ t \in took + 1 .. n
  BY <1>1
<1>4. took + 1 - 1 = took /\ star + 1 - 1 = star
  BY <1>1
<1>5. Verdict(value, pattern, took + 1, star + 1, star, took + 1)
        <=> At(took, star) \/ (star > 0 /\ \E t \in took + 1 .. n : At(t, star))
  BY <1>1, <1>4 DEF Verdict
<1>6. Verdict(value, pattern, v, p, star, took) <=> star > 0 /\ \E t \in took .. n : At(t, star)
  BY <1>2 DEF Verdict
<1> HIDE DEF At, n
<1> QED BY <1>3, <1>5, <1>6

(* A state that the loop meets later.                                          *)
Later(r, s) ==
  \/ r.took > s.took
  \/ r.took = s.took /\ r.star > s.star
  \/ r.took = s.took /\ r.star = s.star /\ r.v > s.v

VerdictOf(value, pattern, s) == Verdict(value, pattern, s.v, s.p, s.star, s.took)

(* The loop is right at a place when it is at all the later ones.              *)
LEMMA SegmentBodyAnswers ==
  ASSUME NEW value \in Seq(Chars), NEW pattern \in Seq(Chars),
         \A i \in 1 .. Len(value) : value[i] # "*",
         NEW s \in Places(value, pattern), NEW loop,
         \A r \in Places(value, pattern) : Later(r, s) => loop[r] = VerdictOf(value, pattern, r)
  PROVE  SegmentBody(loop, value, pattern, s) = VerdictOf(value, pattern, s)
<1> DEFINE v == s.v
           p == s.p
           star == s.star
           took == s.took
           n == Len(value)
           m == Len(pattern)
<1>1. SegmentFields(value, pattern, v, p, star, took)
  BY PlaceFields
<1>2. /\ n \in Nat /\ m \in Nat /\ v \in 1 .. n + 1 /\ p \in 1 .. m + 1
      /\ star \in 0 .. m /\ took \in 0 .. n + 1 /\ took <= v /\ star < p
  BY <1>1 DEF SegmentFields
<1>3. ASSUME NEW v1, NEW p1, NEW star1, NEW took1, SegmentFields(value, pattern, v1, p1, star1, took1),
             \/ took1 > took
             \/ took1 = took /\ star1 > star
             \/ took1 = took /\ star1 = star /\ v1 > v
      PROVE  loop[Place(v1, p1, star1, took1)] = Verdict(value, pattern, v1, p1, star1, took1)
  <2> DEFINE r == Place(v1, p1, star1, took1)
  <2>1. r \in Places(value, pattern)
    BY <1>3, PlaceIsPlace
  <2>2. r.v = v1 /\ r.p = p1 /\ r.star = star1 /\ r.took = took1
    BY PlaceHasFields
  <2>3. Later(r, s)
    <3> HIDE DEF r
    <3> QED BY <1>3, <2>2 DEF Later
  <2>4. loop[r] = VerdictOf(value, pattern, r)
    BY <2>1, <2>3
  <2>5. loop[r] = Verdict(value, pattern, v1, p1, star1, took1)
    <3> HIDE DEF r
    <3> QED BY <2>2, <2>4 DEF VerdictOf
  <2> QED BY <2>5
<1>4. CASE v > n
  <2>1. SegmentBody(loop, value, pattern, s) = \A q \in p .. m : pattern[q] = "*"
    <3>1. s.v > Len(value) /\ ~(s.v <= Len(value))
      BY <1>2, <1>4
    <3> QED BY <3>1, Zenon DEF SegmentBody
  <2>2. Verdict(value, pattern, v, p, star, took) <=> \A q \in p .. m : pattern[q] = "*"
    BY <1>1, <1>4, VerdictAtEnd
  <2> QED BY <2>1, <2>2 DEF VerdictOf, Verdict
<1>5. CASE v <= n /\ p <= m /\ pattern[p] = value[v]
  <2>1. SegmentBody(loop, value, pattern, s) = loop[Place(v + 1, p + 1, star, took)]
    <3>1. ~(s.v > Len(value))
      BY <1>2, <1>5
    <3>2. value[s.v] # "*"
      BY <1>2, <1>5
    <3> QED BY <1>5, <3>1, <3>2, Zenon DEF SegmentBody
  <2>2. pattern[p] # "*"
    BY <1>2, <1>5
  <2>3. SegmentFields(value, pattern, v + 1, p + 1, star, took)
    BY <1>1, <1>2, <1>5, <2>2, SegmentCharacter
  <2>4. v + 1 > v
    BY <1>2
  <2>5. loop[Place(v + 1, p + 1, star, took)] = Verdict(value, pattern, v + 1, p + 1, star, took)
    BY <1>3, <2>3, <2>4
  <2> QED BY <1>1, <1>5, <2>1, <2>2, <2>5, VerdictAtCharacter DEF VerdictOf, Verdict
<1>6. CASE v <= n /\ p <= m /\ pattern[p] # value[v] /\ pattern[p] = "*"
  <2>1. SegmentBody(loop, value, pattern, s) = loop[Place(v, p + 1, p, v)]
    <3>1. ~(s.v > Len(value))
      BY <1>2, <1>6
    <3>2. value[s.v] # "*"
      BY <1>2, <1>6
    <3> QED BY <1>6, <3>1, <3>2, Zenon DEF SegmentBody
  <2>2. SegmentFields(value, pattern, v, p + 1, p, v)
    BY <1>1, <1>2, <1>6, SegmentStar
  <2>3. v > took \/ (v = took /\ p > star)
    BY <1>2
  <2>4. loop[Place(v, p + 1, p, v)] = Verdict(value, pattern, v, p + 1, p, v)
    BY <1>3, <2>2, <2>3
  <2> QED BY <1>1, <1>6, <2>1, <2>4, VerdictAtStar DEF VerdictOf, Verdict
<1>7. CASE v <= n /\ (p <= m => pattern[p] # value[v] /\ pattern[p] # "*")
  <2>1. SegmentBody(loop, value, pattern, s)
          = (star > 0 /\ loop[Place(took + 1, star + 1, star, took + 1)])
    <3>1. ~(s.v > Len(value))
      BY <1>2, <1>7
    <3> QED BY <1>7, <3>1, Zenon DEF SegmentBody
  <2>2. ASSUME star > 0
        PROVE  loop[Place(took + 1, star + 1, star, took + 1)]
                 = Verdict(value, pattern, took + 1, star + 1, star, took + 1)
    <3>1. SegmentFields(value, pattern, took + 1, star + 1, star, took + 1)
      BY <1>1, <1>2, <1>7, <2>2, SegmentBack
    <3>2. took + 1 > took
      BY <1>2
    <3> QED BY <1>3, <3>1, <3>2
  <2>3. Verdict(value, pattern, v, p, star, took)
          <=> star > 0 /\ Verdict(value, pattern, took + 1, star + 1, star, took + 1)
    BY <1>1, <1>7, VerdictElsewhere
  <2> QED BY <2>1, <2>2, <2>3 DEF VerdictOf, Verdict
<1> QED BY <1>2, <1>4, <1>5, <1>6, <1>7

(* So it is right everywhere: take the last place where it is not.             *)
LEMMA SegmentLoopAnswers ==
  ASSUME NEW value \in Seq(Chars), NEW pattern \in Seq(Chars),
         \A i \in 1 .. Len(value) : value[i] # "*",
         NEW loop, loop = [s \in Places(value, pattern) |-> SegmentBody(loop, value, pattern, s)]
  PROVE  \A s \in Places(value, pattern) : loop[s] = VerdictOf(value, pattern, s)
<1> DEFINE n == Len(value)
           m == Len(pattern)
           Bad == {s \in Places(value, pattern) : loop[s] # VerdictOf(value, pattern, s)}
<1> SUFFICES ASSUME Bad # {} PROVE FALSE
  OBVIOUS
<1>1. n + 1 \in Nat /\ m \in Nat
  OBVIOUS
<1>2. \A s \in Bad : s \in Places(value, pattern) /\ s.took \in 0 .. n + 1 /\ s.star \in 0 .. m /\ s.v \in 0 .. n + 1
  BY PlaceFields DEF SegmentFields
<1>3. PICK took \in {s.took : s \in Bad} : \A t \in {s.took : s \in Bad} : t <= took
  <2>1. {s.took : s \in Bad} \in SUBSET (0 .. n + 1) /\ {s.took : s \in Bad} # {}
    BY <1>2
  <2> HIDE DEF Bad, n
  <2> QED BY <1>1, <2>1, Greatest
<1> DEFINE Bad2 == {s \in Bad : s.took = took}
<1>4. PICK star \in {s.star : s \in Bad2} : \A t \in {s.star : s \in Bad2} : t <= star
  <2>1. {s.star : s \in Bad2} \in SUBSET (0 .. m) /\ {s.star : s \in Bad2} # {}
    BY <1>2, <1>3
  <2> HIDE DEF Bad2, m
  <2> QED BY <1>1, <2>1, Greatest
<1> DEFINE Bad3 == {s \in Bad2 : s.star = star}
<1>5. PICK v \in {s.v : s \in Bad3} : \A t \in {s.v : s \in Bad3} : t <= v
  <2>1. \E s \in Bad2 : s.star = star
    <3> HIDE DEF Bad2
    <3> QED BY <1>4
  <2>2. {s.v : s \in Bad3} # {}
    <3>1. PICK r \in Bad2 : r.star = star
      BY <2>1
    <3>2. r \in Bad3
      <4> HIDE DEF Bad2
      <4> QED BY <3>1
    <3> HIDE DEF Bad3
    <3> QED BY <3>2
  <2>3. \A s \in Bad3 : s.v \in 0 .. n + 1
    <3> HIDE DEF n, Bad
    <3> QED BY <1>2
  <2>4. {s.v : s \in Bad3} \in SUBSET (0 .. n + 1)
    <3> HIDE DEF Bad3, n
    <3> QED BY <2>3
  <2> HIDE DEF Bad3, n
  <2> QED BY <1>1, <2>2, <2>4, Greatest
<1>6. PICK s \in Bad3 : s.v = v
  BY <1>5
<1>7. s \in Bad /\ s.took = took /\ s.star = star
  BY <1>6
<1>8. ASSUME NEW r \in Places(value, pattern), Later(r, s) PROVE loop[r] = VerdictOf(value, pattern, r)
  <2> SUFFICES ASSUME r \in Bad PROVE FALSE
    OBVIOUS
  <2>1. r.took \in 0 .. n + 1 /\ r.star \in 0 .. m /\ r.v \in 0 .. n + 1
        /\ s.took \in 0 .. n + 1 /\ s.star \in 0 .. m /\ s.v \in 0 .. n + 1
    BY <1>2, <1>7
  <2>2. r.took <= took
    BY <1>3
  <2>3. r.took = took => r.star <= star
    BY <1>4
  <2>4. r.took = took /\ r.star = star => r.v <= v
    BY <1>5
  <2> HIDE DEF Bad, Bad2, Bad3, n, m
  <2> QED BY <1>6, <1>7, <1>8, <2>1, <2>2, <2>3, <2>4 DEF Later
<1>9. SegmentBody(loop, value, pattern, s) = VerdictOf(value, pattern, s)
  <2>1. s \in Places(value, pattern)
    BY <1>7
  <2> HIDE DEF Bad, Bad2, Bad3, n, m
  <2> QED BY <1>8, <2>1, SegmentBodyAnswers
<1>10. s \in Places(value, pattern) /\ loop[s] # VerdictOf(value, pattern, s)
  BY <1>7
<1>11. loop[s] = SegmentBody(loop, value, pattern, s)
  BY <1>10
<1> QED BY <1>9, <1>10, <1>11

(* segmentMatches finds exactly the segments that a pattern denotes.           *)
LEMMA SegmentMatchesExactly ==
  ASSUME NEW value \in Seq(Chars), NEW pattern \in Seq(Chars),
         \A i \in 1 .. Len(value) : value[i] # "*"
  PROVE  SegmentMatches(value, pattern) = SegmentDenotes(value, pattern)
<1> DEFINE loop == CHOOSE loop : loop = [s \in Places(value, pattern) |->
                                          SegmentBody(loop, value, pattern, s)]
           start == Place(1, 1, 0, 0)
<1>1. SegmentMatches(value, pattern) = loop[start]
  BY DEF SegmentMatches, SegmentBody
<1>2. loop = [s \in Places(value, pattern) |-> SegmentBody(loop, value, pattern, s)]
  <2> DEFINE answer == [s \in Places(value, pattern) |-> VerdictOf(value, pattern, s)]
  <2>1. ASSUME NEW s \in Places(value, pattern)
        PROVE  SegmentBody(answer, value, pattern, s) = VerdictOf(value, pattern, s)
    <3>1. \A r \in Places(value, pattern) : Later(r, s) => answer[r] = VerdictOf(value, pattern, r)
      OBVIOUS
    <3> HIDE DEF answer
    <3> QED BY <3>1, SegmentBodyAnswers
  <2>2. answer = [s \in Places(value, pattern) |-> SegmentBody(answer, value, pattern, s)]
    BY <2>1, Zenon
  <2> HIDE DEF answer
  <2> QED BY <2>2, Zenon
<1>3. SegmentFields(value, pattern, 1, 1, 0, 0)
  BY DEF SegmentFields
<1>4. loop[start] = Verdict(value, pattern, 1, 1, 0, 0)
  <2>1. start \in Places(value, pattern)
    BY <1>3, PlaceIsPlace
  <2>2. loop[start] = VerdictOf(value, pattern, start)
    <3> HIDE DEF loop, start
    <3> QED BY <1>2, <2>1, SegmentLoopAnswers
  <2>3. start.v = 1 /\ start.p = 1 /\ start.star = 0 /\ start.took = 0
    BY PlaceHasFields
  <2> HIDE DEF start, loop
  <2> QED BY <2>2, <2>3 DEF VerdictOf
<1>5. Verdict(value, pattern, 1, 1, 0, 0) <=> SegmentCuts(value, pattern, 0, 0)
  <2>1. 1 - 1 = 0 /\ ~(0 > 0)
    OBVIOUS
  <2> QED BY <2>1, Zenon DEF Verdict
<1> HIDE DEF loop, start
<1> QED BY <1>1, <1>4, <1>5, SegmentDenotesCuts DEF SegmentDenotes, Verdict

-----------------------------------------------------------------------------
(* A path *)

PathFits(path, pattern) ==
  {x \in (1 .. Len(path)) \X (1 .. Len(pattern)) : SegmentDenotes(path[x[1]], pattern[x[2]])}

PathCuts(path, pattern, i, p) ==
  Cuts(Len(path), Len(pattern), Stars(pattern, AnySegments), PathFits(path, pattern), i, p)

(* What a pattern of a path denotes, by cuts.                                  *)
LEMMA DenotesCuts ==
  ASSUME NEW path \in Seq(Seq(Chars)), NEW pattern \in Seq(Seq(Chars))
  PROVE  Denotes(path, pattern) <=> PathCuts(path, pattern, 0, 0)
<1> DEFINE n == Len(path)
           m == Len(pattern)
           stars == Stars(pattern, AnySegments)
           fits == PathFits(path, pattern)
<1>1. n \in Nat /\ m \in Nat
  OBVIOUS
<1>2. ASSUME NEW cut \in [0 .. m -> 0 .. n], NEW q \in 1 .. m
      PROVE  (IF pattern[q] = AnySegments THEN cut[q - 1] <= cut[q]
              ELSE cut[q] = cut[q - 1] + 1 /\ SegmentDenotes(path[cut[q]], pattern[q]))
             <=> /\ q \in stars => cut[q - 1] <= cut[q]
                 /\ q \notin stars => cut[q] = cut[q - 1] + 1 /\ <<cut[q], q>> \in fits
  <2>1. q \in stars <=> pattern[q] = AnySegments
    BY DEF Stars
  <2>2. cut[q] \in 0 .. n /\ cut[q - 1] \in 0 .. n
    <3>1. q \in 0 .. m /\ q - 1 \in 0 .. m
      BY <1>1
    <3> HIDE DEF n, m
    <3> QED BY <3>1
  <2>3. cut[q] = cut[q - 1] + 1
          => (SegmentDenotes(path[cut[q]], pattern[q]) <=> <<cut[q], q>> \in fits)
    BY <1>1, <2>2 DEF PathFits
  <2> QED BY <2>1, <2>3
<1>3. ASSUME NEW cut \in [0 .. m -> 0 .. n]
      PROVE  (/\ cut[0] = 0 /\ cut[m] = n
              /\ \A q \in 1 .. m :
                   IF pattern[q] = AnySegments THEN cut[q - 1] <= cut[q]
                   ELSE cut[q] = cut[q - 1] + 1 /\ SegmentDenotes(path[cut[q]], pattern[q]))
             <=> Goes(cut, n, m, stars, fits, 0, 0)
  <2>1. 0 + 1 .. m = 1 .. m
    OBVIOUS
  <2> HIDE DEF n, m, stars, fits
  <2> QED BY <1>2, <2>1, Zenon DEF Goes
<1> QED BY <1>3 DEF Denotes, PathCuts, Cuts

MatchPlaces(path, pattern) == (1 .. Len(path) + 1) \X (1 .. Len(pattern) + 1)

MatchBody(match, path, pattern, s) ==
  CASE s[2] > Len(pattern) -> s[1] > Len(path)
    [] s[2] <= Len(pattern) /\ pattern[s[2]] = AnySegments ->
         match[<<s[1], s[2] + 1>>] \/ (s[1] <= Len(path) /\ match[<<s[1] + 1, s[2]>>])
    [] OTHER -> s[1] <= Len(path) /\ SegmentMatches(path[s[1]], pattern[s[2]])
                /\ match[<<s[1] + 1, s[2] + 1>>]

(* The places behind <<i, j>> are answered.                                    *)
LaterAnswered(match, path, pattern, i, j) ==
  \A k \in 1 .. Len(path) + 1, l \in 1 .. Len(pattern) + 1 :
    k + l > i + j => match[<<k, l>>] = PathCuts(path, pattern, k - 1, l - 1)

(* The table is right at a place when it is at all the later ones.             *)
LEMMA MatchBodyAnswers ==
  ASSUME NEW path \in Seq(Seq(Chars)), NEW pattern \in Seq(Seq(Chars)),
         StarFree(path),
         NEW i \in 1 .. Len(path) + 1, NEW j \in 1 .. Len(pattern) + 1, NEW match,
         LaterAnswered(match, path, pattern, i, j)
  PROVE  MatchBody(match, path, pattern, <<i, j>>) = PathCuts(path, pattern, i - 1, j - 1)
<1> DEFINE n == Len(path)
           m == Len(pattern)
           stars == Stars(pattern, AnySegments)
           fits == PathFits(path, pattern)
           s == <<i, j>>
           At(k, l) == PathCuts(path, pattern, k, l)
<1>1. n \in Nat /\ m \in Nat /\ i \in 1 .. n + 1 /\ j \in 1 .. m + 1
      /\ i - 1 \in 0 .. n /\ j - 1 \in 0 .. m /\ s[1] = i /\ s[2] = j
      /\ i - 1 + 1 = i /\ j - 1 + 1 = j /\ i + 1 - 1 = i /\ j + 1 - 1 = j
  OBVIOUS
<1>0. \A k, l : At(k, l) \in BOOLEAN
  BY DEF PathCuts, Cuts
<1>5. \A k \in 1 .. n + 1, l \in 1 .. m + 1 :
         k + l > i + j => match[<<k, l>>] = PathCuts(path, pattern, k - 1, l - 1)
  BY DEF LaterAnswered
<1>2. CASE j > m
  <2>1. j - 1 = m /\ (i > n <=> i - 1 = n)
    BY <1>1, <1>2
  <2>2. MatchBody(match, path, pattern, s) = (i > n)
    <3>1. j > Len(pattern) /\ ~(j <= Len(pattern))
      BY <1>1, <1>2
    <3>2. s[2] > Len(pattern) /\ ~(s[2] <= Len(pattern))
      BY <1>1, <3>1, Zenon
    <3>3. MatchBody(match, path, pattern, s) = (s[1] > Len(path))
      <4> HIDE DEF s
      <4> QED BY <3>2, Zenon DEF MatchBody
    <3> QED BY <1>1, <3>3, Zenon
  <2>3. Cuts(n, m, stars, fits, i - 1, m) <=> i - 1 = n
    <3> HIDE DEF n, m, stars, fits
    <3> QED BY <1>1, CutsEnd
  <2>4. At(i - 1, j - 1) <=> i - 1 = n
    BY <2>1, <2>3 DEF PathCuts
  <2>5. MatchBody(match, path, pattern, s) = At(i - 1, j - 1)
    <3> HIDE DEF At, n, s
    <3> QED BY <1>0, <2>1, <2>2, <2>4
  <2> QED BY <2>5
<1>3. CASE j <= m /\ pattern[j] = AnySegments
  <2>1. j \in stars /\ j - 1 \in 0 .. m - 1
    BY <1>1, <1>3 DEF Stars
  <2>2. MatchBody(match, path, pattern, s) = (match[<<i, j + 1>>] \/ (i <= n /\ match[<<i + 1, j>>]))
    <3>1. ~(s[2] > Len(pattern))
      BY <1>1, <1>3
    <3> QED BY <1>1, <1>3, <3>1, Zenon DEF MatchBody
  <2>3. match[<<i, j + 1>>] = At(i - 1, j)
    <3>1. j + 1 \in 1 .. m + 1 /\ i + (j + 1) > i + j
      BY <1>1, <1>3
    <3>2. match[<<i, j + 1>>] = PathCuts(path, pattern, i - 1, j + 1 - 1)
      <4> HIDE DEF n, m, s
      <4> QED BY <1>1, <1>5, <3>1
    <3> QED BY <1>1, <3>2
  <2>4. i <= n => match[<<i + 1, j>>] = At(i, j - 1)
    <3> SUFFICES ASSUME i <= n PROVE match[<<i + 1, j>>] = At(i, j - 1)
      OBVIOUS
    <3>1. i + 1 \in 1 .. n + 1 /\ i + 1 + j > i + j
      BY <1>1
    <3>2. match[<<i + 1, j>>] = PathCuts(path, pattern, i + 1 - 1, j - 1)
      <4> HIDE DEF n, m, s
      <4> QED BY <1>1, <1>5, <3>1
    <3> QED BY <1>1, <3>2
  <2>5. ASSUME NEW k \in 0 .. n PROVE At(k, j - 1) <=> \E t \in k .. n : At(t, j)
    <3>1. Cuts(n, m, stars, fits, k, j - 1) <=> \E t \in k .. n : Cuts(n, m, stars, fits, t, j - 1 + 1)
      <4> HIDE DEF n, m, stars, fits
      <4> QED BY <1>1, <2>1, CutsStar
    <3> QED BY <1>1, <3>1 DEF PathCuts
  <2>6. At(i - 1, j - 1) <=> At(i - 1, j) \/ (i <= n /\ At(i, j - 1))
    <3>1. \A t : t \in i - 1 .. n <=> t = i - 1 \/ (i <= n /\ t \in i .. n)
      <4>1. n \in Nat /\ i \in 1 .. n + 1
        BY <1>1
      <4> HIDE DEF n, m, s, At
      <4> QED BY <4>1
    <3>2. i <= n => i \in 0 .. n
      BY <1>1
    <3> HIDE DEF At, n
    <3> QED BY <1>1, <2>5, <3>1, <3>2
  <2> HIDE DEF At, n, s
  <2>7. MatchBody(match, path, pattern, s) = At(i - 1, j - 1)
    BY <1>0, <2>2, <2>3, <2>4, <2>6
  <2> QED BY <2>7 DEF At, s
<1>4. CASE j <= m /\ pattern[j] # AnySegments
  <2>1. j \notin stars /\ j - 1 \in 0 .. m - 1
    BY <1>1, <1>4 DEF Stars
  <2>2. MatchBody(match, path, pattern, s)
          = (i <= n /\ SegmentMatches(path[i], pattern[j]) /\ match[<<i + 1, j + 1>>])
    <3>1. ~(s[2] > Len(pattern))
      BY <1>1, <1>4
    <3> QED BY <1>1, <1>4, <3>1, Zenon DEF MatchBody
  <2>3. Cuts(n, m, stars, fits, i - 1, j - 1)
          <=> i - 1 < n /\ <<i - 1 + 1, j - 1 + 1>> \in fits /\ Cuts(n, m, stars, fits, i - 1 + 1, j - 1 + 1)
    <3> HIDE DEF n, m, stars, fits
    <3> QED BY <1>1, <2>1, CutsLiteral
  <2>4. i - 1 < n <=> i <= n
    BY <1>1
  <2>5. At(i - 1, j - 1) <=> i <= n /\ <<i, j>> \in fits /\ At(i, j)
    <3> HIDE DEF n, m, stars, fits
    <3> QED BY <1>1, <2>3, <2>4 DEF PathCuts, n, m, stars, fits
  <2>6. ASSUME i <= n
        PROVE  /\ SegmentMatches(path[i], pattern[j]) <=> <<i, j>> \in fits
               /\ match[<<i + 1, j + 1>>] = At(i, j)
    <3>1. i \in 1 .. n /\ j \in 1 .. m /\ i + 1 \in 1 .. n + 1 /\ j + 1 \in 1 .. m + 1
          /\ i + 1 + (j + 1) > i + j
      <4>1. j <= m
        BY <1>4
      <4>2. i <= n
        BY <2>6
      <4> HIDE DEF n, m, s, At, fits, stars
      <4> QED BY <1>1, <4>1, <4>2
    <3>2. path[i] \in Seq(Chars) /\ pattern[j] \in Seq(Chars)
      BY <3>1
    <3>3. SegmentMatches(path[i], pattern[j]) = SegmentDenotes(path[i], pattern[j])
      BY <3>1, <3>2, SegmentMatchesExactly DEF StarFree
    <3>4. <<i, j>> \in fits <=> SegmentDenotes(path[i], pattern[j])
      BY <3>1 DEF PathFits
    <3>5. match[<<i + 1, j + 1>>] = PathCuts(path, pattern, i + 1 - 1, j + 1 - 1)
      <4> HIDE DEF n, m, s
      <4> QED BY <1>1, <1>5, <3>1
    <3> QED BY <1>1, <3>3, <3>4, <3>5
  <2> HIDE DEF At, n, s, fits
  <2>7. MatchBody(match, path, pattern, s) = At(i - 1, j - 1)
    BY <1>0, <2>2, <2>5, <2>6
  <2> QED BY <2>7 DEF At, s
<1> QED BY <1>1, <1>2, <1>3, <1>4

(* So it is right at the first.                                                *)
LEMMA MatchLoopAnswers ==
  ASSUME NEW path \in Seq(Seq(Chars)), NEW pattern \in Seq(Seq(Chars)),
         StarFree(path),
         NEW match, match = [s \in MatchPlaces(path, pattern) |-> MatchBody(match, path, pattern, s)]
  PROVE  match[<<1, 1>>] = PathCuts(path, pattern, 0, 0)
<1> DEFINE n == Len(path)
           m == Len(pattern)
           Wrong(i, j) == match[<<i, j>>] # PathCuts(path, pattern, i - 1, j - 1)
           Bad == {d \in 0 .. n + m + 2 : \E i \in 1 .. n + 1, j \in 1 .. m + 1 : d = i + j /\ Wrong(i, j)}
<1>1. n \in Nat /\ m \in Nat /\ n + m + 2 \in Nat
  OBVIOUS
<1>2. ASSUME Bad # {} PROVE FALSE
  <2>1. PICK d \in Bad : \A e \in Bad : e <= d
    <3>1. Bad \in SUBSET (0 .. n + m + 2)
      OBVIOUS
    <3> HIDE DEF Bad, n, m
    <3> QED BY <1>1, <1>2, <3>1, Greatest
  <2>2. PICK i \in 1 .. n + 1, j \in 1 .. m + 1 : d = i + j /\ Wrong(i, j)
    OBVIOUS
  <2>3. ASSUME NEW k \in 1 .. n + 1, NEW l \in 1 .. m + 1, k + l > i + j
        PROVE  match[<<k, l>>] = PathCuts(path, pattern, k - 1, l - 1)
    <3> SUFFICES ASSUME Wrong(k, l) PROVE FALSE
      OBVIOUS
    <3>1. k + l \in 0 .. n + m + 2
      BY <1>1
    <3>2. k + l \in Bad
      BY <3>1
    <3>3. k + l <= d
      BY <2>1, <3>2
    <3> QED BY <1>1, <2>2, <2>3, <3>3
  <2>4. MatchBody(match, path, pattern, <<i, j>>) = PathCuts(path, pattern, i - 1, j - 1)
    <3>1. LaterAnswered(match, path, pattern, i, j)
      BY <2>3 DEF LaterAnswered
    <3>2. i \in 1 .. Len(path) + 1 /\ j \in 1 .. Len(pattern) + 1
      OBVIOUS
    <3> HIDE DEF Bad, Wrong, n, m
    <3> QED BY <3>1, <3>2, MatchBodyAnswers
  <2>5. <<i, j>> \in MatchPlaces(path, pattern)
    BY DEF MatchPlaces
  <2>6. match[<<i, j>>] = MatchBody(match, path, pattern, <<i, j>>)
    BY <2>5, Zenon
  <2> QED BY <2>2, <2>4, <2>6
<1>3. ~Wrong(1, 1)
  <2>1. 1 \in 1 .. n + 1 /\ 1 \in 1 .. m + 1 /\ 2 \in 0 .. n + m + 2 /\ 2 = 1 + 1
    BY <1>1
  <2> SUFFICES ASSUME Wrong(1, 1) PROVE 2 \in Bad
    BY <1>2
  <2> HIDE DEF Wrong
  <2> QED BY <2>1
<1>4. 1 - 1 = 0
  OBVIOUS
<1> QED BY <1>3, <1>4

(* matchSegments finds exactly the paths that a pattern denotes.               *)
LEMMA MatchSegmentsExactly ==
  ASSUME NEW path \in Seq(Seq(Chars)), NEW pattern \in Seq(Seq(Chars)),
         StarFree(path)
  PROVE  MatchSegments(path, pattern) = Denotes(path, pattern)
<1> DEFINE match == CHOOSE match : match = [s \in MatchPlaces(path, pattern) |->
                                             MatchBody(match, path, pattern, s)]
<1>1. MatchSegments(path, pattern) = match[<<1, 1>>]
  BY DEF MatchSegments, MatchPlaces, MatchBody
<1>2. match = [s \in MatchPlaces(path, pattern) |-> MatchBody(match, path, pattern, s)]
  <2> DEFINE answer == [s \in MatchPlaces(path, pattern) |-> PathCuts(path, pattern, s[1] - 1, s[2] - 1)]
  <2>1. \A k \in 1 .. Len(path) + 1, l \in 1 .. Len(pattern) + 1 :
          answer[<<k, l>>] = PathCuts(path, pattern, k - 1, l - 1)
    BY DEF MatchPlaces
  <2>2. ASSUME NEW s \in MatchPlaces(path, pattern)
        PROVE  MatchBody(answer, path, pattern, s) = PathCuts(path, pattern, s[1] - 1, s[2] - 1)
    <3>1. PICK i \in 1 .. Len(path) + 1, j \in 1 .. Len(pattern) + 1 : s = <<i, j>>
      BY DEF MatchPlaces
    <3>2. MatchBody(answer, path, pattern, <<i, j>>) = PathCuts(path, pattern, i - 1, j - 1)
      <4>1. LaterAnswered(answer, path, pattern, i, j)
        BY <2>1 DEF LaterAnswered
      <4> HIDE DEF answer
      <4> QED BY <4>1, MatchBodyAnswers
    <3> HIDE DEF answer
    <3> QED BY <3>1, <3>2
  <2>3. answer = [s \in MatchPlaces(path, pattern) |-> MatchBody(answer, path, pattern, s)]
    BY <2>2, Zenon
  <2> HIDE DEF answer
  <2> QED BY <2>3, Zenon
<1>3. match[<<1, 1>>] = PathCuts(path, pattern, 0, 0)
  <2> HIDE DEF match
  <2> QED BY <1>2, MatchLoopAnswers
<1>4. match[<<1, 1>>] = Denotes(path, pattern)
  <2> HIDE DEF match
  <2> QED BY <1>3, DenotesCuts DEF Denotes, PathCuts, Cuts
<1> HIDE DEF match
<1> QED BY <1>1, <1>4
-----------------------------------------------------------------------------
(* What a normalized path holds *)

KeptBody(kept, path, n) ==
  IF n = 0 THEN <<>>
  ELSE IF path[n] \in {<<>>, <<".">>} THEN kept[n - 1] ELSE Append(kept[n - 1], path[n])

(* There is a function that selects the segments.                              *)
LEMMA KeptExists ==
  ASSUME NEW path, NEW b \in Nat
  PROVE  \E kept : kept = [k \in 0 .. b |-> KeptBody(kept, path, k)]
<1> DEFINE Defined(n) == \E kept : kept = [k \in 0 .. n |-> KeptBody(kept, path, k)]
           T == {n \in 0 .. b : ~Defined(n)}
<1> SUFFICES ASSUME T # {} PROVE FALSE
  OBVIOUS
<1>1. PICK n \in T : \A m \in T : n <= m
  <2>1. T \in SUBSET Nat
    OBVIOUS
  <2> HIDE DEF T
  <2> QED BY <2>1, Least
<1>2. Defined(0)
  <2> DEFINE kept == [k \in 0 .. 0 |-> <<>>]
  <2>1. kept = [k \in 0 .. 0 |-> KeptBody(kept, path, k)]
    BY DEF KeptBody
  <2> HIDE DEF kept
  <2> QED BY <2>1
<1>3. n # 0
  BY <1>2
<1>4. n - 1 \in 0 .. b /\ n \in 0 .. b /\ n - 1 < n
  BY <1>3
<1>5. Defined(n - 1)
  <2> SUFFICES ASSUME n - 1 \in T PROVE FALSE
    BY <1>4
  <2> HIDE DEF T
  <2> QED BY <1>1, <1>4
<1>6. PICK kept : kept = [k \in 0 .. n - 1 |-> KeptBody(kept, path, k)]
  BY <1>5
<1> DEFINE more == [k \in 0 .. n |-> IF k = n THEN KeptBody(kept, path, n) ELSE kept[k]]
<1>7. ASSUME NEW k \in 0 .. n PROVE more[k] = KeptBody(more, path, k)
  <2>1. k # 0 => k - 1 \in 0 .. n /\ k - 1 # n
    BY <1>4
  <2>2. k # 0 => more[k - 1] = kept[k - 1]
    BY <2>1
  <2>3. KeptBody(more, path, k) = KeptBody(kept, path, k)
    BY <2>2 DEF KeptBody
  <2>4. CASE k = n
    BY <2>3, <2>4
  <2>5. CASE k # n
    <3>1. k \in 0 .. n - 1
      BY <1>4, <2>5
    <3>2. kept[k] = KeptBody(kept, path, k)
      BY <1>6, <3>1
    <3> QED BY <2>3, <2>5, <3>2
  <2> QED BY <2>4, <2>5
<1>8. more = [k \in 0 .. n |-> KeptBody(more, path, k)]
  BY <1>7
<1> HIDE DEF more
<1>9. Defined(n)
  BY <1>8
<1> QED BY <1>9

(* Normalizing leaves segments out and changes none.                           *)
LEMMA NormalizeSelects ==
  ASSUME NEW path \in Seq(Seq(Chars))
  PROVE  /\ Normalize(path) \in Seq(Seq(Chars))
         /\ \A i \in 1 .. Len(Normalize(path)) :
              \E k \in 1 .. Len(path) : Normalize(path)[i] = path[k]
<1> DEFINE b == Len(path)
           kept == CHOOSE kept : kept = [k \in 0 .. b |-> KeptBody(kept, path, k)]
           Selected(s) == /\ s \in Seq(Seq(Chars))
                          /\ \A i \in 1 .. Len(s) : \E k \in 1 .. b : s[i] = path[k]
           T == {n \in 0 .. b : ~Selected(kept[n])}
<1>1. Normalize(path) = kept[b]
  BY DEF Normalize, KeptBody
<1>2. kept = [k \in 0 .. b |-> KeptBody(kept, path, k)]
  <2>1. b \in Nat
    OBVIOUS
  <2>2. \E f : f = [k \in 0 .. b |-> KeptBody(f, path, k)]
    <3> HIDE DEF b
    <3> QED BY <2>1, KeptExists
  <2> QED BY <2>2, Zenon
<1> HIDE DEF kept
<1>3. ASSUME T # {} PROVE FALSE
  <2>1. PICK n \in T : \A m \in T : n <= m
    <3>1. T \in SUBSET Nat
      OBVIOUS
    <3> HIDE DEF T
    <3> QED BY <1>3, <3>1, Least
  <2>2. n \in 0 .. b /\ ~Selected(kept[n]) /\ kept[n] = KeptBody(kept, path, n)
    BY <1>2
  <2>3. n # 0
    <3>1. Selected(<<>>)
      OBVIOUS
    <3> HIDE DEF Selected
    <3> QED BY <2>2, <3>1 DEF KeptBody
  <2>4. n - 1 \in 0 .. b /\ n \in 1 .. b /\ n - 1 < n
    BY <2>2, <2>3
  <2>5. Selected(kept[n - 1])
    <3> SUFFICES ASSUME n - 1 \in T PROVE FALSE
      BY <2>4
    <3> HIDE DEF T
    <3> QED BY <2>1, <2>4
  <2>6. Selected(Append(kept[n - 1], path[n]))
    <3> DEFINE s == kept[n - 1]
               a == path[n]
    <3>1. s \in Seq(Seq(Chars)) /\ a \in Seq(Chars) /\ n \in 1 .. b
      BY <2>4, <2>5
    <3>2. Append(s, a) \in Seq(Seq(Chars)) /\ Len(Append(s, a)) = Len(s) + 1
      BY <3>1
    <3>3. ASSUME NEW i \in 1 .. Len(s) + 1 PROVE \E k \in 1 .. b : Append(s, a)[i] = path[k]
      <4>1. CASE i = Len(s) + 1
        BY <3>1, <4>1
      <4>2. CASE i # Len(s) + 1
        <5>1. i \in 1 .. Len(s) /\ Append(s, a)[i] = s[i]
          <6> HIDE DEF s, a, b
          <6> QED BY <3>1, <4>2
        <5> QED BY <2>5, <5>1
      <4> QED BY <4>1, <4>2
    <3> QED BY <3>2, <3>3
  <2>7. kept[n] = kept[n - 1] \/ kept[n] = Append(kept[n - 1], path[n])
    BY <2>2, <2>3 DEF KeptBody
  <2> HIDE DEF Selected
  <2> QED BY <2>2, <2>5, <2>6, <2>7
<1>4. Selected(kept[b])
  <2>1. b \in 0 .. b
    OBVIOUS
  <2> HIDE DEF Selected, b
  <2> QED BY <1>3, <2>1
<1> QED BY <1>1, <1>4

(* What may be a path has no stars.                                            *)
LEMMA NormalIsStarFree ==
  ASSUME NEW path \in Seq(Seq(Chars)), Normal(path, FALSE)
  PROVE  StarFree(Normalize(path))
<1>1. NormalizationError(path, FALSE) = "none"
  BY DEF Normal
<1>2. ~\E i \in DOMAIN path : \E j \in DOMAIN path[i] : path[i][j] \in {"*", "**"}
  BY <1>1 DEF NormalizationError
<1>3. \A i \in 1 .. Len(path) : \A j \in 1 .. Len(path[i]) : path[i][j] # "*"
  <2>1. DOMAIN path = 1 .. Len(path) /\ \A i \in 1 .. Len(path) : DOMAIN path[i] = 1 .. Len(path[i])
    OBVIOUS
  <2> QED BY <1>2, <2>1
<1>4. \A i \in 1 .. Len(Normalize(path)) : \E k \in 1 .. Len(path) : Normalize(path)[i] = path[k]
  BY NormalizeSelects
<1>5. ASSUME NEW i \in 1 .. Len(Normalize(path))
      PROVE  \A j \in 1 .. Len(Normalize(path)[i]) : Normalize(path)[i][j] # "*"
  <2>1. PICK k \in 1 .. Len(path) : Normalize(path)[i] = path[k]
    BY <1>4
  <2>2. \A j \in 1 .. Len(path[k]) : path[k][j] # "*"
    BY <1>3
  <2> QED BY <2>1, <2>2, Zenon
<1> QED BY <1>5, Zenon DEF StarFree

(* matchesRepositoryPath says what the pattern means.                          *)
LEMMA MatchesExactly ==
  ASSUME NEW path \in Seq(Seq(Chars)), NEW pattern \in Seq(Seq(Chars)),
         Normal(path, FALSE), Normal(pattern, TRUE)
  PROVE  MatchesRepositoryPath(path, pattern) <=> Denotes(Normalize(path), Normalize(pattern))
<1>1. Normalize(path) \in Seq(Seq(Chars)) /\ Normalize(pattern) \in Seq(Seq(Chars))
  BY NormalizeSelects
<1>2. MatchSegments(Normalize(path), Normalize(pattern)) = Denotes(Normalize(path), Normalize(pattern))
  BY <1>1, NormalIsStarFree, MatchSegmentsExactly
<1> QED BY <1>2 DEF MatchesRepositoryPath

LEMMA DefaultProtectedArePaths == DefaultProtected \subseteq Seq(Seq(Chars))
<1>1. AnySegments \in Seq(Chars) /\ <<".env">> \in Seq(Chars) /\ <<".env", ".", "*">> \in Seq(Chars)
  <2>1. ASSUME NEW S, NEW a \in S, NEW b \in S, NEW c \in S PROVE <<a>> \in Seq(S) /\ <<a, b, c>> \in Seq(S)
    OBVIOUS
  <2>2. {"**", ".env", ".", "*"} \subseteq Chars
    BY DEF Chars
  <2> QED BY <2>1, <2>2 DEF AnySegments
<1>2. ASSUME NEW s \in Seq(Chars), NEW t \in Seq(Chars) PROVE <<s, t>> \in Seq(Seq(Chars))
  OBVIOUS
<1> QED BY <1>1, <1>2, Zenon DEF DefaultProtected

(* A path that a request may write is one that an allowed pattern denotes and  *)
(* none that holds secrets.                                                    *)
LEMMA AllowedIsDenoted ==
  ASSUME NEW request, request.resolved \in Seq(Seq(Chars)),
         NEW allowed, NEW protected, allowed \subseteq Seq(Seq(Chars)),
         MatchPathRequest(request, allowed, protected) = "allowed_path"
  PROVE  /\ \E pattern \in allowed : Denotes(Normalize(request.resolved), Normalize(pattern))
         /\ ~HoldsSecrets(request.resolved)
<1> DEFINE secret == DefaultProtected \cup protected
<1>1. /\ Normal(request.resolved, FALSE)
      /\ ~\E pattern \in secret \cup allowed : ~Normal(pattern, TRUE)
      /\ ~\E pattern \in secret : \/ MatchesRepositoryPath(request.requested, pattern)
                                  \/ MatchesRepositoryPath(request.resolved, pattern)
      /\ \E pattern \in allowed : MatchesRepositoryPath(request.resolved, pattern)
  BY Zenon DEF MatchPathRequest
<1>2. \E pattern \in allowed : Denotes(Normalize(request.resolved), Normalize(pattern))
  BY <1>1, MatchesExactly
<1>3. ASSUME NEW f \in DefaultProtected PROVE ~Denotes(Normalize(request.resolved), Normalize(f))
  BY <1>1, MatchesExactly, DefaultProtectedArePaths
<1> QED BY <1>2, <1>3 DEF HoldsSecrets
-----------------------------------------------------------------------------
(* What is found in a text *)

(* A text ends somewhere.                                                      *)
LEMMA FiniteIsBounded ==
  ASSUME NEW T, IsFiniteSet(T), \A o \in T : o.at \in Nat
  PROVE  \E b \in Nat : \A o \in T : o.at <= b
<1>1. PICK seq \in Seq(T) : \A o \in T : \E k \in 1 .. Len(seq) : seq[k] = o
  BY DEF IsFiniteSet
<1> DEFINE Bounded(n) == \E b \in Nat : \A k \in 1 .. n : seq[k].at <= b
           Bad == {n \in 0 .. Len(seq) : ~Bounded(n)}
<1>2. ASSUME Bad # {} PROVE FALSE
  <2>1. PICK n \in Bad : \A m \in Bad : n <= m
    <3>1. Bad \in SUBSET Nat
      OBVIOUS
    <3> HIDE DEF Bad
    <3> QED BY <1>2, <3>1, Least
  <2>2. Bounded(0)
    <3>1. 0 \in Nat /\ \A k \in 1 .. 0 : FALSE
      OBVIOUS
    <3> QED BY <3>1
  <2>3. n \in 1 .. Len(seq) /\ n - 1 \in 0 .. Len(seq) /\ n - 1 < n
    BY <2>2
  <2>4. Bounded(n - 1)
    <3> SUFFICES ASSUME n - 1 \in Bad PROVE FALSE
      BY <2>3
    <3> HIDE DEF Bad
    <3> QED BY <2>1, <2>3
  <2>5. PICK b \in Nat : \A k \in 1 .. n - 1 : seq[k].at <= b
    BY <2>4
  <2>6. seq[n].at \in Nat /\ \A k \in 1 .. n - 1 : seq[k].at \in Nat
    <3>1. \A k \in 1 .. Len(seq) : seq[k] \in T
      <4> HIDE DEF Bad, Bounded
      <4> QED OBVIOUS
    <3>2. \A k \in 1 .. n - 1 : k \in 1 .. Len(seq)
      BY <2>3
    <3> QED BY <2>3, <3>1, <3>2
  <2>7. PICK c \in Nat : c = b + seq[n].at
    <3> DEFINE a == seq[n].at
    <3>1. a \in Nat /\ b \in Nat
      BY <2>6
    <3> HIDE DEF a, Bad, Bounded
    <3>2. b + a \in Nat
      BY <3>1
    <3> QED BY <3>2 DEF a
  <2>8. ASSUME NEW k \in 1 .. n PROVE seq[k].at <= c
    <3> DEFINE a == seq[n].at
               e == seq[k].at
    <3>1. a \in Nat /\ b \in Nat /\ c = b + a
      BY <2>6, <2>7
    <3>2. e = a \/ (e \in Nat /\ e <= b)
      <4>1. CASE k = n
        BY <4>1
      <4>2. CASE k # n
        <5>1. k \in 1 .. n - 1
          BY <2>3, <4>2
        <5> QED BY <2>5, <2>6, <5>1
      <4> QED BY <4>1, <4>2
    <3> HIDE DEF a, e, Bad, Bounded
    <3>3. e <= c
      BY <3>1, <3>2
    <3> QED BY <3>3 DEF e
  <2>9. Bounded(n)
    BY <2>8
  <2> QED BY <2>9
<1>3. Bounded(Len(seq))
  <2>1. Len(seq) \in 0 .. Len(seq)
    OBVIOUS
  <2> HIDE DEF Bounded
  <2> QED BY <1>2, <2>1
<1>4. PICK b \in Nat : \A k \in 1 .. Len(seq) : seq[k].at <= b
  BY <1>3
<1>5. \A o \in T : o.at <= b
  BY <1>1, <1>4
<1> QED BY <1>4, <1>5

(* From here on something is found when some occurrence from here on means it. *)
FoundFrom(text, pattern, from) ==
  \E o \in text.says : o.pattern = pattern /\ o.at >= from /\ Actionable(o)

SearchBody(search, text, pattern, from) ==
  LET ahead == {o \in text.says : o.pattern = pattern /\ o.at >= from}
      next  == {o \in ahead : \A p \in ahead : o.at <= p.at} IN
  \E o \in next : Actionable(o) \/ search[Resume(o)]

(* The search from a place is right when it is from all the later ones.        *)
LEMMA SearchBodyFinds ==
  ASSUME NEW text, text.says \subseteq Occurrence, NEW pattern, NEW from \in Positions(text), NEW search,
         \A later \in Positions(text) : later > from => search[later] = FoundFrom(text, pattern, later)
  PROVE  SearchBody(search, text, pattern, from) = FoundFrom(text, pattern, from)
<1> DEFINE ahead == {o \in text.says : o.pattern = pattern /\ o.at >= from}
           next == {o \in ahead : \A p \in ahead : o.at <= p.at}
<1>1. \A o \in text.says : o.at \in Nat
  BY DEF Occurrence
<1>2. from \in Nat
  BY <1>1 DEF Positions, Resume
<1>3. \A o \in next : o \in text.says /\ o.pattern = pattern /\ o.at >= from /\ \A p \in ahead : o.at <= p.at
  OBVIOUS
<1>4. ASSUME NEW o \in next PROVE search[Resume(o)] = FoundFrom(text, pattern, Resume(o))
  <2>1. o.at \in Nat /\ o.at + 1 > from
    BY <1>1, <1>2, <1>3
  <2> QED BY <1>3, <2>1 DEF Positions, Resume
<1>5. ASSUME NEW o \in next, FoundFrom(text, pattern, Resume(o)) PROVE FoundFrom(text, pattern, from)
  <2>1. PICK p \in text.says : p.pattern = pattern /\ p.at >= o.at + 1 /\ Actionable(p)
    BY <1>5 DEF FoundFrom, Resume
  <2>2. p.at >= from
    BY <1>1, <1>2, <1>3, <2>1
  <2> QED BY <2>1, <2>2 DEF FoundFrom
<1>6. ASSUME FoundFrom(text, pattern, from)
      PROVE  \E o \in next : Actionable(o) \/ FoundFrom(text, pattern, Resume(o))
  <2>1. PICK p \in text.says : p.pattern = pattern /\ p.at >= from /\ Actionable(p)
    BY <1>6 DEF FoundFrom
  <2>2. PICK o \in next : TRUE
    <3> DEFINE places == {q.at : q \in ahead}
    <3>1. places \in SUBSET Nat /\ places # {}
      BY <1>1, <2>1
    <3>2. PICK n \in places : \A m \in places : n <= m
      <4> HIDE DEF places
      <4> QED BY <3>1, Least
    <3>3. PICK q \in ahead : q.at = n
      BY <3>2
    <3>4. q \in next
      BY <3>2, <3>3
    <3> QED BY <3>4
  <2>3. o.at <= p.at /\ o.at \in Nat /\ p.at \in Nat
    BY <1>1, <1>3, <2>1
  <2>4. CASE p.at = o.at
    <3>1. p \in next
      BY <1>3, <2>1, <2>4
    <3> QED BY <2>1, <3>1
  <2>5. CASE p.at # o.at
    <3>1. p.at >= o.at + 1
      BY <2>3, <2>5
    <3>2. FoundFrom(text, pattern, Resume(o))
      BY <2>1, <3>1 DEF FoundFrom, Resume
    <3> QED BY <3>2
  <2> QED BY <2>4, <2>5
<1>7. SearchBody(search, text, pattern, from) = \E o \in next : Actionable(o) \/ search[Resume(o)]
  BY DEF SearchBody
<1>8. FoundFrom(text, pattern, from) \in BOOLEAN
  BY DEF FoundFrom
<1>9. \A o \in next : Actionable(o) => FoundFrom(text, pattern, from)
  BY <1>3 DEF FoundFrom
<1> HIDE DEF next
<1> QED BY <1>4, <1>5, <1>6, <1>7, <1>8, <1>9

LEMMA SearchFinds ==
  ASSUME NEW text, text.says \subseteq Occurrence, IsFiniteSet(text.says), NEW pattern, NEW search,
         search = [from \in Positions(text) |-> SearchBody(search, text, pattern, from)]
  PROVE  search[0] = FoundFrom(text, pattern, 0)
<1> DEFINE Bad == {from \in Positions(text) : search[from] # FoundFrom(text, pattern, from)}
<1>1. \A o \in text.says : o.at \in Nat
  BY DEF Occurrence
<1>2. PICK b \in Nat : \A o \in text.says : o.at <= b
  BY <1>1, FiniteIsBounded
<1>3. Positions(text) \subseteq 0 .. b + 1
  BY <1>1, <1>2 DEF Positions, Resume
<1>4. ASSUME Bad # {} PROVE FALSE
  <2>1. PICK from \in Bad : \A other \in Bad : other <= from
    <3>1. Bad \in SUBSET (0 .. b + 1) /\ b + 1 \in Nat
      BY <1>3
    <3> HIDE DEF Bad
    <3> QED BY <1>4, <3>1, Greatest
  <2>2. from \in Positions(text) /\ search[from] = SearchBody(search, text, pattern, from)
    OBVIOUS
  <2>3. ASSUME NEW later \in Positions(text), later > from
        PROVE  search[later] = FoundFrom(text, pattern, later)
    <3>1. later \in 0 .. b + 1 /\ from \in 0 .. b + 1
      BY <1>3, <2>2
    <3>2. ~(later <= from)
      BY <2>3, <3>1
    <3> QED BY <2>1, <3>2
  <2>4. SearchBody(search, text, pattern, from) = FoundFrom(text, pattern, from)
    BY <2>2, <2>3, SearchBodyFinds
  <2> QED BY <2>2, <2>4
<1>5. 0 \in Positions(text)
  BY DEF Positions
<1> QED BY <1>4, <1>5

(* positiveMatch finds a pattern in a text exactly when the text means it      *)
(* somewhere: harmless words before or around it hide nothing.                 *)
LEMMA PositiveMatchIsExact ==
  ASSUME NEW text, text.says \subseteq Occurrence, IsFiniteSet(text.says), NEW pattern
  PROVE  PositiveMatch(text, pattern) <=> \E o \in text.says : o.pattern = pattern /\ Actionable(o)
<1> DEFINE search == CHOOSE search : search = [from \in Positions(text) |->
                                                SearchBody(search, text, pattern, from)]
<1>1. PositiveMatch(text, pattern) = search[0]
  BY DEF PositiveMatch, SearchBody
<1>2. search = [from \in Positions(text) |-> SearchBody(search, text, pattern, from)]
  <2> DEFINE answer == [from \in Positions(text) |-> FoundFrom(text, pattern, from)]
  <2>1. ASSUME NEW from \in Positions(text)
        PROVE  SearchBody(answer, text, pattern, from) = FoundFrom(text, pattern, from)
    <3>1. \A later \in Positions(text) : answer[later] = FoundFrom(text, pattern, later)
      OBVIOUS
    <3> HIDE DEF answer
    <3> QED BY <3>1, SearchBodyFinds
  <2>2. answer = [from \in Positions(text) |-> SearchBody(answer, text, pattern, from)]
    BY <2>1, Zenon
  <2> HIDE DEF answer
  <2> QED BY <2>2, Zenon
<1> HIDE DEF search
<1>3. search[0] = FoundFrom(text, pattern, 0)
  BY <1>2, SearchFinds
<1>4. \A o \in text.says : o.at >= 0
  BY DEF Occurrence
<1> QED BY <1>1, <1>3, <1>4 DEF FoundFrom
-----------------------------------------------------------------------------
(* The questions of a review *)

PolicyBlockers == EvaluateDeterministicPolicy(review.task, review.plans)

(* The effects that are asked about in one question.                           *)
Alike(key) == {e \in Effects(review.task, review.plans) : e.key = key}

(* A blocker puts the effects of one key together.                             *)
LEMMA BlockerFields ==
  ASSUME NEW b \in PolicyBlockers
  PROVE  \E x \in Effects(review.task, review.plans) :
           /\ b.trigger = x.key[1]
           /\ b.details = {e.shown : e \in Alike(x.key)}
           /\ b.evidenceRefs = {e.ref : e \in Alike(x.key)}
           /\ b.blockerId = <<b.trigger, b.details>>
<1>1. PICK x \in Effects(review.task, review.plans) : b = Blocker(Alike(x.key))
  BY DEF PolicyBlockers, EvaluateDeterministicPolicy, Alike
<1> DEFINE some == CHOOSE e \in Alike(x.key) : TRUE
<1>2. some.key = x.key
  <2>1. x \in Alike(x.key)
    BY DEF Alike
  <2>2. some \in Alike(x.key)
    BY <2>1
  <2> QED BY <2>2 DEF Alike
<1>3. /\ b.trigger = some.key[1] /\ b.details = {e.shown : e \in Alike(x.key)}
      /\ b.evidenceRefs = {e.ref : e \in Alike(x.key)}
      /\ b.blockerId = <<some.key[1], {e.shown : e \in Alike(x.key)}>>
  BY <1>1, Zenon DEF Blocker
<1> QED BY <1>2, <1>3

(* Each effect has a blocker about it.                                         *)
LEMMA EffectIsBlocked ==
  ASSUME NEW e \in Effects(review.task, review.plans)
  PROVE  \E b \in PolicyBlockers : b.trigger = e.key[1] /\ e.shown \in b.details
<1> DEFINE b == Blocker(Alike(e.key))
           some == CHOOSE x \in Alike(e.key) : TRUE
<1>1. b \in PolicyBlockers
  BY DEF PolicyBlockers, EvaluateDeterministicPolicy, Alike
<1>2. e \in Alike(e.key)
  BY DEF Alike
<1>3. some.key = e.key
  <2>1. some \in Alike(e.key)
    BY <1>2
  <2> QED BY <2>1 DEF Alike
<1>4. b.trigger = some.key[1] /\ b.details = {x.shown : x \in Alike(e.key)}
  BY Zenon DEF Blocker
<1> HIDE DEF b, some
<1> QED BY <1>1, <1>2, <1>3, <1>4

(* A question is about an effect, a divergence, or neither.                    *)
LEMMA QuestionKinds ==
  ASSUME NEW d \in Questions
  PROVE  \/ \E b \in PolicyBlockers : d = PolicyDecision(b, review.plans)
         \/ d.decisionId[1] = "divergence" /\ d.deterministicTriggers = {}
         \/ d.decisionId[1] \in {"unresolved", "degraded"} /\ d.deterministicTriggers # {}
<1>1. \/ \E b \in PolicyBlockers : d = PolicyDecision(b, review.plans)
      \/ \E v \in review.divergences : d = DivergenceDecision(v)
      \/ \E u \in review.unknowns : d = UnknownDecision(u)
      \/ d = DegradedDecision(review.plans)
  BY DEF Questions, PolicyBlockers
<1>2. ASSUME NEW v, d = DivergenceDecision(v)
      PROVE  d.decisionId[1] = "divergence" /\ d.deterministicTriggers = {}
  BY <1>2 DEF DivergenceDecision, Decision
<1>3. ASSUME NEW u, d = UnknownDecision(u)
      PROVE  d.decisionId[1] = "unresolved" /\ d.deterministicTriggers # {}
  BY <1>3 DEF UnknownDecision, Decision
<1>4. ASSUME d = DegradedDecision(review.plans)
      PROVE  d.decisionId[1] = "degraded" /\ d.deterministicTriggers # {}
  BY <1>4 DEF DegradedDecision, Decision
<1> QED BY <1>1, <1>2, <1>3, <1>4

(* What a question about an effect says.                                       *)
LEMMA PolicyFields ==
  ASSUME NEW b, NEW d, d = PolicyDecision(b, review.plans)
  PROVE  /\ d.decisionId = <<"policy", b.blockerId>>
         /\ d.deterministicTriggers = {b.trigger} /\ d.details = b.details
         /\ \A o \in d.options : o.probes = SupportingProbes(b, review.plans)
<1>1. /\ d.decisionId = <<"policy", b.blockerId>>
      /\ d.deterministicTriggers = {b.trigger} /\ d.details = b.details
  BY Zenon DEF PolicyDecision, Decision
<1> DEFINE probes == SupportingProbes(b, review.plans)
<1>2. PICK allow : d.options = {Option("deny", probes), Option(allow, probes)}
  BY Zenon DEF PolicyDecision, Decision
<1>3. \A id : Option(id, probes).probes = probes
  BY Zenon DEF Option
<1> HIDE DEF probes
<1>4. \A o \in d.options : o.probes = probes
  BY <1>2, <1>3
<1> QED BY <1>1, <1>4 DEF probes

(* normalizeReview leaves out no effect: the question it keeps for an id asks  *)
(* about the same trigger in the same words.                                   *)
LEMMA EffectIsAsked ==
  ASSUME decisions \in OnePerId(Questions), NEW e \in Effects(review.task, review.plans)
  PROVE  \E d \in decisions : e.key[1] \in d.deterministicTriggers /\ e.shown \in d.details
<1>1. PICK b \in PolicyBlockers : b.trigger = e.key[1] /\ e.shown \in b.details
  BY EffectIsBlocked
<1> DEFINE q == PolicyDecision(b, review.plans)
<1>2. q \in Questions /\ q.decisionId = <<"policy", b.blockerId>>
  BY PolicyFields DEF Questions, PolicyBlockers
<1>3. PICK d \in decisions : d.decisionId = q.decisionId
  <2> HIDE DEF q
  <2> QED BY <1>2 DEF OnePerId
<1>4. d \in Questions
  BY DEF OnePerId
<1>5. d.decisionId = <<"policy", b.blockerId>> /\ d.decisionId[1] = "policy"
  BY <1>2, <1>3
<1>6. PICK c \in PolicyBlockers : d = PolicyDecision(c, review.plans)
  BY <1>4, <1>5, QuestionKinds
<1>7. c.blockerId = b.blockerId
  BY <1>5, <1>6, PolicyFields
<1>8. b.blockerId = <<b.trigger, b.details>> /\ c.blockerId = <<c.trigger, c.details>>
  BY BlockerFields
<1>9. c.trigger = b.trigger /\ c.details = b.details
  BY <1>7, <1>8
<1> QED BY <1>1, <1>6, <1>9, PolicyFields

(* Where an effect was met.                                                    *)
LEMMA PlanEffectsNameTheirProbe ==
  ASSUME NEW plan, NEW e \in PlanEffects(plan)
  PROVE  e.ref[1] = plan.probeId
<1>1. \E trigger, shown, same, where : e = Effect(trigger, shown, same, plan, where)
  <2>1. CASE e \in StatementEffects(plan)
    <3>1. PICK i \in DOMAIN plan.statements :
            LET s == plan.statements[i]
                key == IF s.field = "compatibilityImpacts" THEN AllImpacts ELSE Words(s.text.same) IN
            e \in {Effect(t, Words(s.text.shown), key, plan, <<s.field, i>>)
                   : t \in StatementTriggers(s.field, s.text)}
      BY <2>1, Zenon DEF StatementEffects
    <3> QED BY <3>1, Zenon
  <2>2. CASE e \in CommandEffects(plan)
    <3>1. PICK i \in DOMAIN plan.commands :
            e \in {Plain(t, Words(plan.commands[i].shown), plan, <<"commands", i>>)
                   : t \in PlannedCommandTriggers(plan.commands[i])}
      BY <2>2, Zenon DEF CommandEffects
    <3> QED BY <3>1, Zenon DEF Plain
  <2>3. CASE e \in FileEffects(plan)
    BY <2>3 DEF FileEffects, Plain
  <2>4. CASE e \in ReversibilityEffects(plan)
    BY <2>4 DEF ReversibilityEffects, Plain
  <2> QED BY <2>1, <2>2, <2>3, <2>4 DEF PlanEffects
<1> QED BY <1>1 DEF Effect

(* Only the task and the plans state effects, unless there are no plans.       *)
LEMMA EffectsNameTheirSource ==
  ASSUME NEW e \in Effects(review.task, review.plans)
  PROVE  \/ e.ref[1] = "task"
         \/ \E plan \in review.plans : e \in PlanEffects(plan) /\ e.ref[1] = plan.probeId
         \/ review.plans = {}
<1>1. \/ e \in TaskEffects(review.task)
      \/ \E plan \in review.plans : e \in PlanEffects(plan)
      \/ review.plans = {}
  BY DEF Effects
<1>2. ASSUME e \in TaskEffects(review.task) PROVE e.ref[1] = "task"
  BY <1>2 DEF TaskEffects, Effect, NoPlan
<1> QED BY <1>1, <1>2, PlanEffectsNameTheirProbe

(* A probe that a question names states one of its effects.                     *)
LEMMA SupportHolds ==
  ASSUME review \in Reviews, decisions \subseteq Questions,
         NEW d \in decisions, d.decisionId[1] = "policy",
         NEW plan \in review.plans, NEW o \in d.options, plan.probeId \in o.probes
  PROVE  States(plan, d)
<1>1. PICK b \in PolicyBlockers : d = PolicyDecision(b, review.plans)
  BY QuestionKinds
<1>2. d.deterministicTriggers = {b.trigger} /\ d.details = b.details
      /\ plan.probeId \in SupportingProbes(b, review.plans)
  BY <1>1, PolicyFields
<1>3. PICK x \in Effects(review.task, review.plans) :
        /\ b.trigger = x.key[1]
        /\ b.details = {e.shown : e \in Alike(x.key)}
        /\ b.evidenceRefs = {e.ref : e \in Alike(x.key)}
  BY BlockerFields
<1>4. /\ plan.probeId \notin {"task", "policy"}
      /\ \A p \in review.plans : p.probeId = plan.probeId => p = plan
  BY ReviewAssumption
<1>5. \A e \in Alike(x.key) :
        e.ref[1] = "task" \/ \E p \in review.plans : e \in PlanEffects(p) /\ e.ref[1] = p.probeId
  BY EffectsNameTheirSource DEF Alike
<1> DEFINE named == {ref[1] : ref \in b.evidenceRefs} \cap ProbeIds(review.plans)
<1>6. CASE plan.probeId \in named
  <2>1. PICK e \in Alike(x.key) : e.ref[1] = plan.probeId
    BY <1>3, <1>6
  <2>2. e \in PlanEffects(plan)
    BY <1>4, <1>5, <2>1
  <2>3. e.key = x.key /\ e.shown \in b.details
    BY <1>3 DEF Alike
  <2> QED BY <1>2, <1>3, <2>2, <2>3 DEF States
<1>7. CASE plan.probeId \notin named
  <2>1. named = {} /\ \E ref \in b.evidenceRefs : ref[1] # "task"
    BY <1>2, <1>7 DEF SupportingProbes
  <2>2. PICK e \in Alike(x.key) : e.ref[1] # "task"
    BY <1>3, <2>1
  <2>3. PICK p \in review.plans : e.ref[1] = p.probeId
    BY <1>5, <2>2
  <2>4. p.probeId \in named
    BY <1>3, <2>3 DEF ProbeIds
  <2> QED BY <2>1, <2>4
<1> QED BY <1>6, <1>7

-----------------------------------------------------------------------------
(* The effects a text states *)

(* What an occurrence means anywhere, the search finds.                        *)
LEMMA StatedIsMatched ==
  ASSUME NEW text, text.says \subseteq Occurrence, IsFiniteSet(text.says),
         NEW for \in {"plan", "task"}, NEW t \in Stated(text, for)
  PROVE  t \in Triggers /\ PositiveMatch(text, [for |-> for, trigger |-> t])
<1>1. PICK o \in text.says : o.pattern.for = for /\ Actionable(o) /\ t = o.pattern.trigger
  BY DEF Stated
<1>2. o.pattern \in Patterns
  BY DEF Occurrence
<1>3. t \in Triggers /\ o.pattern = [for |-> for, trigger |-> t]
  BY <1>1, <1>2 DEF Patterns
<1> QED BY <1>1, <1>3, PositiveMatchIsExact

(* What a task states is an effect.                                            *)
LEMMA StatedInTask ==
  ASSUME review \in Reviews, NEW t \in Stated(review.task, "task")
  PROVE  \E e \in Effects(review.task, review.plans) : e.key[1] = t /\ e.shown = Words(review.task.shown)
<1>1. review.task.says \subseteq Occurrence /\ IsFiniteSet(review.task.says)
  BY ReviewAssumption
<1>2. t \in MatchingTaskTriggers(review.task)
  BY <1>1, StatedIsMatched DEF MatchingTaskTriggers
<1> DEFINE e == Effect(t, Words(review.task.shown), Words(review.task.same), NoPlan("task"), <<"normalized">>)
<1>3. e \in Effects(review.task, review.plans)
  BY <1>2 DEF Effects, TaskEffects
<1>4. e.key[1] = t /\ e.shown = Words(review.task.shown)
  BY DEF Effect
<1> QED BY <1>3, <1>4

(* What a searched statement of a plan states is an effect.                    *)
LEMMA StatedInPlan ==
  ASSUME review \in Reviews, NEW plan \in review.plans, NEW i \in DOMAIN plan.statements,
         IsSearched(plan.statements[i]),
         NEW t \in Stated(plan.statements[i].text, "plan") \cup Stated(plan.statements[i].text, "task")
  PROVE  \E e \in Effects(review.task, review.plans) :
           e.key[1] = t /\ e.shown = Words(plan.statements[i].text.shown)
<1> DEFINE s == plan.statements[i]
           key == IF s.field = "compatibilityImpacts" THEN AllImpacts ELSE Words(s.text.same)
           e == Effect(t, Words(s.text.shown), key, plan, <<s.field, i>>)
<1>1. s.text.says \subseteq Occurrence /\ IsFiniteSet(s.text.says)
  BY ReviewAssumption DEF Statements
<1>2. t \in MatchingTriggers(s.text)
  BY <1>1, StatedIsMatched DEF MatchingTriggers, MatchingTaskTriggers
<1>3. t \in StatementTriggers(s.field, s.text)
  <2>1. CASE s.field \in {"summary", "intendedBehavior", "publicApiChanges"}
    <3>1. s.field # "unknowns"
      BY <2>1
    <3> HIDE DEF s
    <3>2. StatementTriggers(s.field, s.text) = MatchingTriggers(s.text)
      BY <2>1, <3>1, Zenon DEF StatementTriggers
    <3> QED BY <1>2, <3>2
  <2>2. CASE s.field \in {"dataChanges", "permissionChanges", "externalEffects"} /\ ~s.text.none
    <3>1. /\ s.field \notin {"summary", "intendedBehavior", "publicApiChanges"}
          /\ s.field # "unknowns" /\ s.field # "dependencyChanges" /\ ~s.text.none
      BY <2>2
    <3> HIDE DEF s
    <3>2. CASE s.field = "dataChanges"
      <4>1. MatchingTriggers(s.text) \subseteq StatementTriggers(s.field, s.text)
        BY <3>1, <3>2 DEF StatementTriggers
      <4> QED BY <1>2, <4>1
    <3>3. CASE s.field = "permissionChanges"
      <4>1. MatchingTriggers(s.text) \subseteq StatementTriggers(s.field, s.text)
        BY <3>1, <3>3 DEF StatementTriggers
      <4> QED BY <1>2, <4>1
    <3>4. CASE s.field = "externalEffects"
      <4>1. MatchingTriggers(s.text) \subseteq StatementTriggers(s.field, s.text)
        BY <3>1, <3>4 DEF StatementTriggers
      <4> QED BY <1>2, <4>1
    <3> QED BY <2>2, <3>2, <3>3, <3>4
  <2> QED BY <2>1, <2>2 DEF IsSearched
<1>4. e \in StatementEffects(plan)
  BY <1>3 DEF StatementEffects
<1>5. e \in Effects(review.task, review.plans)
  <2> HIDE DEF e
  <2>1. e \in PlanEffects(plan)
    BY <1>4 DEF PlanEffects
  <2> QED BY <2>1 DEF Effects
<1>6. e.key[1] = t /\ e.shown = Words(s.text.shown)
  BY DEF Effect
<1> QED BY <1>5, <1>6
-----------------------------------------------------------------------------
(* What a contract allows *)

(* What the contract allows is in every plan, or in every plan behind a choice. *)
LEMMA ContractIsPlanned ==
  ASSUME decisions \subseteq Questions, NEW pattern \in CreateContractPreview.allowedPaths, NEW path,
         Denotes(Normalize(path), Normalize(pattern))
  PROVE  Planned(path) /\ \E plan \in review.plans : pattern \in plan.files
<1> DEFINE files == [plan \in review.plans |-> plan.files]
<1>1. CreateContractPreview.allowedPaths = SelectedBoundary(files)
  BY Zenon DEF CreateContractPreview
<1>2. \A plan \in review.plans : files[plan] = plan.files
  OBVIOUS
<1> HIDE DEF files
<1>3. ASSUME NEW group, pattern \in Shared({files[p] : p \in group}), group \subseteq review.plans
      PROVE  group # {} /\ \A plan \in group : pattern \in plan.files /\ Meant(plan, path)
  <2>1. \A plan \in group : pattern \in plan.files
    BY <1>2, <1>3 DEF Shared
  <2>2. group # {}
    BY <1>3 DEF Shared
  <2> QED BY <2>1, <2>2 DEF Meant
<1>4. CASE pattern \in Shared({files[p] : p \in review.plans})
  <2>1. review.plans # {} /\ \A plan \in review.plans : pattern \in plan.files /\ Meant(plan, path)
    BY <1>3, <1>4
  <2> QED BY <2>1 DEF Planned
<1>5. ASSUME NEW group \in SelectedPlanGroups, pattern \in Shared({files[p] : p \in group})
      PROVE  Planned(path) /\ \E plan \in review.plans : pattern \in plan.files
  <2>1. PICK d \in decisions : d.deterministicTriggers = {} /\ \E o \in d.options :
          /\ [decisionId |-> d.decisionId, choice |-> o.id] \in answers
          /\ group = {p \in review.plans : p.probeId \in o.probes}
    BY DEF SelectedPlanGroups
  <2>2. PICK o \in d.options : /\ [decisionId |-> d.decisionId, choice |-> o.id] \in answers
                              /\ group = {p \in review.plans : p.probeId \in o.probes}
    BY <2>1
  <2>3. d.decisionId[1] = "divergence"
    <3>1. ASSUME NEW b \in PolicyBlockers, d = PolicyDecision(b, review.plans) PROVE FALSE
      <4>1. d.deterministicTriggers = {b.trigger}
        BY <3>1, PolicyFields
      <4> QED BY <2>1, <4>1
    <3>2. d \in Questions
      OBVIOUS
    <3> QED BY <2>1, <3>1, <3>2, QuestionKinds
  <2>4. group # {} /\ \A plan \in group : pattern \in plan.files /\ Meant(plan, path)
    BY <1>3, <1>5, <2>2
  <2>5. Planned(path)
    BY <2>2, <2>3, <2>4 DEF Planned
  <2> QED BY <2>2, <2>4, <2>5
<1> QED BY <1>1, <1>4, <1>5 DEF SelectedBoundary

(* What the gate lets an execution write leads to files that the plans meant   *)
(* to change, and to no secrets.                                               *)
LEMMA WritableIsProper ==
  ASSUME review \in Reviews, decisions \subseteq Questions, contract = CreateContractPreview,
         NEW n \in Names \cup Paths, Writable(n)
  PROVE  Proper(Request[n].resolved)
<1> DEFINE path == Request[n].resolved
<1>1. path \in Seq(Seq(Chars))
  BY GateAssumption, StringsAreChars
<1>2. contract.allowedPaths \subseteq Seq(Seq(Chars))
  <2>1. \A plan \in review.plans : plan.files \subseteq Seq(Seq(Chars))
    BY ReviewAssumption, StringsAreChars
  <2>2. contract.allowedPaths \subseteq UNION {plan.files : plan \in review.plans}
    <3> DEFINE files == [plan \in review.plans |-> plan.files]
    <3>1. contract.allowedPaths = SelectedBoundary(files)
      BY Zenon DEF CreateContractPreview
    <3>2. \A plan \in review.plans : files[plan] = plan.files
      OBVIOUS
    <3> HIDE DEF files
    <3>3. \A group : group \subseteq review.plans =>
            Shared({files[p] : p \in group}) \subseteq UNION {plan.files : plan \in review.plans}
      BY <3>2 DEF Shared
    <3>4. \A group \in SelectedPlanGroups : group \subseteq review.plans
      BY DEF SelectedPlanGroups
    <3> QED BY <3>1, <3>3, <3>4 DEF SelectedBoundary
  <2> QED BY <2>1, <2>2
<1>3. MatchPathRequest(Request[n], contract.allowedPaths, Guarded) = "allowed_path"
  BY DEF Writable
<1>4. /\ \E pattern \in contract.allowedPaths : Denotes(Normalize(path), Normalize(pattern))
      /\ ~HoldsSecrets(path)
  BY <1>1, <1>2, <1>3, AllowedIsDenoted
<1>5. Planned(path)
  BY <1>4, ContractIsPlanned
<1> QED BY <1>4, <1>5 DEF Proper

-----------------------------------------------------------------------------
(* The invariant *)

(* Which phase of the review goes with which part of the execution: nothing is *)
(* answered before there are questions, nothing runs before the approval, and  *)
(* the port has returned nothing before it is over.                            *)
PhasesOK ==
  /\ phase = "inspected" => answers = {}
  /\ phase # "approved" => turn = "idle"
  /\ turn # "over" => outcome = "none"
  /\ turn \in {"checks", "final", "over"} => phase = "approved"
  /\ turn \in {"checks", "final"} => status # "none"

Recorded == \A key \in refused : \E d \in deviations : d.key = key

(* An execution that is completed ended by itself, every required check of its *)
(* contract has passed, and no file that counts as changed is one the contract *)
(* keeps it from writing.                                                      *)
CompletedStaysInside ==
  outcome = "completed" =>
    /\ status = "completed"
    /\ Len(checks) = Len(contract.requiredChecks)
    /\ \A i \in DOMAIN checks : checks[i] = "passed"
    /\ \A p \in ChangedPaths : Writable(p)

Completed == outcome = "completed" => turn = "over" /\ refused = {} /\ deviations = {}

(* The questions stand as they were put, all of them are answered before the   *)
(* approval, and what is executed is the contract made of those answers.       *)
Asked ==
  /\ phase = "inspected" => decisions = {}
  /\ phase # "inspected" => decisions \in OnePerId(Questions)
  /\ phase = "approved" => Open = {} /\ contract = CreateContractPreview

(* An item is writable while its last announcement is, or a deviation says     *)
(* that it no longer was.                                                      *)
Disclosed ==
  /\ turn = "idle" => validated = {} /\ accepted = {}
  /\ \A i \in validated \cup accepted :
       deviations # {} \/ (announced[i] # {} /\ \A n \in announced[i] : Writable(n))

IInv == /\ TypeOK /\ PhasesOK /\ Recorded /\ Completed /\ CompletedStaysInside
        /\ Asked /\ Disclosed

(* What none of the steps of an execution touches.                             *)
ReviewStands == UNCHANGED <<review, decisions, answers, phase, contract>>

LEMMA PreviewStands ==
  UNCHANGED <<review, decisions, answers>> => CreateContractPreview' = CreateContractPreview
<1> SUFFICES ASSUME UNCHANGED <<review, decisions, answers>>
             PROVE  CreateContractPreview' = CreateContractPreview
  OBVIOUS
<1>1. SelectedPlanGroups' = SelectedPlanGroups
  BY DEF SelectedPlanGroups
<1>2. \A values : SelectedBoundary(values)' = SelectedBoundary(values)
  BY <1>1 DEF SelectedBoundary
<1> QED BY <1>2 DEF CreateContractPreview

LEMMA AskedStands == Asked /\ ReviewStands => Asked'
<1> SUFFICES ASSUME Asked, ReviewStands PROVE Asked'
  OBVIOUS
<1>1. /\ review' = review /\ decisions' = decisions /\ answers' = answers /\ phase' = phase
      /\ contract' = contract
  BY DEF ReviewStands
<1>2. Questions' = Questions
  BY <1>1 DEF Questions
<1>3. OnePerId(Questions)' = OnePerId(Questions)
  BY <1>2 DEF OnePerId
<1>4. Open' = Open
  BY <1>1 DEF Open
<1>5. CreateContractPreview' = CreateContractPreview
  BY <1>1, PreviewStands
<1> QED BY <1>1, <1>3, <1>4, <1>5 DEF Asked

LEMMA WritableStands == UNCHANGED contract => \A n : Writable(n)' <=> Writable(n)
BY DEF Writable, Guarded

(* What was disclosed stays so while nothing is announced or approved.         *)
LEMMA DisclosedStands ==
  ASSUME Disclosed, UNCHANGED contract, UNCHANGED observation,
         deviations \subseteq deviations', turn' = "idle" => turn = "idle"
  PROVE  Disclosed'
<1>1. announced' = announced /\ validated' = validated /\ accepted' = accepted
  BY DEF observation
<1>2. \A n : Writable(n)' <=> Writable(n)
  BY WritableStands
<1>3. ASSUME NEW i \in validated' \cup accepted', deviations' = {}
      PROVE  announced'[i] # {} /\ \A n \in announced'[i] : Writable(n)'
  BY <1>1, <1>2, <1>3 DEF Disclosed
<1>4. turn' = "idle" => validated' = {} /\ accepted' = {}
  BY <1>1 DEF Disclosed
<1> QED BY <1>3, <1>4 DEF Disclosed

-----------------------------------------------------------------------------
(* What a handler may do to the record *)

Kinds == {"command", "file_change", "network", "permission", "external_effect", "check"}

RecordStep ==
  /\ actions \subseteq Kinds => actions' \subseteq Kinds
  /\ Recorded => Recorded'
  /\ deviations \subseteq deviations'

LEMMA DeviationKeeps ==
  ASSUME NEW key, NEW category
  PROVE  /\ deviations \subseteq Deviation(key, category)
         /\ \E d \in Deviation(key, category) : d.key = key
<1> DEFINE new == [key |-> key, category |-> category]
<1>1. new.key = key
  OBVIOUS
<1>2. CASE \E d \in deviations : d.key = key
  BY <1>2 DEF Deviation
<1>3. CASE ~\E d \in deviations : d.key = key
  <2>1. Deviation(key, category) = deviations \cup {new}
    BY <1>3 DEF Deviation
  <2> QED BY <2>1, <1>1
<1> QED BY <1>2, <1>3

LEMMA DeclineIsRecorded ==
  ASSUME NEW method, NEW item, NEW category, DeclineApproval(method, item, category)
  PROVE  RecordStep
<1> DEFINE key == <<"approval", method, item>>
<1>1. deviations' = Deviation(key, category) /\ refused' = refused \cup {key}
  BY DEF DeclineApproval
<1>2. deviations \subseteq Deviation(key, category) /\ \E d \in Deviation(key, category) : d.key = key
  BY DeviationKeeps
<1>3. Recorded => Recorded'
  <2> HIDE DEF key
  <2> QED BY <1>1, <1>2 DEF Recorded
<1>4. actions \subseteq Kinds => actions' \subseteq Kinds
  <2>1. \E kind \in Kinds : actions' = actions \cup {kind}
    BY DEF DeclineApproval, RecordAction, Kinds
  <2> QED BY <2>1
<1> QED BY <1>1, <1>2, <1>3, <1>4 DEF RecordStep

LEMMA ObservationIsRecorded ==
  ASSUME NEW key, NEW category, ObservedDeviation(key, category)
  PROVE  RecordStep
<1>1. deviations' = Deviation(key, category) /\ refused' = refused \cup {key}
  BY DEF ObservedDeviation
<1>2. deviations \subseteq Deviation(key, category) /\ \E d \in Deviation(key, category) : d.key = key
  BY DeviationKeeps
<1>3. Recorded => Recorded'
  BY <1>1, <1>2 DEF Recorded
<1>4. actions \subseteq Kinds => actions' \subseteq Kinds
  <2>1. actions' = actions \/ \E kind \in Kinds : actions' = actions \cup {kind}
    BY DEF ObservedDeviation, RecordAction, Kinds
  <2> QED BY <2>1
<1> QED BY <1>1, <1>2, <1>3, <1>4 DEF RecordStep

LEMMA NothingRecorded == UNCHANGED record => RecordStep
BY DEF record, RecordStep, Recorded

-----------------------------------------------------------------------------
(* The events of a turn *)

ObservationTypes ==
  announced \in [Items -> SUBSET Names] /\ validated \subseteq Items /\ accepted \subseteq Items

EventStep == /\ Event /\ RecordStep
             /\ ObservationTypes => ObservationTypes'
             /\ ObservationTypes /\ Disclosed => Disclosed'
             /\ UNCHANGED <<review, decisions, answers, phase>>

LEMMA SameObservation ==
  ASSUME UNCHANGED observation, Event, RecordStep, UNCHANGED <<review, decisions, answers, phase>>
  PROVE  EventStep
<1>1. ObservationTypes => ObservationTypes'
  BY DEF observation, ObservationTypes
<1>2. UNCHANGED contract /\ turn' = turn /\ deviations \subseteq deviations'
  BY DEF Event, RecordStep
<1>3. Disclosed => Disclosed'
  BY <1>2, DisclosedStands
<1> QED BY <1>1, <1>3 DEF EventStep

LEMMA RequestCommandStep ==
  ASSUME UNCHANGED <<review, decisions, answers, phase>>,
         NEW item, NEW command, NEW besides, RequestCommand(item, command, besides)
  PROVE  EventStep
<1>1. Event /\ UNCHANGED observation
  BY DEF RequestCommand
<1>2. \/ \E category : DeclineApproval("commandExecution", item, category)
      \/ UNCHANGED record
  BY DEF RequestCommand
<1>3. RecordStep
  BY <1>2, DeclineIsRecorded, NothingRecorded
<1> QED BY <1>1, <1>3, SameObservation

LEMMA RequestFileChangeStep ==
  ASSUME UNCHANGED <<review, decisions, answers, phase>>,
         NEW item \in Items, RequestFileChange(item)
  PROVE  EventStep
<1>1. Event /\ UNCHANGED <<announced, validated>>
  BY DEF RequestFileChange
<1>2. (UNCHANGED record /\ accepted' = accepted \cup {item})
      \/ (DeclineApproval("fileChange", item, "file_path") /\ UNCHANGED accepted)
  BY DEF RequestFileChange
<1>3. RecordStep
  BY <1>2, DeclineIsRecorded, NothingRecorded
<1>4. ObservationTypes => ObservationTypes'
  BY <1>1, <1>2 DEF ObservationTypes
<1>5. Disclosed => Disclosed'
  <2> SUFFICES ASSUME Disclosed PROVE Disclosed'
    OBVIOUS
  <2>1. turn = "running" /\ turn' = turn /\ deviations \subseteq deviations'
        /\ \A n : Writable(n)' <=> Writable(n)
    BY <1>1, <1>3, WritableStands DEF Event, RecordStep
  <2>2. validated' \cup accepted' = validated \cup accepted \/ deviations' # {}
    <3>1. CASE item \in validated
      BY <1>1, <3>1 DEF RequestFileChange
    <3>2. CASE item \notin validated
      BY <1>1, <3>2 DEF RequestFileChange
    <3> QED BY <3>1, <3>2
  <2>3. ASSUME NEW i \in validated' \cup accepted', deviations' = {}
        PROVE  announced'[i] # {} /\ \A n \in announced'[i] : Writable(n)'
    BY <1>1, <2>1, <2>2, <2>3 DEF Disclosed
  <2> QED BY <2>1, <2>3 DEF Disclosed
<1> QED BY <1>1, <1>3, <1>4, <1>5 DEF EventStep

LEMMA RequestOtherStep ==
  ASSUME UNCHANGED <<review, decisions, answers, phase>>,
         NEW method, NEW item, RequestOther(method, item)
  PROVE  EventStep
<1>1. Event /\ UNCHANGED observation
  BY DEF RequestOther
<1>2. \E thing, category : DeclineApproval(method, thing, category)
  BY DEF RequestOther
<1>3. RecordStep
  BY <1>2, DeclineIsRecorded
<1> QED BY <1>1, <1>3, SameObservation

LEMMA ObserveCommandStep ==
  ASSUME UNCHANGED <<review, decisions, answers, phase>>,
         NEW item, NEW command, NEW method, ObserveCommand(item, command, method)
  PROVE  EventStep
<1>1. Event /\ UNCHANGED observation
  BY DEF ObserveCommand
<1>2. CASE ~EvaluateCommand(command).allowed
  <2>1. ObservedDeviation(<<"item", item, "command">>, "command")
    BY <1>2 DEF ObserveCommand
  <2>2. RecordStep
    BY <2>1, ObservationIsRecorded
  <2> QED BY <1>1, <2>2, SameObservation
<1>3. CASE EvaluateCommand(command).allowed
  <2>1. UNCHANGED <<refused, deviations>>
        /\ actions' = actions \cup (IF method = "completed" THEN {"command"} ELSE {})
    BY <1>3 DEF ObserveCommand
  <2>2. RecordStep
    BY <2>1 DEF RecordStep, Recorded, Kinds
  <2> QED BY <1>1, <2>2, SameObservation
<1> QED BY <1>2, <1>3

LEMMA ObserveFileChangeStep ==
  ASSUME UNCHANGED <<review, decisions, answers, phase>>,
         NEW item \in Items, NEW names \in SUBSET Names, NEW method,
         ObserveFileChange(item, names, method)
  PROVE  EventStep
<1>1. /\ Event /\ UNCHANGED accepted
      /\ announced' = [announced EXCEPT ![item] = names]
      /\ validated' = Validated(item, names, method)
  BY DEF ObserveFileChange
<1>2. ObservationTypes => ObservationTypes'
  BY <1>1 DEF ObservationTypes, Validated
<1>3. \/ \E key, category : ObservedDeviation(key, category)
      \/ UNCHANGED <<refused, deviations>>
         /\ actions' = actions \cup (IF method = "completed" THEN {"file_change"} ELSE {})
  BY DEF ObserveFileChange
<1>4. RecordStep
  <2>1. CASE \E key, category : ObservedDeviation(key, category)
    BY <2>1, ObservationIsRecorded
  <2>2. CASE /\ UNCHANGED <<refused, deviations>>
             /\ actions' = actions \cup (IF method = "completed" THEN {"file_change"} ELSE {})
    BY <2>2 DEF RecordStep, Recorded, Kinds
  <2> QED BY <1>3, <2>1, <2>2
<1>5. ASSUME ObservationTypes, Disclosed PROVE Disclosed'
  <2>1. turn = "running" /\ turn' = turn /\ deviations \subseteq deviations'
        /\ \A n : Writable(n)' <=> Writable(n)
    BY <1>1, <1>4, WritableStands DEF Event, RecordStep
  <2>2. ASSUME deviations' = {} PROVE names # {} /\ \A n \in names : Writable(n)
    <3>1. ASSUME NEW key, NEW category, ObservedDeviation(key, category) PROVE FALSE
      BY <2>2, <3>1, DeviationKeeps DEF ObservedDeviation
    <3> QED BY <3>1, Zenon DEF ObserveFileChange
  <2>3. validated' \subseteq validated \cup {item} /\ announced'[item] = names
        /\ \A i \in Items : i # item => announced'[i] = announced[i]
    BY <1>1, <1>5 DEF Validated, ObservationTypes
  <2>4. ASSUME NEW i \in validated' \cup accepted', deviations' = {}
        PROVE  announced'[i] # {} /\ \A n \in announced'[i] : Writable(n)'
    <3>1. CASE i = item
      BY <2>1, <2>2, <2>3, <2>4, <3>1
    <3>2. CASE i # item
      <4>1. i \in validated \cup accepted /\ announced'[i] = announced[i] /\ deviations = {}
        BY <1>1, <1>5, <2>1, <2>3, <2>4, <3>2 DEF ObservationTypes
      <4> QED BY <1>5, <2>1, <4>1 DEF Disclosed
    <3> QED BY <3>1, <3>2
  <2> QED BY <2>1, <2>4 DEF Disclosed
<1> QED BY <1>1, <1>2, <1>4, <1>5 DEF EventStep

LEMMA ObserveImageStep ==
  ASSUME UNCHANGED <<review, decisions, answers, phase>>,
         NEW item, NEW name, ObserveImage(item, name)
  PROVE  EventStep
<1>1. Event /\ UNCHANGED observation
  BY DEF ObserveImage
<1>2. UNCHANGED record \/ ObservedDeviation(<<"item", item, "image">>, "file_path")
  BY DEF ObserveImage
<1>3. RecordStep
  BY <1>2, ObservationIsRecorded, NothingRecorded
<1> QED BY <1>1, <1>3, SameObservation

LEMMA ObserveToolStep ==
  ASSUME UNCHANGED <<review, decisions, answers, phase>>,
         NEW item, NEW tool, ObserveTool(item, tool)
  PROVE  EventStep
<1>1. Event /\ UNCHANGED observation
  BY DEF ObserveTool
<1>2. \E key, category : ObservedDeviation(key, category)
  BY DEF ObserveTool
<1>3. RecordStep
  BY <1>2, ObservationIsRecorded
<1> QED BY <1>1, <1>3, SameObservation

LEMMA ObserveDiffStep ==
  ASSUME UNCHANGED <<review, decisions, answers, phase>>,
         NEW names, ObserveDiff(names)
  PROVE  EventStep
<1>1. Event /\ UNCHANGED observation
  BY DEF ObserveDiff
<1>2. UNCHANGED record \/ \E key, category : ObservedDeviation(key, category)
  BY DEF ObserveDiff
<1>3. RecordStep
  BY <1>2, ObservationIsRecorded, NothingRecorded
<1> QED BY <1>1, <1>3, SameObservation

LEMMA ObserveNamelessDiffStep ==
  ASSUME UNCHANGED <<review, decisions, answers, phase>>, ObserveNamelessDiff
  PROVE  EventStep
<1>1. Event /\ UNCHANGED observation
  BY DEF ObserveNamelessDiff
<1>2. \E key, category : ObservedDeviation(key, category)
  BY DEF ObserveNamelessDiff
<1>3. RecordStep
  BY <1>2, ObservationIsRecorded
<1> QED BY <1>1, <1>3, SameObservation

(* An event of a running turn keeps the invariant: what it leaves alone is all *)
(* that the completion of an execution is judged by.                           *)
LEMMA EventKeeps == IInv /\ EventStep => IInv'
<1> SUFFICES ASSUME IInv, EventStep PROVE IInv'
  OBVIOUS
<1> USE DEF IInv
<1>1. /\ turn = "running" /\ turn' = turn /\ events < MaxEvents /\ events' = events + 1
      /\ UNCHANGED <<contract, content, status, checks, outcome>>
      /\ UNCHANGED <<review, decisions, answers, phase>>
  BY DEF EventStep, Event
<1>2. TypeOK'
  <2>1. events' \in 0 .. MaxEvents
    BY <1>1, GateAssumption DEF TypeOK
  <2>2. actions' \subseteq Kinds
    BY DEF EventStep, RecordStep, TypeOK, Kinds
  <2>3. ObservationTypes'
    BY DEF EventStep, TypeOK, ObservationTypes
  <2>4. \A a \in answers' : \E d \in decisions' :
          a.decisionId = d.decisionId /\ a.choice \in OptionsOf(d)
    BY <1>1 DEF TypeOK
  <2> QED BY <1>1, <2>1, <2>2, <2>3, <2>4 DEF TypeOK, ObservationTypes, Kinds
<1>3. PhasesOK'
  BY <1>1 DEF PhasesOK
<1>4. Recorded'
  BY DEF EventStep, RecordStep
<1>5. outcome' # "completed"
  BY <1>1 DEF PhasesOK
<1>6. Asked'
  BY <1>1, AskedStands DEF ReviewStands
<1>7. Disclosed'
  BY DEF EventStep, TypeOK, ObservationTypes
<1> QED BY <1>2, <1>3, <1>4, <1>5, <1>6, <1>7 DEF Completed, CompletedStaysInside

-----------------------------------------------------------------------------
(* The end of a turn *)

LEMMA LeftIsContent == \A c \in Left : c \in [Paths -> {"commit", "approved", "new"}]
BY DEF Left

LEMMA EndTurnKeeps ==
  ASSUME IInv, UNCHANGED <<review, decisions, answers, phase>>,
         NEW how \in {"completed", "interrupted", "failed"}, EndTurn(how)
  PROVE  IInv'
<1> USE DEF IInv
<1>1. /\ turn = "running" /\ status' = how /\ turn' \in {"checks", "final"}
      /\ content' \in [Paths -> {"commit", "approved", "new"}]
      /\ UNCHANGED <<contract, events, announced, validated, accepted, refused, deviations, actions,
                     checks, outcome>>
  BY LeftIsContent DEF EndTurn, observation, record
<1>2. TypeOK'
  <2>1. \A a \in answers' : \E d \in decisions' :
          a.decisionId = d.decisionId /\ a.choice \in OptionsOf(d)
    BY DEF TypeOK
  <2> QED BY <1>1, <2>1 DEF TypeOK
<1>3. PhasesOK'
  BY <1>1 DEF PhasesOK
<1>4. Recorded'
  BY <1>1 DEF Recorded
<1>5. outcome' # "completed"
  BY <1>1 DEF PhasesOK
<1>6. Asked' /\ Disclosed'
  <2>1. UNCHANGED observation /\ UNCHANGED contract /\ deviations \subseteq deviations' /\ turn' # "idle"
    BY <1>1 DEF observation
  <2> QED BY <2>1, AskedStands, DisclosedStands DEF ReviewStands
<1> QED BY <1>2, <1>3, <1>4, <1>5, <1>6 DEF Completed, CompletedStaysInside

LEMMA RunCheckKeeps ==
  ASSUME IInv, UNCHANGED <<review, decisions, answers, phase>>, NEW result, RunCheck(result)
  PROVE  IInv'
<1> USE DEF IInv
<1> DEFINE found == IF result = "passed" THEN FinalDeviations(ChangedPaths') ELSE {}
<1>1. /\ turn = "checks" /\ turn' \in {"checks", "final"}
      /\ content' \in [Paths -> {"commit", "approved", "new"}]
      /\ UNCHANGED <<contract, status, events, announced, validated, accepted, refused, outcome>>
  BY LeftIsContent DEF RunCheck, observation, TypeOK
<1>2. deviations \subseteq deviations'
  BY DEF RunCheck
<1>3. actions' \subseteq Kinds
  BY DEF RunCheck, TypeOK, Kinds
<1>4. checks' \in Seq({"passed", "failed", "not_run"})
  BY DEF RunCheck, RecordCheck, TypeOK
<1>5. TypeOK'
  <2>1. \A a \in answers' : \E d \in decisions' :
          a.decisionId = d.decisionId /\ a.choice \in OptionsOf(d)
    BY DEF TypeOK
  <2> QED BY <1>1, <1>3, <1>4, <2>1 DEF TypeOK, Kinds
<1>6. PhasesOK'
  BY <1>1 DEF PhasesOK
<1>7. Recorded'
  BY <1>1, <1>2 DEF Recorded
<1>8. outcome' # "completed"
  BY <1>1 DEF PhasesOK
<1>9. Asked' /\ Disclosed'
  <2>1. UNCHANGED observation /\ UNCHANGED contract /\ deviations \subseteq deviations' /\ turn' # "idle"
    BY <1>1, <1>2 DEF observation
  <2> QED BY <2>1, AskedStands, DisclosedStands DEF ReviewStands
<1> QED BY <1>5, <1>6, <1>7, <1>8, <1>9 DEF Completed, CompletedStaysInside

LEMMA ConcludeKeeps ==
  ASSUME IInv, UNCHANGED <<review, decisions, answers, phase>>, Conclude
  PROVE  IInv'
<1> USE DEF IInv
<1> DEFINE found == FinalDeviations(ChangedPaths)
<1>1. /\ turn \in {"checks", "final"} /\ turn' = "over"
      /\ deviations' = deviations \cup found /\ outcome' = Outcome(deviations \cup found)
      /\ UNCHANGED <<contract, content, status, events, announced, validated, accepted, refused, checks>>
  BY DEF Conclude, observation
<1>2. actions' \subseteq Kinds
  BY DEF Conclude, TypeOK, Kinds
<1>3. outcome' \in {"paused", "failed", "completed"}
  BY <1>1 DEF Outcome
<1>4. TypeOK'
  <2>1. \A a \in answers' : \E d \in decisions' :
          a.decisionId = d.decisionId /\ a.choice \in OptionsOf(d)
    BY DEF TypeOK
  <2> QED BY <1>1, <1>2, <1>3, <2>1 DEF TypeOK, Kinds
<1>5. PhasesOK'
  BY <1>1 DEF PhasesOK
<1>6. Recorded'
  BY <1>1 DEF Recorded
<1>7. ASSUME outcome' = "completed"
      PROVE  /\ deviations = {} /\ found = {} /\ status \notin {"interrupted", "failed"}
             /\ Len(checks) = Len(contract.requiredChecks)
             /\ \A i \in DOMAIN checks : checks[i] = "passed"
  BY <1>1, <1>7 DEF Outcome
<1>8. Completed'
  <2> SUFFICES ASSUME outcome' = "completed" PROVE turn' = "over" /\ refused' = {} /\ deviations' = {}
    BY DEF Completed
  <2>1. refused = {}
    BY <1>7 DEF Recorded
  <2> QED BY <1>1, <1>7, <2>1
<1>9. CompletedStaysInside'
  <2> SUFFICES ASSUME outcome' = "completed"
               PROVE  /\ status' = "completed"
                      /\ Len(checks') = Len(contract'.requiredChecks)
                      /\ \A i \in DOMAIN checks' : checks'[i] = "passed"
                      /\ \A p \in ChangedPaths' : Writable(p)'
    BY DEF CompletedStaysInside
  <2>1. status = "completed"
    BY <1>1, <1>7 DEF TypeOK, PhasesOK
  <2>2. \A p \in ChangedPaths : Writable(p)
    <3> SUFFICES ASSUME NEW p \in ChangedPaths, ~Writable(p) PROVE FALSE
      OBVIOUS
    <3>1. [key |-> <<"final-diff", p>>, category |-> "file_path"] \in found
      BY DEF FinalDeviations
    <3> QED BY <3>1, <1>7
  <2>3. ChangedPaths' = ChangedPaths /\ \A p : Writable(p)' <=> Writable(p)
    BY <1>1 DEF ChangedPaths, Writable, Guarded
  <2> QED BY <1>1, <1>7, <2>1, <2>2, <2>3
<1>10. Asked' /\ Disclosed'
  <2>1. UNCHANGED observation /\ UNCHANGED contract /\ deviations \subseteq deviations' /\ turn' # "idle"
    BY <1>1 DEF observation
  <2> QED BY <2>1, AskedStands, DisclosedStands DEF ReviewStands
<1> QED BY <1>4, <1>5, <1>6, <1>8, <1>9, <1>10

LEMMA ThrowKeeps ==
  ASSUME IInv, UNCHANGED <<review, decisions, answers, phase>>,
         NEW how \in {"paused", "failed"}, Throw(how)
  PROVE  IInv'
<1> USE DEF IInv
<1>1. /\ turn \in {"running", "checks", "final"} /\ turn' = "over" /\ outcome' = how
      /\ UNCHANGED <<contract, content, status, events, announced, validated, accepted, refused,
                     deviations, actions, checks>>
  BY DEF Throw, observation, record
<1>2. TypeOK'
  <2>1. \A a \in answers' : \E d \in decisions' :
          a.decisionId = d.decisionId /\ a.choice \in OptionsOf(d)
    BY DEF TypeOK
  <2> QED BY <1>1, <2>1 DEF TypeOK
<1>3. PhasesOK'
  BY <1>1 DEF PhasesOK
<1>4. Recorded'
  BY <1>1 DEF Recorded
<1>5. Asked' /\ Disclosed'
  <2>1. UNCHANGED observation /\ UNCHANGED contract /\ deviations \subseteq deviations' /\ turn' # "idle"
    BY <1>1 DEF observation
  <2> QED BY <2>1, AskedStands, DisclosedStands DEF ReviewStands
<1> QED BY <1>1, <1>2, <1>3, <1>4, <1>5 DEF Completed, CompletedStaysInside

-----------------------------------------------------------------------------
(* Review and approval *)

LEMMA NormalizeKeeps == IInv /\ NormalizeReview => IInv'
<1> SUFFICES ASSUME IInv, NormalizeReview PROVE IInv'
  OBVIOUS
<1> USE DEF IInv
<1>1. phase = "inspected" /\ phase' = "review" /\ UNCHANGED <<review, answers>> /\ UNCHANGED gateVars
  BY DEF NormalizeReview
<1>2. answers' = {} /\ turn = "idle" /\ outcome = "none"
  BY <1>1 DEF PhasesOK
<1>3. TypeOK'
  BY <1>1, <1>2 DEF TypeOK, gateVars
<1>4. PhasesOK'
  BY <1>1, <1>2 DEF PhasesOK, gateVars
<1>5. Recorded'
  BY <1>1 DEF Recorded, gateVars
<1>6. outcome' # "completed"
  BY <1>1, <1>2 DEF gateVars
<1>7. Asked'
  <2>1. Questions' = Questions
    BY <1>1 DEF Questions
  <2>2. decisions' \in OnePerId(Questions)
    BY DEF NormalizeReview
  <2>3. OnePerId(Questions)' = OnePerId(Questions)
    BY <2>1 DEF OnePerId
  <2> QED BY <1>1, <2>2, <2>3 DEF Asked
<1>8. Disclosed'
  BY <1>1, <1>2 DEF Disclosed, gateVars
<1> QED BY <1>3, <1>4, <1>5, <1>6, <1>7, <1>8 DEF Completed, CompletedStaysInside

LEMMA AnswerKeeps == ASSUME IInv, NEW d, NEW choice, Answer(d, choice) PROVE IInv'
<1> USE DEF IInv
<1> DEFINE answer == [decisionId |-> d.decisionId, choice |-> choice]
<1>1. /\ phase = "review" /\ d \in decisions /\ choice \in OptionsOf(d)
      /\ answers' = answers \cup {answer}
      /\ UNCHANGED <<review, decisions, phase>> /\ UNCHANGED gateVars
  BY DEF Answer, Open
<1>2. turn = "idle" /\ outcome = "none"
  BY <1>1 DEF PhasesOK
<1>3. TypeOK'
  <2>1. \A a \in answers' : \E e \in decisions' :
          a.decisionId = e.decisionId /\ a.choice \in OptionsOf(e)
    BY <1>1 DEF TypeOK
  <2> QED BY <1>1, <2>1 DEF TypeOK, gateVars
<1>4. PhasesOK'
  BY <1>1, <1>2 DEF PhasesOK, gateVars
<1>5. Recorded'
  BY <1>1 DEF Recorded, gateVars
<1>6. outcome' # "completed"
  BY <1>1, <1>2 DEF gateVars
<1>7. Asked'
  <2>1. Questions' = Questions
    BY <1>1 DEF Questions
  <2>2. OnePerId(Questions)' = OnePerId(Questions)
    BY <2>1 DEF OnePerId
  <2> QED BY <1>1, <2>2 DEF Asked
<1>8. Disclosed'
  BY <1>1, <1>2 DEF Disclosed, gateVars
<1> QED BY <1>3, <1>4, <1>5, <1>6, <1>7, <1>8 DEF Completed, CompletedStaysInside

LEMMA PreviewIsAContract == DOMAIN CreateContractPreview = DOMAIN NoContract
BY DEF CreateContractPreview, NoContract

LEMMA ApproveKeeps == IInv /\ Approve => IInv'
<1> SUFFICES ASSUME IInv, Approve PROVE IInv'
  OBVIOUS
<1> USE DEF IInv
<1>1. /\ phase = "review" /\ phase' = "approved" /\ turn' = "running"
      /\ contract' = CreateContractPreview
      /\ UNCHANGED <<review, decisions, answers, content, status, events, announced, validated,
                     accepted, refused, deviations, actions, checks, outcome>>
  BY DEF Approve, observation, record
<1>2. outcome = "none"
  BY <1>1 DEF PhasesOK
<1>3. TypeOK'
  <2>1. \A a \in answers' : \E d \in decisions' :
          a.decisionId = d.decisionId /\ a.choice \in OptionsOf(d)
    BY <1>1 DEF TypeOK
  <2>2. DOMAIN contract' = DOMAIN NoContract
    BY <1>1, PreviewIsAContract
  <2> QED BY <1>1, <2>1, <2>2 DEF TypeOK
<1>4. PhasesOK'
  BY <1>1, <1>2 DEF PhasesOK
<1>5. Recorded'
  BY <1>1 DEF Recorded
<1>6. Asked'
  <2>1. Questions' = Questions /\ Open' = Open
    BY <1>1 DEF Questions, Open
  <2>2. OnePerId(Questions)' = OnePerId(Questions)
    BY <2>1 DEF OnePerId
  <2>3. CreateContractPreview' = CreateContractPreview
    <3>1. review' = review /\ decisions' = decisions /\ answers' = answers
      BY <1>1
    <3> QED BY <3>1, PreviewStands
  <2>4. Open = {}
    BY DEF Approve, Resolved
  <2> QED BY <1>1, <2>1, <2>2, <2>3, <2>4 DEF Asked
<1>7. Disclosed'
  <2>1. turn = "idle"
    BY <1>1 DEF PhasesOK
  <2> QED BY <1>1, <2>1 DEF Disclosed
<1> QED BY <1>1, <1>2, <1>3, <1>4, <1>5, <1>6, <1>7 DEF Completed, CompletedStaysInside

-----------------------------------------------------------------------------
(* The theorems *)

LEMMA InitHolds == Init => IInv
<1> SUFFICES ASSUME Init PROVE IInv
  OBVIOUS
<1>1. TypeOK
  BY GateAssumption DEF Init, GateInit, TypeOK, NoContract, Unchanged
<1>2. PhasesOK /\ Recorded /\ Completed /\ CompletedStaysInside
  BY DEF Init, GateInit, PhasesOK, Recorded, Completed, CompletedStaysInside
<1>3. Asked /\ Disclosed
  BY DEF Init, GateInit, Asked, Disclosed
<1> QED BY <1>1, <1>2, <1>3 DEF IInv

LEMMA GateNextKeeps ==
  ASSUME IInv, GateNext, UNCHANGED <<review, decisions, answers, phase>>
  PROVE  IInv'
<1>1. ASSUME NEW item \in Items, NEW c \in Commands, NEW besides, RequestCommand(item, c, besides)
      PROVE  IInv'
  BY <1>1, RequestCommandStep, EventKeeps
<1>2. ASSUME NEW item \in Items, NEW c \in Commands, NEW method, ObserveCommand(item, c, method)
      PROVE  IInv'
  BY <1>2, ObserveCommandStep, EventKeeps
<1>3. ASSUME NEW item \in Items, RequestFileChange(item) PROVE IInv'
  BY <1>3, RequestFileChangeStep, EventKeeps
<1>4. ASSUME NEW item \in Items, NEW method, RequestOther(method, item) PROVE IInv'
  BY <1>4, RequestOtherStep, EventKeeps
<1>5. ASSUME NEW item \in Items, NEW names \in SUBSET Names, NEW method,
             ObserveFileChange(item, names, method)
      PROVE  IInv'
  BY <1>5, ObserveFileChangeStep, EventKeeps
<1>6. ASSUME NEW item \in Items, NEW name, ObserveImage(item, name) PROVE IInv'
  BY <1>6, ObserveImageStep, EventKeeps
<1>7. ASSUME NEW item \in Items, NEW tool, ObserveTool(item, tool) PROVE IInv'
  BY <1>7, ObserveToolStep, EventKeeps
<1>8. ASSUME NEW names, ObserveDiff(names) PROVE IInv'
  BY <1>8, ObserveDiffStep, EventKeeps
<1>9. ASSUME NEW how \in {"completed", "interrupted", "failed"}, EndTurn(how) PROVE IInv'
  BY <1>9, EndTurnKeeps
<1>10. ASSUME NEW result, RunCheck(result) PROVE IInv'
  BY <1>10, RunCheckKeeps
<1>11. CASE Conclude
  BY <1>11, ConcludeKeeps
<1>12. ASSUME NEW how \in {"paused", "failed"}, Throw(how) PROVE IInv'
  BY <1>12, ThrowKeeps
<1>13. CASE ObserveNamelessDiff
  BY <1>13, ObserveNamelessDiffStep, EventKeeps
<1> QED
  BY <1>1, <1>2, <1>3, <1>4, <1>5, <1>6, <1>7, <1>8, <1>9, <1>10, <1>11, <1>12, <1>13 DEF GateNext

LEMMA StutterKeeps == IInv /\ UNCHANGED vars => IInv'
<1> SUFFICES ASSUME IInv, UNCHANGED vars PROVE IInv'
  OBVIOUS
<1> USE DEF IInv
<1>1. UNCHANGED <<review, decisions, answers, phase, contract, content, turn, status, events, announced,
                  validated, accepted, refused, deviations, actions, checks, outcome>>
  BY DEF vars, gateVars
<1>2. TypeOK'
  BY <1>1 DEF TypeOK
<1>3. PhasesOK' /\ Recorded' /\ Completed'
  BY <1>1 DEF PhasesOK, Recorded, Completed
<1>4. CompletedStaysInside'
  <2>1. ChangedPaths' = ChangedPaths /\ \A p : Writable(p)' <=> Writable(p)
    BY <1>1 DEF ChangedPaths, Writable, Guarded
  <2> QED BY <1>1, <2>1 DEF CompletedStaysInside
<1>5. Asked' /\ Disclosed'
  <2>1. UNCHANGED observation
    BY <1>1 DEF observation
  <2> QED BY <1>1, <2>1, AskedStands, DisclosedStands DEF ReviewStands
<1> QED BY <1>2, <1>3, <1>4, <1>5

LEMMA Invariance == Spec => []IInv
<1>1. Init => IInv
  BY InitHolds
<1>2. IInv /\ [Next]_vars => IInv'
  <2> SUFFICES ASSUME IInv, [Next]_vars PROVE IInv'
    OBVIOUS
  <2>1. CASE NormalizeReview
    BY <2>1, NormalizeKeeps
  <2>2. CASE \E d \in decisions, choice \in Choices : Answer(d, choice)
    BY <2>2, AnswerKeeps
  <2>3. CASE Approve
    BY <2>3, ApproveKeeps
  <2>4. CASE GateNext /\ UNCHANGED <<review, decisions, answers, phase>>
    BY <2>4, GateNextKeeps
  <2>5. CASE UNCHANGED vars
    BY <2>5, StutterKeeps
  <2> QED BY <2>1, <2>2, <2>3, <2>4, <2>5 DEF Next
<1> QED BY <1>1, <1>2, PTL DEF Spec

(* The variables keep their types, and every answer is one that its question   *)
(* offered.                                                                    *)
THEOREM TypeInvariant == Spec => []TypeOK
BY Invariance, PTL DEF IInv

(* Whatever the agent was refused or paused for is on record, and an execution *)
(* with anything on record is not completed (execution-gate.ts, runtime.ts).   *)
THEOREM Refusals == Spec => []RefusalsAreOnRecord
<1>1. IInv => RefusalsAreOnRecord
  BY DEF IInv, Recorded, Completed, RefusalsAreOnRecord
<1> QED BY <1>1, Invariance, PTL

(* A completed execution ended by itself with every required check passed, and *)
(* what it left in the worktree was inside its contract when it was judged     *)
(* (runtime.ts, after the turn).                                               *)
THEOREM CompletionIsInside == Spec => []CompletedStaysInside
BY Invariance, PTL DEF IInv

(* The normalizer asks about every effect that the task or a searched text of a*)
(* plan states, and nothing is executed before the user has answered           *)
(* (normalizer.ts over deterministic-policy.ts).                               *)
THEOREM EffectsAreAnswered == Spec => []EveryEffectIsAnswered
<1>1. IInv => EveryEffectIsAnswered
  <2> SUFFICES ASSUME IInv, turn # "idle" PROVE EveryEffectIsAnswered
    BY DEF EveryEffectIsAnswered
  <2>1. review \in Reviews /\ phase = "approved" /\ decisions \in OnePerId(Questions) /\ Open = {}
    <3>1. phase = "approved"
      BY DEF IInv, PhasesOK
    <3> QED BY <3>1 DEF IInv, TypeOK, Asked
  <2>2. \A d \in decisions : \E a \in answers : a.decisionId = d.decisionId
    BY <2>1 DEF Open
  <2>3. ASSUME NEW e \in Effects(review.task, review.plans), NEW text, e.shown = Words(text.shown)
        PROVE  Answered(e.key[1], text)
    BY <2>1, <2>2, <2>3, EffectIsAsked DEF Answered
  <2>4. \A t \in Stated(review.task, "task") : Answered(t, review.task)
    BY <2>1, <2>3, StatedInTask
  <2>5. ASSUME NEW plan \in review.plans, NEW i \in DOMAIN plan.statements,
               IsSearched(plan.statements[i]),
               NEW t \in Stated(plan.statements[i].text, "plan") \cup Stated(plan.statements[i].text, "task")
        PROVE  Answered(t, plan.statements[i].text)
    BY <2>1, <2>3, <2>5, StatedInPlan
  <2> QED BY <2>4, <2>5 DEF EveryEffectIsAnswered
<1> QED BY <1>1, Invariance, PTL

(* A question names a probe only for an effect that its own plan states        *)
(* (supportingProbes, normalizer.ts).                                          *)
THEOREM Support == Spec => []SupportIsStated
<1>1. IInv => SupportIsStated
  <2> SUFFICES ASSUME IInv, NEW d \in decisions, d.decisionId[1] = "policy",
                      NEW plan \in review.plans, \E o \in d.options : plan.probeId \in o.probes
               PROVE  States(plan, d)
    BY DEF SupportIsStated
  <2>1. review \in Reviews
    BY DEF IInv, TypeOK
  <2>2. decisions \in OnePerId(Questions)
    BY DEF IInv, Asked
  <2>3. decisions \subseteq Questions
    BY <2>2 DEF OnePerId
  <2>4. PICK o \in d.options : plan.probeId \in o.probes
    OBVIOUS
  <2> QED BY <2>1, <2>3, <2>4, SupportHolds
<1> QED BY <1>1, Invariance, PTL

LEMMA ApprovedIsProper ==
  ASSUME IInv, phase = "approved", NEW n \in Names \cup Paths, Writable(n)
  PROVE  Proper(Request[n].resolved)
<1>1. review \in Reviews /\ contract = CreateContractPreview /\ decisions \in OnePerId(Questions)
  BY DEF IInv, TypeOK, Asked
<1>2. decisions \subseteq Questions
  BY <1>1 DEF OnePerId
<1> QED BY <1>1, <1>2, WritableIsProper

(* A completed execution has changed only what the plans meant to change and   *)
(* nothing that holds secrets (contracts.ts, change-monitor.ts, runtime.ts).   *)
THEOREM CompletionIsPlanned == Spec => []ChangesWerePlanned
<1>1. IInv => ChangesWerePlanned
  <2> SUFFICES ASSUME IInv, outcome = "completed",
                      NEW p \in Paths \ Ignored, content[p] # Unchanged(p)
               PROVE  Proper(Request[p].resolved)
    BY DEF ChangesWerePlanned
  <2>1. p \in ChangedPaths
    BY DEF ChangedPaths, Unchanged
  <2>2. Writable(p)
    BY <2>1 DEF IInv, CompletedStaysInside
  <2>3. phase = "approved"
    BY DEF IInv, Completed, PhasesOK
  <2> QED BY <2>2, <2>3, ApprovedIsProper
<1> QED BY <1>1, Invariance, PTL

(* What the agent was allowed to write it had announced, under names that lead *)
(* to files the plans meant to change (execution-gate.ts).                     *)
THEOREM WritesAreDisclosed == Spec => []AcceptedWritesWereDisclosed
<1>1. IInv => AcceptedWritesWereDisclosed
  <2> SUFFICES ASSUME IInv, NEW i \in accepted, deviations = {}
               PROVE  announced[i] # {} /\ \A n \in announced[i] : Proper(Request[n].resolved)
    BY DEF AcceptedWritesWereDisclosed
  <2>1. announced[i] # {} /\ \A n \in announced[i] : Writable(n)
    BY DEF IInv, Disclosed
  <2>2. turn # "idle"
    BY DEF IInv, Disclosed
  <2>3. phase = "approved"
    BY <2>2 DEF IInv, PhasesOK
  <2>4. announced[i] \subseteq Names
    BY DEF IInv, TypeOK
  <2> QED BY <2>1, <2>3, <2>4, ApprovedIsProper
<1> QED BY <1>1, Invariance, PTL

(* segmentMatches and matchSegments answer what a pattern means, for all paths *)
(* without stars and all patterns (path-policy.ts:86-147).                     *)
THEOREM MatcherMeansItsPattern == Spec => []MatcherIsExact
<1>1. ASSUME NEW s \in Samples PROVE MatcherIsExactOn(s.paths, s.patterns)
  <2> SUFFICES ASSUME NEW path \in s.paths, NEW pattern \in s.patterns
               PROVE  MatchSegments(path, pattern) = Denotes(path, pattern)
    BY DEF MatcherIsExactOn
  <2>1. path \in Seq(Seq(Chars)) /\ pattern \in Seq(Seq(Chars)) /\ StarFree(path)
    BY SampleAssumption, StringsAreChars
  <2> QED BY <2>1, MatchSegmentsExactly
<1>2. MatcherIsExact
  BY <1>1 DEF MatcherIsExact
<1> QED BY <1>2, PTL
===============================================================================
