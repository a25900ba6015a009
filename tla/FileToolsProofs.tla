-------------------------- MODULE FileToolsProofs --------------------------
(***************************************************************************)
(* The file tools, for every set of calls, every tree of files and every   *)
(* text.  The parts, each resting on those before:                         *)
(*                                                                         *)
(*   induction over numbers, sequences and paths, said of sets             *)
(*   paths and trees: Walk, Resolve, what put, rename and mkdir -p make    *)
(*   texts and their lines, and what an edit makes of them                 *)
(*   the session: every call works in the one context it has, CallsAgree   *)
(*   the files and the calls, FilesInv: TypeOK and ResolveIsWalk           *)
(*   what a call has seen, SeenInv: EditsAreLocal and SearchIsComplete     *)
(***************************************************************************)
EXTENDS FileTools, FiniteSetTheorems, SequenceTheorems, WellFoundedInduction, TLAPS

-----------------------------------------------------------------------------
(* Induction: what is true of 0, and of n + 1 if it is of n, is true of    *)
(* every natural number, said of sets because the provers cannot           *)
(* instantiate a theorem about predicates.                                 *)

Below == {pair \in Nat \X Nat : pair[1] < pair[2]}

(* A set of natural numbers has a least one. *)
LEMMA Least ==
  ASSUME NEW T, T \subseteq Nat, T # {}
  PROVE \E m \in T : \A k \in T : m <= k
<1>1. IsWellFoundedOn(Below, Nat)
  <2>1. Below = OpToRel(<, Nat)
    BY DEF OpToRel, Below
  <2> QED
    BY <2>1, NatLessThanWellFounded
<1>2. PICK m \in T : \A k \in T : ~(<<k, m>> \in Below)
  BY <1>1, WFMin
<1>3. ASSUME NEW k \in T PROVE m <= k
  <2>1. k \in Nat /\ m \in Nat
    OBVIOUS
  <2>2. <<k, m>> \in Below <=> k < m
    BY <2>1 DEF Below
  <2> QED
    BY <1>2, <2>1, <2>2
<1> QED
  BY <1>3

(* Induction. *)
LEMMA Induction ==
  ASSUME NEW T, 0 \in T, \A n \in Nat : n \in T => n + 1 \in T
  PROVE  Nat \subseteq T
<1> SUFFICES ASSUME Nat \ T # {} PROVE FALSE
  OBVIOUS
<1>1. PICK m \in Nat \ T : \A k \in Nat \ T : m <= k
  BY Least
<1>2. m # 0 /\ m - 1 \in Nat
  BY <1>1
<1>3. m - 1 \in T
  BY <1>1, <1>2
<1> QED
  BY <1>1, <1>2, <1>3

-----------------------------------------------------------------------------
(* Prefixes of a path *)

Pre(p, k) == SubSeq(p, 1, k)

(* The prefix of length k has the first k names. *)
LEMMA PreIs ==
  ASSUME NEW S, NEW p \in Seq(S), NEW k \in 0..Len(p)
  PROVE  /\ Pre(p, k) \in Seq(S) /\ Len(Pre(p, k)) = k
         /\ \A i \in 1..k : Pre(p, k)[i] = p[i]
<1>1. Len(p) \in Nat /\ k \in Int /\ 1 \in Int /\ 0 <= k /\ k <= Len(p)
  BY LenProperties
<1>2. \A i \in 1..k : p[i] \in S
  BY <1>1, ElementOfSeq
<1>3. /\ SubSeq(p, 1, k) \in Seq(S)
      /\ Len(SubSeq(p, 1, k)) = IF 1 <= k THEN k - 1 + 1 ELSE 0
      /\ \A i \in 1..k - 1 + 1 : SubSeq(p, 1, k)[i] = p[1 + i - 1]
  BY <1>1, <1>2, SubSeqProperties
<1>4. \A i \in 1..k : SubSeq(p, 1, k)[i] = p[i]
  <2> TAKE i \in 1..k
  <2>1. i \in 1..k - 1 + 1 /\ 1 + i - 1 = i
    BY <1>1
  <2> QED
    BY <1>3, <2>1
<1>5. Len(SubSeq(p, 1, k)) = k
  BY <1>1, <1>3
<1> QED
  BY <1>3, <1>4, <1>5 DEF Pre

(* Two sequences with the same elements are the same. *)
LEMMA Same ==
  ASSUME NEW S, NEW p \in Seq(S), NEW q \in Seq(S), Len(p) = Len(q),
         \A i \in 1..Len(p) : p[i] = q[i]
  PROVE  p = q
BY SeqEqual

(* The shortest and the longest prefix. *)
LEMMA PreEnds ==
  ASSUME NEW S, NEW p \in Seq(S)
  PROVE  Pre(p, 0) = <<>> /\ Pre(p, Len(p)) = p
<1>1. Pre(p, 0) = <<>>
  BY SubSeqEmpty DEF Pre
<1>2. Pre(p, Len(p)) = p
  BY SubSeqFull DEF Pre
<1> QED
  BY <1>1, <1>2

(* A prefix of a prefix. *)
LEMMA PreOfPre ==
  ASSUME NEW S, NEW p \in Seq(S), NEW k \in 0..Len(p), NEW j \in 0..k
  PROVE  Pre(Pre(p, k), j) = Pre(p, j)
<1>1. Len(p) \in Nat /\ k \in Nat /\ j \in Nat /\ j \in 0..Len(p)
  BY LenProperties
<1>2. /\ Pre(p, k) \in Seq(S) /\ Len(Pre(p, k)) = k
      /\ \A i \in 1..k : Pre(p, k)[i] = p[i]
  BY PreIs
<1>3. /\ Pre(p, j) \in Seq(S) /\ Len(Pre(p, j)) = j
      /\ \A i \in 1..j : Pre(p, j)[i] = p[i]
  BY <1>1, PreIs
<1>4. PICK q \in Seq(S) : q = Pre(p, k)
  BY <1>2
<1>5. /\ Pre(q, j) \in Seq(S) /\ Len(Pre(q, j)) = j
      /\ \A i \in 1..j : Pre(q, j)[i] = q[i]
  BY <1>2, <1>4, PreIs
<1>6. \A i \in 1..j : Pre(q, j)[i] = Pre(p, j)[i]
  BY <1>1, <1>2, <1>3, <1>4, <1>5
<1> QED
  BY <1>3, <1>4, <1>5, <1>6, Same

(* A sequence with one element more: the last, and the rest the parent. *)
Longer(q, p, x) ==
  /\ q # <<>> /\ Len(q) = Len(p) + 1 /\ Len(p) \in Nat
  /\ q[Len(p) + 1] = x /\ \A i \in 1..Len(p) : q[i] = p[i]
  /\ Parent(q) = p /\ Last(q) = x
  /\ \A k \in 0..Len(p) : Pre(q, k) = Pre(p, k)

(* What is appended makes it longer. *)
LEMMA AppendLonger ==
  ASSUME NEW S, NEW p \in Seq(S), NEW x \in S
  PROVE  Append(p, x) \in Seq(S) /\ Longer(Append(p, x), p, x)
<1> DEFINE q == Append(p, x)
<1>1. /\ q \in Seq(S) /\ q # <<>> /\ Len(q) = Len(p) + 1 /\ Len(p) \in Nat
      /\ q[Len(p) + 1] = x /\ \A i \in 1..Len(p) : q[i] = p[i]
  BY AppendProperties, LenProperties
<1> HIDE DEF q
<1>2. ASSUME NEW k \in 0..Len(p) PROVE Pre(q, k) = Pre(p, k)
  <2>1. k \in 0..Len(q) /\ k \in Nat
    BY <1>1
  <2>2. /\ Pre(q, k) \in Seq(S) /\ Len(Pre(q, k)) = k /\ \A i \in 1..k : Pre(q, k)[i] = q[i]
    BY <1>1, <2>1, PreIs
  <2>3. /\ Pre(p, k) \in Seq(S) /\ Len(Pre(p, k)) = k /\ \A i \in 1..k : Pre(p, k)[i] = p[i]
    BY PreIs
  <2>4. ASSUME NEW i \in 1..k PROVE Pre(q, k)[i] = Pre(p, k)[i]
    <3>1. i \in 1..Len(p)
      BY <1>1, <2>1
    <3>2. q[i] = p[i]
      BY <1>1, <3>1
    <3> QED
      BY <2>2, <2>3, <3>2
  <2> QED
    BY <2>2, <2>3, <2>4, Same
<1>3. Parent(q) = p
  <2>1. Len(q) - 1 = Len(p) /\ Len(p) \in 0..Len(p)
    BY <1>1
  <2>2. Front(q) = Pre(q, Len(p))
    BY <2>1 DEF Front, Pre
  <2> QED
    BY <1>1, <1>2, <2>1, <2>2, PreEnds DEF Parent
<1>4. Last(q) = x
  BY <1>1 DEF Last
<1>5. Longer(q, p, x)
  BY <1>1, <1>2, <1>3, <1>4 DEF Longer
<1> QED
  BY <1>1, <1>5 DEF q

(* What that says of the sequence, ... *)
LEMMA AppendIs ==
  ASSUME NEW S, NEW p \in Seq(S), NEW x \in S
  PROVE  /\ Append(p, x) \in Seq(S) /\ Append(p, x) # <<>>
         /\ Len(Append(p, x)) = Len(p) + 1 /\ Len(p) \in Nat
         /\ Append(p, x)[Len(p) + 1] = x /\ \A i \in 1..Len(p) : Append(p, x)[i] = p[i]
         /\ Parent(Append(p, x)) = p /\ Last(Append(p, x)) = x
         /\ \A k \in 0..Len(p) : Pre(Append(p, x), k) = Pre(p, k)
BY AppendLonger DEF Longer

(* ... and of a path and a name. *)
LEMMA PathAppend ==
  ASSUME NEW p \in Path, NEW name \in STRING
  PROVE  Append(p, name) \in Path /\ Longer(Append(p, name), p, name)
BY AppendLonger DEF Path

(* One name, one word or one line is a sequence. *)
LEMMA OneIs ==
  ASSUME NEW S, NEW x \in S
  PROVE  <<x>> \in Seq(S) /\ Append(<<>>, x) = <<x>> /\ <<>> \in Seq(S)
<1>1. <<>> \in Seq(S) /\ Append(<<>>, x) = <<x>>
  OBVIOUS
<1>2. Append(<<>>, x) \in Seq(S)
  BY <1>1, AppendProperties
<1> QED
  BY <1>1, <1>2

(* A path that is not empty is its parent and its last name, and so is     *)
(* each of its prefixes.                                                   *)
LEMMA PreStep ==
  ASSUME NEW S, NEW p \in Seq(S), NEW k \in 1..Len(p)
  PROVE  /\ k \in Nat /\ k - 1 \in 0..Len(p) /\ k \in 0..Len(p) /\ p[k] \in S
         /\ Pre(p, k) = Append(Pre(p, k - 1), p[k]) /\ Pre(p, k) # <<>>
         /\ Parent(Pre(p, k)) = Pre(p, k - 1) /\ Last(Pre(p, k)) = p[k]
<1>1. Len(p) \in Nat /\ k \in Nat /\ k - 1 \in 0..Len(p) /\ k \in 0..Len(p)
  BY LenProperties
<1>2. p[k] \in S
  BY ElementOfSeq
<1>3. PICK q \in Seq(S) : /\ q = Pre(p, k - 1) /\ Len(q) = k - 1
                          /\ \A i \in 1..k - 1 : q[i] = p[i]
  BY <1>1, PreIs
<1>4. /\ Append(q, p[k]) \in Seq(S) /\ Append(q, p[k]) # <<>> /\ Len(Append(q, p[k])) = k
      /\ Append(q, p[k])[k] = p[k] /\ \A i \in 1..k - 1 : Append(q, p[k])[i] = q[i]
      /\ Parent(Append(q, p[k])) = q /\ Last(Append(q, p[k])) = p[k]
  <2>1. Len(q) + 1 = k
    BY <1>1, <1>3
  <2> QED
    BY <1>2, <1>3, <2>1, AppendIs
<1>5. /\ Pre(p, k) \in Seq(S) /\ Len(Pre(p, k)) = k /\ \A i \in 1..k : Pre(p, k)[i] = p[i]
  BY <1>1, PreIs
<1>6. \A i \in 1..k : Append(q, p[k])[i] = Pre(p, k)[i]
  <2> TAKE i \in 1..k
  <2>1. i \in 1..k - 1 \/ i = k
    BY <1>1
  <2> QED
    BY <1>3, <1>4, <1>5, <2>1
<1>7. Pre(p, k) = Append(q, p[k])
  BY <1>4, <1>5, <1>6, Same
<1> QED
  BY <1>1, <1>2, <1>3, <1>4, <1>7

(* IsPrefix, on paths. *)
LEMMA PrefixIs ==
  ASSUME NEW S, NEW b \in Seq(S), NEW p \in Seq(S)
  PROVE  /\ IsPrefix(b, p) <=> Len(b) \in 0..Len(p) /\ b = Pre(p, Len(b))
         /\ IsPrefix(b, p) => (b # p <=> Len(b) < Len(p))
<1>1. Len(b) \in Nat /\ Len(p) \in Nat
  BY LenProperties
<1>2. SubSeq(b, 1, Len(b)) = b
  BY SubSeqFull
<1>3. IsPrefix(b, p) <=> Len(b) \in 0..Len(p) /\ b = Pre(p, Len(b))
  BY <1>1, <1>2 DEF IsPrefix, Pre
<1>4. Len(b) = Len(p) /\ b = Pre(p, Len(b)) => b = p
  BY PreEnds
<1> QED
  BY <1>1, <1>3, <1>4

-----------------------------------------------------------------------------
(* Steps along a path: Walk and Resolve are the ends of such steps.        *)

WalkEquation(t, p, f) ==
  f = [k \in 0..Len(p) |-> IF k = 0 THEN {<<>>} ELSE {WalkStep(t, q, p[k]) : q \in f[k - 1]}]

(* The places a walk comes to, one for each prefix of the path. *)
Walks(t, p, w) ==
  w[0] = <<>> /\ \A k \in 1..Len(p) : w[k] = WalkStep(t, w[k - 1], p[k])

(* The recursion has a solution, ... *)
LEMMA WalkExists ==
  ASSUME NEW t, NEW p \in Seq(STRING)
  PROVE  \E f : WalkEquation(t, p, f)
<1> DEFINE F(n, f) == f = [k \in 0..n |-> IF k = 0 THEN {<<>>} ELSE {WalkStep(t, q, p[k]) : q \in f[k - 1]}]
           T == {n \in Nat : \E f : F(n, f)}
<1>1. 0 \in T
  <2>1. F(0, [k \in 0..0 |-> {<<>>}])
    OBVIOUS
  <2> QED
    BY <2>1
<1>2. ASSUME NEW n \in Nat, n \in T PROVE n + 1 \in T
  <2>1. PICK f : F(n, f)
    BY <1>2
  <2> DEFINE last == {WalkStep(t, q, p[n + 1]) : q \in f[n]}
             g == [k \in 0..n + 1 |-> IF k <= n THEN f[k] ELSE last]
  <2>2. \A k \in 0..n : f[k] = IF k = 0 THEN {<<>>} ELSE {WalkStep(t, q, p[k]) : q \in f[k - 1]}
    BY <2>1
  <2>3. \A k \in 0..n : g[k] = f[k]
    OBVIOUS
  <2>4. g[n + 1] = last
    OBVIOUS
  <2>5. ASSUME NEW k \in 0..n + 1
        PROVE  g[k] = IF k = 0 THEN {<<>>} ELSE {WalkStep(t, q, p[k]) : q \in g[k - 1]}
    <3>1. CASE k = 0
      <4>1. k \in 0..n
        BY <3>1
      <4>2. g[k] = f[k] /\ f[k] = {<<>>}
        BY <2>2, <2>3, <3>1, <4>1
      <4> QED
        BY <3>1, <4>2
    <3>2. CASE k \in 1..n
      <4>1. k - 1 \in 0..n /\ k \in 0..n /\ k # 0
        BY <3>2
      <4>2. g[k - 1] = f[k - 1] /\ g[k] = f[k]
        BY <2>3, <4>1
      <4> QED
        BY <2>2, <4>1, <4>2
    <3>3. CASE k = n + 1
      <4>1. k # 0 /\ k - 1 = n /\ n \in 0..n
        BY <3>3
      <4>2. g[k - 1] = f[n] /\ g[k] = last
        BY <2>3, <2>4, <3>3, <4>1
      <4> QED
        BY <4>1, <4>2, <3>3
    <3> QED
      BY <3>1, <3>2, <3>3
  <2>6. g = [k \in 0..n + 1 |-> g[k]]
    OBVIOUS
  <2> HIDE DEF g
  <2>7. F(n + 1, g)
    BY <2>5, <2>6
  <2> QED
    BY <2>7
<1>3. Len(p) \in T
  <2> HIDE DEF T
  <2>1. Nat \subseteq T
    BY <1>1, <1>2, Induction
  <2> QED
    BY <2>1, LenProperties
<1> QED
  BY <1>3 DEF WalkEquation

(* ... and the walk comes from place to place to its end. *)
LEMMA WalkHasPlaces ==
  ASSUME NEW t, NEW p \in Seq(STRING)
  PROVE  \E w : Walks(t, p, w) /\ Walk(t, p) = w[Len(p)]
<1> DEFINE f == CHOOSE f : WalkEquation(t, p, f)
           w == [k \in 0..Len(p) |-> CHOOSE q \in f[k] : TRUE]
           T == {n \in Nat : n <= Len(p) => f[n] = {w[n]}}
<1>1. WalkEquation(t, p, f)
  BY WalkExists
<1>2. Walk(t, p) = CHOOSE q \in f[Len(p)] : TRUE
  BY DEF Walk, Along, WalkEquation
<1> HIDE DEF f
<1>3. Len(p) \in Nat
  BY LenProperties
<1>4. \A k \in 0..Len(p) : f[k] = IF k = 0 THEN {<<>>} ELSE {WalkStep(t, q, p[k]) : q \in f[k - 1]}
  BY <1>1 DEF WalkEquation
<1>5. \A k \in 0..Len(p) : w[k] = CHOOSE q \in f[k] : TRUE
  OBVIOUS
<1> HIDE DEF w
<1>6. f[0] = {<<>>} /\ w[0] = <<>>
  <2>1. f[0] = {<<>>}
    <3>1. 0 \in 0..Len(p)
      BY <1>3
    <3>2. f[0] = IF 0 = 0 THEN {<<>>} ELSE {WalkStep(t, q, p[0]) : q \in f[0 - 1]}
      BY <1>4, <3>1
    <3> QED
      BY <3>2
  <2>2. PICK root : root = <<>>
    OBVIOUS
  <2>3. PICK k : k = 0
    OBVIOUS
  <2>4. f[k] = {root} /\ k \in 0..Len(p)
    BY <1>3, <2>1, <2>2, <2>3
  <2>5. w[k] = CHOOSE q \in {root} : TRUE
    BY <1>5, <2>4
  <2>6. w[k] = root
    BY <2>5
  <2> QED
    BY <2>1, <2>2, <2>3, <2>6
<1>7. ASSUME NEW k \in 1..Len(p), f[k - 1] = {w[k - 1]}
      PROVE  f[k] = {WalkStep(t, w[k - 1], p[k])} /\ w[k] = WalkStep(t, w[k - 1], p[k])
  <2> DEFINE x == WalkStep(t, w[k - 1], p[k])
  <2>1. f[k] = {WalkStep(t, q, p[k]) : q \in f[k - 1]}
    <3>1. k \in 0..Len(p) /\ k # 0
      BY <1>3
    <3> QED
      BY <1>4, <3>1
  <2>2. f[k] = {x}
    BY <1>7, <2>1
  <2> HIDE DEF x
  <2>3. k \in 0..Len(p)
    BY <1>3
  <2>4. w[k] = CHOOSE q \in {x} : TRUE
    BY <1>5, <2>2, <2>3
  <2>5. w[k] = x
    BY <2>4
  <2> QED
    BY <2>2, <2>5 DEF x
<1>8. 0 \in T
  BY <1>6
<1>9. ASSUME NEW n \in Nat, n \in T PROVE n + 1 \in T
  <2> SUFFICES ASSUME n + 1 <= Len(p) PROVE f[n + 1] = {w[n + 1]}
    OBVIOUS
  <2>1. n + 1 \in 1..Len(p) /\ (n + 1) - 1 = n /\ f[n] = {w[n]}
    BY <1>3, <1>9
  <2> QED
    BY <1>7, <2>1
<1>10. Nat \subseteq T
  <2> HIDE DEF T
  <2> QED
    BY <1>8, <1>9, Induction
<1>11. \A k \in 0..Len(p) : f[k] = {w[k]}
  BY <1>3, <1>10
<1>12. Walks(t, p, w)
  <2>1. \A k \in 1..Len(p) : f[k - 1] = {w[k - 1]}
    BY <1>3, <1>11
  <2> QED
    BY <1>6, <1>7, <2>1 DEF Walks
<1>13. Walk(t, p) = w[Len(p)]
  BY <1>2, <1>3, <1>5
<1> QED
  BY <1>12, <1>13

(* The walk along a path is the walk to its parent and one step more. *)
LEMMA WalkIs ==
  ASSUME NEW t
  PROVE  /\ Walk(t, <<>>) = <<>>
         /\ \A p \in Seq(STRING), name \in STRING :
              Walk(t, Append(p, name)) = WalkStep(t, Walk(t, p), name)
<1>1. Walk(t, <<>>) = <<>>
  <2>1. <<>> \in Seq(STRING) /\ Len(<<>>) = 0
    OBVIOUS
  <2>2. PICK w : Walks(t, <<>>, w) /\ Walk(t, <<>>) = w[Len(<<>>)]
    BY <2>1, WalkHasPlaces
  <2> QED
    BY <2>1, <2>2 DEF Walks
<1>2. ASSUME NEW p \in Seq(STRING), NEW name \in STRING
      PROVE  Walk(t, Append(p, name)) = WalkStep(t, Walk(t, p), name)
  <2> DEFINE q == Append(p, name)
  <2>0. q \in Seq(STRING) /\ Longer(q, p, name)
    BY AppendLonger
  <2> HIDE DEF q
  <2>1. /\ q \in Seq(STRING) /\ Len(q) = Len(p) + 1 /\ Len(p) \in Nat
        /\ q[Len(p) + 1] = name /\ \A i \in 1..Len(p) : q[i] = p[i]
    BY <2>0 DEF Longer
  <2>2. PICK w : Walks(t, p, w) /\ Walk(t, p) = w[Len(p)]
    BY WalkHasPlaces
  <2>3. PICK v : Walks(t, q, v) /\ Walk(t, q) = v[Len(q)]
    BY <2>1, WalkHasPlaces
  <2> DEFINE T == {n \in Nat : n <= Len(p) => v[n] = w[n]}
  <2>4. 0 \in T
    BY <2>2, <2>3 DEF Walks
  <2>5. ASSUME NEW n \in Nat, n \in T PROVE n + 1 \in T
    <3> SUFFICES ASSUME n + 1 <= Len(p) PROVE v[n + 1] = w[n + 1]
      OBVIOUS
    <3>1. n + 1 \in 1..Len(p) /\ n + 1 \in 1..Len(q) /\ (n + 1) - 1 = n /\ v[n] = w[n]
      BY <2>1, <2>5
    <3>2. v[n + 1] = WalkStep(t, v[n], q[n + 1]) /\ w[n + 1] = WalkStep(t, w[n], p[n + 1])
      BY <2>2, <2>3, <3>1 DEF Walks
    <3> QED
      BY <2>1, <3>1, <3>2
  <2>6. Nat \subseteq T
    <3> HIDE DEF T
    <3> QED
      BY <2>4, <2>5, Induction
  <2>7. v[Len(p)] = w[Len(p)]
    BY <2>1, <2>6
  <2>8. Len(q) \in 1..Len(q) /\ Len(q) - 1 = Len(p)
    BY <2>1
  <2>9. v[Len(q)] = WalkStep(t, v[Len(p)], q[Len(q)])
    BY <2>3, <2>8 DEF Walks
  <2>10. Walk(t, q) = WalkStep(t, Walk(t, p), name)
    BY <2>1, <2>2, <2>3, <2>7, <2>9
  <2> QED
    BY <2>10 DEF q
<1> QED
  BY <1>1, <1>2

ResolveEquation(t, p, f) ==
  f = [k \in 0..Len(p) |-> IF k = 0 THEN {<<>>} ELSE {ResolveStep(t, q, p[k]) : q \in f[k - 1]}]

(* What the prefixes of the path are resolved to. *)
Resolutions(t, p, w) ==
  w[0] = <<>> /\ \A k \in 1..Len(p) : w[k] = ResolveStep(t, w[k - 1], p[k])

(* The recursion has a solution, ... *)
LEMMA ResolveExists ==
  ASSUME NEW t, NEW p \in Seq(STRING)
  PROVE  \E f : ResolveEquation(t, p, f)
<1> DEFINE F(n, f) == f = [k \in 0..n |-> IF k = 0 THEN {<<>>} ELSE {ResolveStep(t, q, p[k]) : q \in f[k - 1]}]
           T == {n \in Nat : \E f : F(n, f)}
<1>1. 0 \in T
  <2>1. F(0, [k \in 0..0 |-> {<<>>}])
    OBVIOUS
  <2> QED
    BY <2>1
<1>2. ASSUME NEW n \in Nat, n \in T PROVE n + 1 \in T
  <2>1. PICK f : F(n, f)
    BY <1>2
  <2> DEFINE last == {ResolveStep(t, q, p[n + 1]) : q \in f[n]}
             g == [k \in 0..n + 1 |-> IF k <= n THEN f[k] ELSE last]
  <2>2. \A k \in 0..n : f[k] = IF k = 0 THEN {<<>>} ELSE {ResolveStep(t, q, p[k]) : q \in f[k - 1]}
    BY <2>1
  <2>3. \A k \in 0..n : g[k] = f[k]
    OBVIOUS
  <2>4. g[n + 1] = last
    OBVIOUS
  <2>5. ASSUME NEW k \in 0..n + 1
        PROVE  g[k] = IF k = 0 THEN {<<>>} ELSE {ResolveStep(t, q, p[k]) : q \in g[k - 1]}
    <3>1. CASE k = 0
      <4>1. k \in 0..n
        BY <3>1
      <4>2. g[k] = f[k] /\ f[k] = {<<>>}
        BY <2>2, <2>3, <3>1, <4>1
      <4> QED
        BY <3>1, <4>2
    <3>2. CASE k \in 1..n
      <4>1. k - 1 \in 0..n /\ k \in 0..n /\ k # 0
        BY <3>2
      <4>2. g[k - 1] = f[k - 1] /\ g[k] = f[k]
        BY <2>3, <4>1
      <4> QED
        BY <2>2, <4>1, <4>2
    <3>3. CASE k = n + 1
      <4>1. k # 0 /\ k - 1 = n /\ n \in 0..n
        BY <3>3
      <4>2. g[k - 1] = f[n] /\ g[k] = last
        BY <2>3, <2>4, <3>3, <4>1
      <4> QED
        BY <4>1, <4>2, <3>3
    <3> QED
      BY <3>1, <3>2, <3>3
  <2>6. g = [k \in 0..n + 1 |-> g[k]]
    OBVIOUS
  <2> HIDE DEF g
  <2>7. F(n + 1, g)
    BY <2>5, <2>6
  <2> QED
    BY <2>7
<1>3. Len(p) \in T
  <2> HIDE DEF T
  <2>1. Nat \subseteq T
    BY <1>1, <1>2, Induction
  <2> QED
    BY <2>1, LenProperties
<1> QED
  BY <1>3 DEF ResolveEquation

(* ... and a path is resolved name by name. *)
LEMMA ResolveHasPlaces ==
  ASSUME NEW t, NEW p \in Seq(STRING)
  PROVE  \E w : Resolutions(t, p, w) /\ Resolve(t, p) = w[Len(p)]
<1> DEFINE f == CHOOSE f : ResolveEquation(t, p, f)
           w == [k \in 0..Len(p) |-> CHOOSE q \in f[k] : TRUE]
           T == {n \in Nat : n <= Len(p) => f[n] = {w[n]}}
<1>1. ResolveEquation(t, p, f)
  BY ResolveExists
<1>2. Resolve(t, p) = CHOOSE q \in f[Len(p)] : TRUE
  BY DEF Resolve, Along, ResolveEquation
<1> HIDE DEF f
<1>3. Len(p) \in Nat
  BY LenProperties
<1>4. \A k \in 0..Len(p) : f[k] = IF k = 0 THEN {<<>>} ELSE {ResolveStep(t, q, p[k]) : q \in f[k - 1]}
  BY <1>1 DEF ResolveEquation
<1>5. \A k \in 0..Len(p) : w[k] = CHOOSE q \in f[k] : TRUE
  OBVIOUS
<1> HIDE DEF w
<1>6. f[0] = {<<>>} /\ w[0] = <<>>
  <2>1. f[0] = {<<>>}
    <3>1. 0 \in 0..Len(p)
      BY <1>3
    <3>2. f[0] = IF 0 = 0 THEN {<<>>} ELSE {ResolveStep(t, q, p[0]) : q \in f[0 - 1]}
      BY <1>4, <3>1
    <3> QED
      BY <3>2
  <2>2. PICK root : root = <<>>
    OBVIOUS
  <2>3. PICK k : k = 0
    OBVIOUS
  <2>4. f[k] = {root} /\ k \in 0..Len(p)
    BY <1>3, <2>1, <2>2, <2>3
  <2>5. w[k] = CHOOSE q \in {root} : TRUE
    BY <1>5, <2>4
  <2>6. w[k] = root
    BY <2>5
  <2> QED
    BY <2>1, <2>2, <2>3, <2>6
<1>7. ASSUME NEW k \in 1..Len(p), f[k - 1] = {w[k - 1]}
      PROVE  f[k] = {ResolveStep(t, w[k - 1], p[k])} /\ w[k] = ResolveStep(t, w[k - 1], p[k])
  <2> DEFINE x == ResolveStep(t, w[k - 1], p[k])
  <2>1. f[k] = {ResolveStep(t, q, p[k]) : q \in f[k - 1]}
    <3>1. k \in 0..Len(p) /\ k # 0
      BY <1>3
    <3> QED
      BY <1>4, <3>1
  <2>2. f[k] = {x}
    BY <1>7, <2>1
  <2> HIDE DEF x
  <2>3. k \in 0..Len(p)
    BY <1>3
  <2>4. w[k] = CHOOSE q \in {x} : TRUE
    BY <1>5, <2>2, <2>3
  <2>5. w[k] = x
    BY <2>4
  <2> QED
    BY <2>2, <2>5 DEF x
<1>8. 0 \in T
  BY <1>6
<1>9. ASSUME NEW n \in Nat, n \in T PROVE n + 1 \in T
  <2> SUFFICES ASSUME n + 1 <= Len(p) PROVE f[n + 1] = {w[n + 1]}
    OBVIOUS
  <2>1. n + 1 \in 1..Len(p) /\ (n + 1) - 1 = n /\ f[n] = {w[n]}
    BY <1>3, <1>9
  <2> QED
    BY <1>7, <2>1
<1>10. Nat \subseteq T
  <2> HIDE DEF T
  <2> QED
    BY <1>8, <1>9, Induction
<1>11. \A k \in 0..Len(p) : f[k] = {w[k]}
  BY <1>3, <1>10
<1>12. Resolutions(t, p, w)
  <2>1. \A k \in 1..Len(p) : f[k - 1] = {w[k - 1]}
    BY <1>3, <1>11
  <2> QED
    BY <1>6, <1>7, <2>1 DEF Resolutions
<1>13. Resolve(t, p) = w[Len(p)]
  BY <1>2, <1>3, <1>5
<1> QED
  BY <1>12, <1>13

(* A path is resolved by resolving its parent, and one step more. *)
LEMMA ResolveIs ==
  ASSUME NEW t
  PROVE  /\ Resolve(t, <<>>) = <<>>
         /\ \A p \in Seq(STRING), name \in STRING :
              Resolve(t, Append(p, name)) = ResolveStep(t, Resolve(t, p), name)
<1>1. Resolve(t, <<>>) = <<>>
  <2>1. <<>> \in Seq(STRING) /\ Len(<<>>) = 0
    OBVIOUS
  <2>2. PICK w : Resolutions(t, <<>>, w) /\ Resolve(t, <<>>) = w[Len(<<>>)]
    BY <2>1, ResolveHasPlaces
  <2> QED
    BY <2>1, <2>2 DEF Resolutions
<1>2. ASSUME NEW p \in Seq(STRING), NEW name \in STRING
      PROVE  Resolve(t, Append(p, name)) = ResolveStep(t, Resolve(t, p), name)
  <2> DEFINE q == Append(p, name)
  <2>0. q \in Seq(STRING) /\ Longer(q, p, name)
    BY AppendLonger
  <2> HIDE DEF q
  <2>1. /\ q \in Seq(STRING) /\ Len(q) = Len(p) + 1 /\ Len(p) \in Nat
        /\ q[Len(p) + 1] = name /\ \A i \in 1..Len(p) : q[i] = p[i]
    BY <2>0 DEF Longer
  <2>2. PICK w : Resolutions(t, p, w) /\ Resolve(t, p) = w[Len(p)]
    BY ResolveHasPlaces
  <2>3. PICK v : Resolutions(t, q, v) /\ Resolve(t, q) = v[Len(q)]
    BY <2>1, ResolveHasPlaces
  <2> DEFINE T == {n \in Nat : n <= Len(p) => v[n] = w[n]}
  <2>4. 0 \in T
    BY <2>2, <2>3 DEF Resolutions
  <2>5. ASSUME NEW n \in Nat, n \in T PROVE n + 1 \in T
    <3> SUFFICES ASSUME n + 1 <= Len(p) PROVE v[n + 1] = w[n + 1]
      OBVIOUS
    <3>1. n + 1 \in 1..Len(p) /\ n + 1 \in 1..Len(q) /\ (n + 1) - 1 = n /\ v[n] = w[n]
      BY <2>1, <2>5
    <3>2. v[n + 1] = ResolveStep(t, v[n], q[n + 1]) /\ w[n + 1] = ResolveStep(t, w[n], p[n + 1])
      BY <2>2, <2>3, <3>1 DEF Resolutions
    <3> QED
      BY <2>1, <3>1, <3>2
  <2>6. Nat \subseteq T
    <3> HIDE DEF T
    <3> QED
      BY <2>4, <2>5, Induction
  <2>7. v[Len(p)] = w[Len(p)]
    BY <2>1, <2>6
  <2>8. Len(q) \in 1..Len(q) /\ Len(q) - 1 = Len(p)
    BY <2>1
  <2>9. v[Len(q)] = ResolveStep(t, v[Len(p)], q[Len(q)])
    BY <2>3, <2>8 DEF Resolutions
  <2>10. Resolve(t, q) = ResolveStep(t, Resolve(t, p), name)
    BY <2>1, <2>2, <2>3, <2>7, <2>9
  <2> QED
    BY <2>10 DEF q
<1> QED
  BY <1>1, <1>2

-----------------------------------------------------------------------------
(* Paths and trees *)

(* Induction on sequences: the empty one, and what is appended. *)
LEMMA SeqInduction ==
  ASSUME NEW S, NEW T, <<>> \in T,
         \A p \in Seq(S), x \in S : p \in T => Append(p, x) \in T
  PROVE  Seq(S) \subseteq T
<1> DEFINE N == {n \in Nat : \A p \in Seq(S) : Len(p) = n => p \in T}
<1>1. 0 \in N
  <2>1. \A p \in Seq(S) : Len(p) = 0 => p = <<>>
    BY EmptySeq
  <2> QED
    BY <2>1
<1>2. ASSUME NEW n \in Nat, n \in N PROVE n + 1 \in N
  <2> SUFFICES ASSUME NEW p \in Seq(S), Len(p) = n + 1 PROVE p \in T
    OBVIOUS
  <2>1. n + 1 \in 1..Len(p)
    BY <1>2
  <2>2. /\ Pre(p, n + 1) = Append(Pre(p, n + 1 - 1), p[n + 1]) /\ p[n + 1] \in S
        /\ n + 1 - 1 \in 0..Len(p)
    BY <2>1, PreStep
  <2>3. Pre(p, n + 1 - 1) \in Seq(S) /\ Len(Pre(p, n + 1 - 1)) = n
    BY <2>1, <2>2, PreIs
  <2>4. Pre(p, n + 1 - 1) \in T
    BY <1>2, <2>3
  <2>5. Pre(p, n + 1) = p
    BY PreEnds
  <2> QED
    BY <2>2, <2>3, <2>4, <2>5
<1>3. Nat \subseteq N
  <2> HIDE DEF N
  <2> QED
    BY <1>1, <1>2, Induction
<1>4. ASSUME NEW p \in Seq(S) PROVE p \in T
  <2>1. Len(p) \in N
    BY <1>3, LenProperties
  <2> QED
    BY <2>1
<1> QED
  BY <1>4

(* Induction on paths: the root, and what is appended. *)
LEMMA PathInduction ==
  ASSUME NEW T, <<>> \in T,
         \A p \in Path, name \in STRING : p \in T => Append(p, name) \in T
  PROVE  Path \subseteq T
BY SeqInduction DEF Path

(* A path is the root or another path and a name. *)
LEMMA RootOrChild ==
  ASSUME NEW p \in Path, p # <<>>
  PROVE  \E q \in Path, name \in STRING : p = Append(q, name)
BY SequenceEmptyOrAppend DEF Path

(* Plain paths have plain parents and plain names. *)
LEMMA PlainIs ==
  /\ Plain(<<>>)
  /\ \A p \in Path, name \in STRING :
       Plain(Append(p, name)) <=> Plain(p) /\ name \notin {".", ".."}
<1>1. Plain(<<>>)
  <2>1. <<>> \in Path /\ Len(<<>>) = 0
    BY DEF Path
  <2> QED
    BY <2>1 DEF Plain, Contains
<1>2. ASSUME NEW p \in Path, NEW name \in STRING, NEW dot
      PROVE  Contains(Append(p, name), dot) <=> Contains(p, dot) \/ name = dot
  <2> DEFINE q == Append(p, name)
  <2>1. /\ q \in Path /\ Len(q) = Len(p) + 1 /\ Len(p) \in Nat
        /\ q[Len(p) + 1] = name /\ \A i \in 1..Len(p) : q[i] = p[i]
    BY PathAppend DEF Longer
  <2> HIDE DEF q
  <2>2. \A i \in 1..Len(q) : i \in 1..Len(p) \/ i = Len(p) + 1
    BY <2>1
  <2>3. 1..Len(p) \subseteq 1..Len(q) /\ Len(p) + 1 \in 1..Len(q)
    BY <2>1
  <2>4. Contains(q, dot) <=> Contains(p, dot) \/ name = dot
    BY <2>1, <2>2, <2>3 DEF Contains
  <2> QED
    BY <2>4 DEF q
<1>3. ASSUME NEW p \in Path, NEW name \in STRING
      PROVE  Plain(Append(p, name)) <=> Plain(p) /\ name \notin {".", ".."}
  <2>1. p \in Path /\ Append(p, name) \in Path
    BY AppendIs DEF Path
  <2> QED
    BY <1>2, <2>1 DEF Plain
<1> QED
  BY <1>1, <1>3

(* The tree is a tree: what is above an entry is a folder. *)
LEMMA EntryIs ==
  ASSUME NEW t, WellFormed(t), NEW p \in DOMAIN t
  PROVE  /\ p \in Path /\ Plain(p)
         /\ p # <<>> => \E q \in Path, name \in STRING \ {".", ".."} :
                          p = Append(q, name) /\ Is("dir", t, q) /\ Plain(q)
         /\ Is("dir", t, p) \/ Is("file", t, p) \/ Is("link", t, p)
<1>1. Plain(p) /\ p \in Path
  BY DEF WellFormed, Plain, Path
<1>2. ASSUME p # <<>>
      PROVE  \E q \in Path, name \in STRING \ {".", ".."} :
               p = Append(q, name) /\ Is("dir", t, q) /\ Plain(q)
  <2>1. PICK q \in Path, name \in STRING : p = Append(q, name)
    BY <1>1, <1>2, RootOrChild
  <2>2. Plain(q) /\ name \notin {".", ".."}
    BY <1>1, <2>1, PlainIs
  <2>3. Parent(p) = q
    BY <2>1, AppendIs DEF Path
  <2> QED
    BY <1>2, <2>1, <2>2, <2>3 DEF WellFormed
<1>3. Is("dir", t, p) \/ Is("file", t, p) \/ Is("link", t, p)
  BY DEF WellFormed, Is
<1> QED
  BY <1>1, <1>2, <1>3

(* A walk ends at a folder, at a file or nowhere, ... *)
LEMMA WalkComesTo ==
  ASSUME NEW t, WellFormed(t), NEW p \in Path
  PROVE  Walk(t, p) = NOWHERE \/ Is("dir", t, Walk(t, p)) \/ Is("file", t, Walk(t, p))
<1> DEFINE Good(q) == q = NOWHERE \/ Is("dir", t, q) \/ Is("file", t, q)
           T == {q \in Path : Good(Walk(t, q))}
<1>1. <<>> \in T
  <2>1. Is("dir", t, <<>>) /\ <<>> \in Path
    BY DEF WellFormed, Path
  <2> QED
    BY <2>1, WalkIs
<1>2. ASSUME NEW q \in Path, NEW name \in STRING, q \in T
      PROVE  Append(q, name) \in T
  <2>1. Append(q, name) \in Path
    BY AppendIs DEF Path
  <2>2. PICK at : at = Walk(t, q)
    OBVIOUS
  <2>3. Walk(t, Append(q, name)) = WalkStep(t, at, name)
    BY <2>2, WalkIs DEF Path
  <2>4. Good(WalkStep(t, at, name))
    <3>1. CASE ~Is("dir", t, at)
      BY <3>1 DEF WalkStep
    <3>2. CASE Is("dir", t, at) /\ name = "."
      BY <3>2 DEF WalkStep
    <3>3. CASE Is("dir", t, at) /\ name = ".."
      <4>1. WalkStep(t, at, name) = Parent(at)
        BY <3>3 DEF WalkStep
      <4>2. Is("dir", t, Parent(at))
        <5>1. CASE at = <<>>
          BY <3>3, <5>1 DEF Parent
        <5>2. CASE at # <<>>
          <6>1. at \in DOMAIN t
            BY <3>3 DEF Is
          <6> QED
            BY <5>2, <6>1 DEF WellFormed
        <5> QED
          BY <5>1, <5>2
      <4> QED
        BY <4>1, <4>2
    <3>4. CASE Is("dir", t, at) /\ name \notin {".", ".."}
      <4>1. WalkStep(t, at, name) = Follow(t, Append(at, name))
        BY <3>4 DEF WalkStep
      <4>2. \A r : Good(Follow(t, r))
        BY DEF Follow
      <4> QED
        BY <4>1, <4>2
    <3> QED
      BY <3>1, <3>2, <3>3, <3>4
  <2> QED
    BY <2>1, <2>3, <2>4
<1>3. Path \subseteq T
  <2> HIDE DEF T
  <2> QED
    BY <1>1, <1>2, PathInduction
<1> QED
  BY <1>3

(* ... and a walk that has come nowhere stays there. *)
LEMMA NowhereStays ==
  ASSUME NEW t, WellFormed(t), NEW name
  PROVE  WalkStep(t, NOWHERE, name) = NOWHERE
<1>1. ~Is("dir", t, NOWHERE)
  BY FileTreeAssumption, EntryIs DEF Is, Path
<1> QED
  BY <1>1 DEF WalkStep

(* The path of a folder or a file leads to it. *)
LEMMA WalkOfEntry ==
  ASSUME NEW t, WellFormed(t), NEW p, Is("dir", t, p) \/ Is("file", t, p)
  PROVE  Walk(t, p) = p
<1> DEFINE T == {q \in Path : Is("dir", t, q) \/ Is("file", t, q) => Walk(t, q) = q}
<1>1. <<>> \in T
  <2>1. <<>> \in Path
    BY DEF Path
  <2> QED
    BY <2>1, WalkIs
<1>2. ASSUME NEW q \in Path, NEW name \in STRING, q \in T
      PROVE  Append(q, name) \in T
  <2> DEFINE r == Append(q, name)
  <2>1. r \in Path /\ r # <<>> /\ Parent(r) = q
    BY AppendIs DEF Path
  <2>2. ASSUME Is("dir", t, r) \/ Is("file", t, r)
        PROVE  Walk(t, r) = r
    <3>1. r \in DOMAIN t
      BY <2>2 DEF Is
    <3>2. Is("dir", t, q) /\ Plain(r)
      BY <2>1, <3>1 DEF WellFormed
    <3>3. name \notin {".", ".."}
      BY <3>2, PlainIs
    <3>4. Walk(t, q) = q
      BY <1>2, <3>2
    <3>5. Walk(t, r) = WalkStep(t, q, name)
      BY <3>4, WalkIs DEF Path
    <3>6. WalkStep(t, q, name) = Follow(t, r)
      BY <3>2, <3>3 DEF WalkStep
    <3>7. ~Is("link", t, r)
      BY <2>2 DEF Is
    <3>8. Follow(t, r) = r
      BY <2>2, <3>7 DEF Follow
    <3> QED
      BY <3>5, <3>6, <3>8
  <2> QED
    BY <2>1, <2>2
<1>3. Path \subseteq T
  <2> HIDE DEF T
  <2> QED
    BY <1>1, <1>2, PathInduction
<1>4. p \in Path
  BY EntryIs DEF Is
<1> QED
  BY <1>3, <1>4

(* Above an entry there are only folders. *)
LEMMA Ancestors ==
  ASSUME NEW t, WellFormed(t), NEW p \in DOMAIN t, NEW k \in 0..Len(p), k # Len(p)
  PROVE  Is("dir", t, Pre(p, k))
<1> DEFINE T == {q \in Path : q \in DOMAIN t => \A i \in 0..Len(q) : i # Len(q) => Is("dir", t, Pre(q, i))}
<1>1. <<>> \in T
  <2>1. <<>> \in Path /\ Len(<<>>) = 0
    BY DEF Path
  <2> QED
    BY <2>1
<1>2. ASSUME NEW q \in Path, NEW name \in STRING, q \in T
      PROVE  Append(q, name) \in T
  <2> DEFINE r == Append(q, name)
  <2>1. /\ r \in Path /\ r # <<>> /\ Parent(r) = q /\ Len(r) = Len(q) + 1 /\ Len(q) \in Nat
        /\ \A i \in 0..Len(q) : Pre(r, i) = Pre(q, i)
    BY PathAppend DEF Longer
  <2> HIDE DEF r
  <2>2. ASSUME r \in DOMAIN t, NEW i \in 0..Len(r), i # Len(r)
        PROVE  Is("dir", t, Pre(r, i))
    <3>1. Is("dir", t, q)
      BY <2>1, <2>2 DEF WellFormed
    <3>2. i \in 0..Len(q) /\ Pre(r, i) = Pre(q, i)
      BY <2>1, <2>2
    <3>3. CASE i = Len(q)
      <4>1. Pre(q, i) = q
        BY <3>3, PreEnds DEF Path
      <4> QED
        BY <3>1, <3>2, <4>1
    <3>4. CASE i # Len(q)
      <4>1. q \in DOMAIN t
        BY <3>1 DEF Is
      <4> QED
        BY <1>2, <3>2, <3>4, <4>1
    <3> QED
      BY <3>3, <3>4
  <2>3. r \in T
    BY <2>1, <2>2
  <2> QED
    BY <2>3 DEF r
<1>3. Path \subseteq T
  <2> HIDE DEF T
  <2> QED
    BY <1>1, <1>2, PathInduction
<1>4. p \in Path
  BY EntryIs
<1> QED
  BY <1>3, <1>4

(* No path is NOWHERE. *)
LEMMA SomewhereIs ==
  ASSUME NEW p \in Path
  PROVE  p # NOWHERE
BY FileTreeAssumption DEF Path

(* What a walk comes to is its own path. *)
LEMMA WalkIsEntry ==
  ASSUME NEW t, WellFormed(t), NEW p \in Path, Walk(t, p) # NOWHERE
  PROVE  /\ Walk(t, p) \in DOMAIN t /\ Walk(t, p) \in Path /\ Plain(Walk(t, p))
         /\ Is("dir", t, Walk(t, p)) \/ Is("file", t, Walk(t, p))
         /\ Walk(t, Walk(t, p)) = Walk(t, p)
<1>1. Is("dir", t, Walk(t, p)) \/ Is("file", t, Walk(t, p))
  BY WalkComesTo
<1>2. Walk(t, p) \in DOMAIN t
  BY <1>1 DEF Is
<1> QED
  BY <1>1, <1>2, EntryIs, WalkOfEntry

-----------------------------------------------------------------------------
(* Resolving a path, with the kernel's walk *)

(* A path that is resolved: each prefix of it leads to itself or nowhere. *)
Fixed(t, p) ==
  /\ p \in Path /\ Plain(p)
  /\ \A k \in 0..Len(p) : Walk(t, Pre(p, k)) \in {NOWHERE, Pre(p, k)}

(* The paths of folders and of files are resolved. *)
LEMMA EntryIsFixed ==
  ASSUME NEW t, WellFormed(t), NEW p, Is("dir", t, p) \/ Is("file", t, p)
  PROVE  Fixed(t, p)
<1>1. p \in DOMAIN t /\ p \in Path /\ Plain(p)
  BY EntryIs DEF Is
<1>2. ASSUME NEW k \in 0..Len(p) PROVE Walk(t, Pre(p, k)) = Pre(p, k)
  <2>1. CASE k = Len(p)
    <3>1. Pre(p, k) = p
      BY <1>1, <2>1, PreEnds DEF Path
    <3> QED
      BY <3>1, WalkOfEntry
  <2>2. CASE k # Len(p)
    BY <1>1, <2>2, Ancestors, WalkOfEntry
  <2> QED
    BY <2>1, <2>2
<1> QED
  BY <1>1, <1>2 DEF Fixed

(* With a path, the one above it is resolved. *)
LEMMA FixedAbove ==
  ASSUME NEW t, NEW p \in Path, NEW name \in STRING
  PROVE  Fixed(t, Append(p, name)) <=>
           /\ Fixed(t, p) /\ name \notin {".", ".."}
           /\ Walk(t, Append(p, name)) \in {NOWHERE, Append(p, name)}
<1> DEFINE r == Append(p, name)
<1>1. /\ r \in Path /\ Len(r) = Len(p) + 1 /\ Len(p) \in Nat
      /\ \A i \in 0..Len(p) : Pre(r, i) = Pre(p, i)
  BY AppendIs DEF Path
<1>2. Plain(r) <=> Plain(p) /\ name \notin {".", ".."}
  BY PlainIs
<1> HIDE DEF r
<1>3. Pre(r, Len(r)) = r
  BY <1>1, PreEnds DEF Path
<1>4. \A i : i \in 0..Len(r) <=> i \in 0..Len(p) \/ i = Len(r)
  BY <1>1
<1>5. (\A k \in 0..Len(r) : Walk(t, Pre(r, k)) \in {NOWHERE, Pre(r, k)}) <=>
        /\ \A k \in 0..Len(p) : Walk(t, Pre(p, k)) \in {NOWHERE, Pre(p, k)}
        /\ Walk(t, r) \in {NOWHERE, r}
  BY <1>1, <1>3, <1>4
<1>6. Fixed(t, r) <=> /\ Fixed(t, p) /\ name \notin {".", ".."}
                      /\ Walk(t, r) \in {NOWHERE, r}
  BY <1>1, <1>2, <1>5 DEF Fixed
<1> QED
  BY <1>6 DEF r

(* Whatever a path is resolved to is resolved. *)
LEMMA ResolveIsFixed ==
  ASSUME NEW t, WellFormed(t), NEW p \in Path
  PROVE  Fixed(t, Resolve(t, p))
<1> DEFINE T == {q \in Path : Fixed(t, Resolve(t, q))}
<1>1. <<>> \in T
  <2>1. Is("dir", t, <<>>) /\ <<>> \in Path
    BY DEF WellFormed, Path
  <2>2. Fixed(t, <<>>)
    BY <2>1, EntryIsFixed
  <2> QED
    BY <2>1, <2>2, ResolveIs
<1>2. ASSUME NEW q \in Path, NEW name \in STRING, q \in T
      PROVE  Append(q, name) \in T
  <2>1. PICK at : at = Resolve(t, q)
    OBVIOUS
  <2>2. Fixed(t, at) /\ at \in Path
    BY <1>2, <2>1 DEF Fixed
  <2>3. Resolve(t, Append(q, name)) = ResolveStep(t, at, name) /\ Append(q, name) \in Path
    BY <2>1, ResolveIs, AppendIs DEF Path
  <2>4. Fixed(t, ResolveStep(t, at, name))
    <3>1. CASE name = "."
      BY <2>2, <3>1 DEF ResolveStep
    <3>2. CASE name = ".."
      <4>1. ResolveStep(t, at, name) = Parent(at)
        BY <3>2 DEF ResolveStep
      <4>2. Fixed(t, Parent(at))
        <5>1. CASE at = <<>>
          BY <2>2, <5>1 DEF Parent
        <5>2. CASE at # <<>>
          <6>1. PICK r \in Path, last \in STRING : at = Append(r, last)
            BY <2>2, <5>2, RootOrChild
          <6>2. Parent(at) = r
            BY <6>1, AppendIs DEF Path
          <6> QED
            BY <2>2, <6>1, <6>2, FixedAbove
        <5> QED
          BY <5>1, <5>2
      <4> QED
        BY <4>1, <4>2
    <3>3. CASE name \notin {".", ".."}
      <4>1. PICK canonical : canonical = Walk(t, Append(at, name))
        OBVIOUS
      <4>2. ResolveStep(t, at, name) = IF canonical = NOWHERE THEN Append(at, name) ELSE canonical
        BY <3>3, <4>1 DEF ResolveStep
      <4>3. CASE canonical = NOWHERE
        <5>1. Fixed(t, Append(at, name))
          BY <2>2, <3>3, <4>1, <4>3, FixedAbove
        <5> QED
          BY <4>2, <4>3, <5>1
      <4>4. CASE canonical # NOWHERE
        <5>1. Append(at, name) \in Path
          BY <2>2, AppendIs DEF Path
        <5>2. Is("dir", t, canonical) \/ Is("file", t, canonical)
          BY <4>1, <4>4, <5>1, WalkComesTo
        <5> QED
          BY <4>2, <4>4, <5>2, EntryIsFixed
      <4> QED
        BY <4>3, <4>4
    <3> QED
      BY <3>1, <3>2, <3>3
  <2> QED
    BY <2>3, <2>4
<1>3. Path \subseteq T
  <2> HIDE DEF T
  <2> QED
    BY <1>1, <1>2, PathInduction
<1> QED
  BY <1>3

(* What is resolved is resolved to itself. *)
LEMMA FixedResolves ==
  ASSUME NEW t, WellFormed(t), NEW p, Fixed(t, p)
  PROVE  Resolve(t, p) = p
<1> DEFINE T == {q \in Path : Fixed(t, q) => Resolve(t, q) = q}
<1>1. <<>> \in T
  <2>1. <<>> \in Path
    BY DEF Path
  <2> QED
    BY <2>1, ResolveIs
<1>2. ASSUME NEW q \in Path, NEW name \in STRING, q \in T
      PROVE  Append(q, name) \in T
  <2>1. Append(q, name) \in Path
    BY AppendIs DEF Path
  <2>2. ASSUME Fixed(t, Append(q, name)) PROVE Resolve(t, Append(q, name)) = Append(q, name)
    <3>1. /\ Fixed(t, q) /\ name \notin {".", ".."}
          /\ Walk(t, Append(q, name)) \in {NOWHERE, Append(q, name)}
      BY <2>2, FixedAbove
    <3>2. Resolve(t, q) = q
      BY <1>2, <3>1
    <3>3. Resolve(t, Append(q, name)) = ResolveStep(t, q, name)
      BY <3>2, ResolveIs DEF Path
    <3>4. PICK canonical : canonical = Walk(t, Append(q, name))
      OBVIOUS
    <3>5. ResolveStep(t, q, name) = IF canonical = NOWHERE THEN Append(q, name) ELSE canonical
      <4>1. name # "." /\ name # ".."
        BY <3>1
      <4> QED
        BY <4>1, <3>4 DEF ResolveStep
    <3>6. canonical = NOWHERE \/ canonical = Append(q, name)
      BY <3>1, <3>4
    <3> QED
      BY <3>3, <3>5, <3>6
  <2> QED
    BY <2>1, <2>2
<1>3. Path \subseteq T
  <2> HIDE DEF T
  <2> QED
    BY <1>1, <1>2, PathInduction
<1>4. p \in Path
  BY DEF Fixed
<1> QED
  BY <1>3, <1>4

(* Where the kernel comes to is what the path is resolved to. *)
LEMMA WalkResolves ==
  ASSUME NEW t, WellFormed(t), NEW p \in Path, Walk(t, p) # NOWHERE
  PROVE  Resolve(t, p) = Walk(t, p)
<1> DEFINE T == {q \in Path : Walk(t, q) # NOWHERE => Resolve(t, q) = Walk(t, q)}
<1>1. <<>> \in T
  <2>1. <<>> \in Path
    BY DEF Path
  <2> QED
    BY <2>1, WalkIs, ResolveIs
<1>2. ASSUME NEW q \in Path, NEW name \in STRING, q \in T
      PROVE  Append(q, name) \in T
  <2>1. Append(q, name) \in Path
    BY AppendIs DEF Path
  <2>2. ASSUME Walk(t, Append(q, name)) # NOWHERE
        PROVE  Resolve(t, Append(q, name)) = Walk(t, Append(q, name))
    <3>1. PICK at : at = Walk(t, q)
      OBVIOUS
    <3>2. Walk(t, Append(q, name)) = WalkStep(t, at, name)
      BY <3>1, WalkIs DEF Path
    <3>3. Is("dir", t, at)
      BY <2>2, <3>2 DEF WalkStep
    <3>4. at # NOWHERE
      BY <2>2, <3>2, NowhereStays
    <3>5. Resolve(t, q) = at
      BY <1>2, <3>1, <3>4
    <3>6. Resolve(t, Append(q, name)) = ResolveStep(t, at, name)
      BY <3>5, ResolveIs DEF Path
    <3>7. at \in Path /\ Walk(t, at) = at
      BY <3>3, EntryIs, WalkOfEntry DEF Is
    <3>8. Walk(t, Append(at, name)) = WalkStep(t, at, name)
      <4>1. at \in Seq(STRING)
        BY <3>7 DEF Path
      <4>2. Walk(t, Append(at, name)) = WalkStep(t, Walk(t, at), name)
        BY <4>1, WalkIs
      <4> QED
        BY <3>7, <4>2
    <3>9. CASE name = "."
      BY <3>2, <3>3, <3>6, <3>9 DEF ResolveStep, WalkStep
    <3>10. CASE name = ".."
      BY <3>2, <3>3, <3>6, <3>10 DEF ResolveStep, WalkStep
    <3>11. CASE name \notin {".", ".."}
      <4>1. ResolveStep(t, at, name) = WalkStep(t, at, name)
        BY <2>2, <3>2, <3>8, <3>11 DEF ResolveStep
      <4> QED
        BY <3>2, <3>6, <4>1
    <3> QED
      BY <3>9, <3>10, <3>11
  <2> QED
    BY <2>1, <2>2
<1>3. Path \subseteq T
  <2> HIDE DEF T
  <2> QED
    BY <1>1, <1>2, PathInduction
<1> QED
  BY <1>3

(* resolve_symlinks *)
LEMMA ResolveLemma ==
  ASSUME NEW t, WellFormed(t), NEW p \in Path
  PROVE  /\ Walk(t, p) # NOWHERE => Resolve(t, p) = Walk(t, p)
         /\ Resolve(t, Resolve(t, p)) = Resolve(t, p)
         /\ Resolve(t, p) \in Path /\ Plain(Resolve(t, p))
BY WalkResolves, ResolveIsFixed, FixedResolves DEF Fixed

-----------------------------------------------------------------------------
(* What is below a path, and where it is moved to *)

(* What is left of a sequence. *)
LEMMA FromIs ==
  ASSUME NEW S, NEW p \in Seq(S), NEW b \in Seq(S), Len(b) \in 0..Len(p)
  PROVE  /\ From(p, b) \in Seq(S) /\ Len(From(p, b)) = Len(p) - Len(b)
         /\ \A i \in 1..Len(p) - Len(b) : From(p, b)[i] = p[Len(b) + i]
<1>1. PICK m : m = Len(b) + 1
  OBVIOUS
<1>2. PICK n : n = Len(p)
  OBVIOUS
<1>3. m \in Nat /\ n \in Nat /\ Len(b) \in Nat /\ m >= 1 /\ m <= n + 1
  BY <1>1, <1>2, LenProperties
<1>4. \A i \in m..n : p[i] \in S
  <2>1. \A i \in m..n : i \in 1..Len(p)
    BY <1>2, <1>3
  <2> QED
    BY <2>1, ElementOfSeq
<1>5. /\ SubSeq(p, m, n) \in Seq(S)
      /\ Len(SubSeq(p, m, n)) = IF m <= n THEN n - m + 1 ELSE 0
      /\ \A i \in 1..n - m + 1 : SubSeq(p, m, n)[i] = p[m + i - 1]
  BY <1>3, <1>4, SubSeqProperties
<1>6. From(p, b) = SubSeq(p, m, n)
  BY <1>1, <1>2 DEF From
<1>7. Len(From(p, b)) = Len(p) - Len(b)
  BY <1>1, <1>2, <1>3, <1>5, <1>6
<1>8. ASSUME NEW i \in 1..Len(p) - Len(b) PROVE From(p, b)[i] = p[Len(b) + i]
  <2>1. i \in 1..n - m + 1 /\ m + i - 1 = Len(b) + i
    BY <1>1, <1>2, <1>3
  <2> QED
    BY <1>5, <1>6, <2>1
<1> QED
  BY <1>5, <1>6, <1>7, <1>8

(* The root is above every path, and a path is above itself. *)
LEMMA PrefixEnds ==
  ASSUME NEW p \in Path
  PROVE  /\ IsPrefix(<<>>, p) /\ IsPrefix(p, p)
         /\ IsPrefix(p, <<>>) => p = <<>>
<1>1. Len(<<>>) = 0 /\ p \in Seq(STRING) /\ Len(p) \in Nat
  BY LenProperties DEF Path
<1>2. IsPrefix(p, p)
  BY <1>1 DEF IsPrefix
<1>3. IsPrefix(<<>>, p)
  <2>1. SubSeq(p, 1, 0) = <<>> /\ SubSeq(<<>>, 1, 0) = <<>>
    BY SubSeqEmpty
  <2> QED
    BY <1>1, <2>1 DEF IsPrefix
<1>4. IsPrefix(p, <<>>) => p = <<>>
  <2>1. IsPrefix(p, <<>>) => Len(p) = 0
    BY <1>1 DEF IsPrefix
  <2> QED
    BY <1>1, <2>1, EmptySeq
<1> QED
  BY <1>2, <1>3, <1>4

(* Above what is appended is what is above the rest, and itself. *)
LEMMA PrefixOfAppend ==
  ASSUME NEW b \in Path, NEW p \in Path, NEW name \in STRING
  PROVE  IsPrefix(b, Append(p, name)) <=> IsPrefix(b, p) \/ b = Append(p, name)
<1>1. PICK r : r = Append(p, name)
  OBVIOUS
<1>2. /\ r \in Seq(STRING) /\ Len(r) = Len(p) + 1 /\ Len(p) \in Nat
      /\ b \in Seq(STRING) /\ p \in Seq(STRING) /\ Len(b) \in Nat
      /\ \A k \in 0..Len(p) : Pre(r, k) = Pre(p, k)
  <2>1. r \in Path /\ Longer(r, p, name)
    BY <1>1, PathAppend
  <2>2. b \in Seq(STRING) /\ p \in Seq(STRING) /\ r \in Seq(STRING)
    BY <2>1 DEF Path
  <2>3. Len(b) \in Nat
    BY <2>2, LenProperties
  <2> QED
    BY <2>1, <2>2, <2>3 DEF Longer
<1>3. IsPrefix(b, r) <=> Len(b) \in 0..Len(r) /\ b = Pre(r, Len(b))
  BY <1>2, PrefixIs
<1>4. IsPrefix(b, p) <=> Len(b) \in 0..Len(p) /\ b = Pre(p, Len(b))
  BY <1>2, PrefixIs
<1>5. Pre(r, Len(r)) = r
  BY <1>2, PreEnds
<1>6. CASE Len(b) \in 0..Len(p)
  <2>1. Len(b) # Len(r) /\ Len(b) \in 0..Len(r)
    BY <1>2, <1>6
  <2>2. b # r
    BY <2>1
  <2> QED
    BY <1>1, <1>2, <1>3, <1>4, <1>6, <2>1, <2>2
<1>7. CASE Len(b) = Len(r)
  <2>1. Len(b) \notin 0..Len(p) /\ Len(b) \in 0..Len(r)
    BY <1>2, <1>7
  <2> QED
    BY <1>1, <1>3, <1>4, <1>5, <1>7, <2>1
<1>8. CASE Len(b) \notin 0..Len(r)
  <2>1. b # r /\ Len(b) \notin 0..Len(p)
    BY <1>2, <1>8
  <2> QED
    BY <1>1, <1>3, <1>4, <1>8, <2>1
<1>9. Len(b) \in 0..Len(p) \/ Len(b) = Len(r) \/ Len(b) \notin 0..Len(r)
  BY <1>2
<1> QED
  BY <1>6, <1>7, <1>8, <1>9

(* What is above what is above is above. *)
LEMMA PrefixOfPrefix ==
  ASSUME NEW a \in Path, NEW b \in Path, NEW p \in Path, IsPrefix(a, b), IsPrefix(b, p)
  PROVE  IsPrefix(a, p) /\ Len(a) <= Len(b) /\ (Len(a) = Len(b) => a = b)
<1>1. /\ a \in Seq(STRING) /\ b \in Seq(STRING) /\ p \in Seq(STRING)
      /\ Len(a) \in Nat /\ Len(b) \in Nat /\ Len(p) \in Nat
  BY LenProperties DEF Path
<1>2. Len(a) \in 0..Len(b) /\ a = Pre(b, Len(a)) /\ Len(b) \in 0..Len(p) /\ b = Pre(p, Len(b))
  BY <1>1, PrefixIs
<1>3. Pre(Pre(p, Len(b)), Len(a)) = Pre(p, Len(a))
  BY <1>1, <1>2, PreOfPre
<1>4. Len(a) \in 0..Len(p) /\ a = Pre(p, Len(a))
  BY <1>1, <1>2, <1>3
<1>5. IsPrefix(a, p)
  BY <1>1, <1>4, PrefixIs
<1>6. Len(a) = Len(b) => a = b
  BY <1>1, PrefixIs
<1> QED
  BY <1>1, <1>2, <1>5, <1>6

(* Two sequences behind the same one. *)
LEMMA ConcatIs ==
  ASSUME NEW S, NEW b \in Seq(S), NEW p \in Seq(S)
  PROVE  /\ b \o p \in Seq(S) /\ Len(b \o p) = Len(b) + Len(p)
         /\ Len(b) \in Nat /\ Len(p) \in Nat
         /\ \A i \in 1..Len(b) : (b \o p)[i] = b[i]
         /\ \A i \in 1..Len(p) : (b \o p)[Len(b) + i] = p[i]
<1>1. PICK q : q = b \o p
  OBVIOUS
<1>2. /\ q \in Seq(S) /\ Len(q) = Len(b) + Len(p) /\ Len(b) \in Nat /\ Len(p) \in Nat
      /\ \A i \in 1..Len(b) + Len(p) : q[i] = IF i <= Len(b) THEN b[i] ELSE p[i - Len(b)]
  BY <1>1, ConcatProperties, LenProperties
<1>3. ASSUME NEW i \in 1..Len(b) PROVE q[i] = b[i]
  <2>1. i \in 1..Len(b) + Len(p) /\ i <= Len(b)
    BY <1>2
  <2> QED
    BY <1>2, <2>1
<1>4. ASSUME NEW i \in 1..Len(p) PROVE q[Len(b) + i] = p[i]
  <2>1. PICK j : j = Len(b) + i
    OBVIOUS
  <2>2. j \in 1..Len(b) + Len(p) /\ ~(j <= Len(b)) /\ j - Len(b) = i
    BY <1>2, <2>1
  <2>3. q[j] = p[i]
    BY <1>2, <2>2
  <2> QED
    BY <2>1, <2>3
<1> QED
  BY <1>1, <1>2, <1>3, <1>4

(* What is moved: an entry and what is below it. *)
LEMMA MovedIs ==
  ASSUME NEW source \in Path, NEW target \in Path, NEW p \in Path
  PROVE  /\ Moved(source, target, p) \in Path
         /\ ~IsPrefix(source, p) => Moved(source, target, p) = p
         /\ IsPrefix(source, p) =>
              /\ Moved(source, target, p) = target \o From(p, source)
              /\ From(p, source) \in Path /\ Len(From(p, source)) = Len(p) - Len(source)
              /\ Len(source) \in 0..Len(p)
              /\ \A i \in 1..Len(p) - Len(source) : From(p, source)[i] = p[Len(source) + i]
<1>1. /\ source \in Seq(STRING) /\ target \in Seq(STRING) /\ p \in Seq(STRING)
  BY DEF Path
<1>2. CASE ~IsPrefix(source, p)
  BY <1>2 DEF Moved
<1>3. CASE IsPrefix(source, p)
  <2>1. Len(source) \in 0..Len(p)
    BY <1>1, <1>3, PrefixIs
  <2>2. /\ From(p, source) \in Seq(STRING) /\ Len(From(p, source)) = Len(p) - Len(source)
        /\ \A i \in 1..Len(p) - Len(source) : From(p, source)[i] = p[Len(source) + i]
    BY <1>1, <2>1, FromIs
  <2>3. Moved(source, target, p) = target \o From(p, source)
    BY <1>3 DEF Moved
  <2>4. target \o From(p, source) \in Seq(STRING)
    BY <1>1, <2>2, ConcatIs
  <2> QED
    BY <1>3, <2>1, <2>2, <2>3, <2>4 DEF Path
<1> QED
  BY <1>2, <1>3

(* What follows a part of a path. *)
Suffix(a, p, base) ==
  /\ a \in Path /\ Len(a) = Len(p) - Len(base) /\ Len(base) \in 0..Len(p)
  /\ \A i \in 1..Len(p) - Len(base) : a[i] = p[Len(base) + i]

(* It goes behind the target. *)
LEMMA MovedTo ==
  ASSUME NEW source \in Path, NEW target \in Path, NEW p \in Path, IsPrefix(source, p)
  PROVE  \E a : a = From(p, source) /\ Moved(source, target, p) = target \o a /\ Suffix(a, p, source)
<1>1. /\ Moved(source, target, p) = target \o From(p, source)
      /\ From(p, source) \in Path /\ Len(From(p, source)) = Len(p) - Len(source)
      /\ Len(source) \in 0..Len(p)
      /\ \A i \in 1..Len(p) - Len(source) : From(p, source)[i] = p[Len(source) + i]
  BY MovedIs, Zenon
<1>2. PICK a : a = From(p, source)
  OBVIOUS
<1>3. Suffix(a, p, source)
  BY <1>1, <1>2 DEF Suffix
<1> QED
  BY <1>1, <1>2, <1>3

(* What is above a path begins it. *)
LEMMA PrefixNames ==
  ASSUME NEW b \in Path, NEW p \in Path, IsPrefix(b, p)
  PROVE  Len(b) \in 0..Len(p) /\ \A i \in 1..Len(b) : p[i] = b[i]
<1>1. b \in Seq(STRING) /\ p \in Seq(STRING)
  BY DEF Path
<1>2. Len(b) \in 0..Len(p) /\ b = Pre(p, Len(b))
  BY <1>1, PrefixIs
<1>3. \A i \in 1..Len(b) : Pre(p, Len(b))[i] = p[i]
  BY <1>1, <1>2, PreIs
<1> QED
  BY <1>2, <1>3

(* The entry itself becomes the target. *)
LEMMA MovedItself ==
  ASSUME NEW source \in Path, NEW target \in Path
  PROVE  Moved(source, target, source) = target
<1>1. IsPrefix(source, source) /\ source \in Seq(STRING) /\ target \in Seq(STRING)
  BY PrefixEnds DEF Path
<1>2. /\ Moved(source, target, source) = target \o From(source, source)
      /\ From(source, source) \in Seq(STRING) /\ Len(From(source, source)) = Len(source) - Len(source)
  BY <1>1, MovedIs DEF Path
<1>3. Len(source) \in Nat
  BY <1>1, LenProperties
<1>4. From(source, source) = <<>>
  BY <1>2, <1>3, EmptySeq
<1>5. target \o <<>> = target
  BY <1>1, ConcatEmptySeq
<1> QED
  BY <1>2, <1>4, <1>5

(* What is in a folder that is moved is in the folder afterwards. *)
LEMMA MovedBelow ==
  ASSUME NEW source \in Path, NEW target \in Path, NEW p \in Path, NEW name \in STRING,
         IsPrefix(source, p)
  PROVE  Moved(source, target, Append(p, name)) = Append(Moved(source, target, p), name)
<1>1. PICK r : r = Append(p, name)
  OBVIOUS
<1>2. /\ r \in Path /\ Len(r) = Len(p) + 1 /\ Len(p) \in Nat
      /\ r[Len(p) + 1] = name /\ \A i \in 1..Len(p) : r[i] = p[i]
  BY <1>1, AppendIs DEF Path
<1>3. IsPrefix(source, r)
  BY <1>1, PrefixOfAppend
<1>4. PICK a \in Path :
        /\ a = From(p, source) /\ Moved(source, target, p) = target \o a
        /\ Len(a) = Len(p) - Len(source) /\ Len(source) \in 0..Len(p)
        /\ \A i \in 1..Len(p) - Len(source) : a[i] = p[Len(source) + i]
  <2>1. PICK a : a = From(p, source) /\ Moved(source, target, p) = target \o a /\ Suffix(a, p, source)
    BY MovedTo
  <2> QED
    BY <2>1 DEF Suffix
<1>5. PICK b \in Path :
        /\ b = From(r, source) /\ Moved(source, target, r) = target \o b
        /\ Len(b) = Len(r) - Len(source)
        /\ \A i \in 1..Len(r) - Len(source) : b[i] = r[Len(source) + i]
  <2>1. r \in Path
    BY <1>2
  <2>2. PICK b : b = From(r, source) /\ Moved(source, target, r) = target \o b /\ Suffix(b, r, source)
    BY <1>3, <2>1, MovedTo
  <2> QED
    BY <2>2 DEF Suffix
<1>6. Len(source) \in Nat /\ Len(a) \in Nat /\ Len(b) = Len(a) + 1
  BY <1>2, <1>4, <1>5, LenProperties DEF Path
<1>7. b = Append(a, name)
  <2>1. /\ Append(a, name) \in Seq(STRING) /\ Len(Append(a, name)) = Len(a) + 1
        /\ Append(a, name)[Len(a) + 1] = name /\ \A i \in 1..Len(a) : Append(a, name)[i] = a[i]
    <3>1. Append(a, name) \in Path /\ Longer(Append(a, name), a, name)
      BY PathAppend
    <3> QED
      BY <3>1 DEF Longer, Path
  <2>2. ASSUME NEW i \in 1..Len(b) PROVE b[i] = Append(a, name)[i]
    <3>1. CASE i \in 1..Len(a)
      <4>1. i \in 1..Len(r) - Len(source) /\ i \in 1..Len(p) - Len(source)
            /\ Len(source) + i \in 1..Len(p)
        BY <1>2, <1>4, <1>5, <1>6, <3>1
      <4>2. a[i] = p[Len(source) + i] /\ b[i] = r[Len(source) + i]
        BY <1>4, <1>5, <4>1
      <4>3. r[Len(source) + i] = p[Len(source) + i]
        BY <1>2, <4>1
      <4>4. Append(a, name)[i] = a[i]
        BY <2>1, <3>1
      <4> QED
        BY <4>2, <4>3, <4>4
    <3>2. CASE i = Len(a) + 1
      <4>1. i \in 1..Len(r) - Len(source) /\ Len(source) + i = Len(p) + 1
        BY <1>2, <1>4, <1>5, <1>6, <3>2
      <4> QED
        BY <1>2, <1>5, <2>1, <3>2, <4>1
    <3>3. i \in 1..Len(a) \/ i = Len(a) + 1
      BY <1>6
    <3> QED
      BY <3>1, <3>2, <3>3
  <2> QED
    BY <1>6, <2>1, <2>2, Same DEF Path
<1>8. target \o Append(a, name) = Append(target \o a, name)
  <2>1. target \in Seq(STRING)
    BY DEF Path
  <2>2. a \in Seq(STRING) /\ Append(a, name) = a \o <<name>> /\ <<name>> \in Seq(STRING)
    <3>1. a \in Seq(STRING)
      BY <1>4 DEF Path
    <3>2. <<name>> \in Seq(STRING)
      <4>1. <<>> \in Seq(STRING) /\ Append(<<>>, name) = <<name>>
        OBVIOUS
      <4>2. Append(<<>>, name) \in Seq(STRING)
        BY <4>1, AppendProperties
      <4> QED
        BY <4>1, <4>2
    <3> QED
      BY <3>1, <3>2, AppendIsConcat
  <2>3. target \o a \in Seq(STRING)
    BY <2>1, <2>2, ConcatIs
  <2>4. Append(target \o a, name) = (target \o a) \o <<name>>
    BY <2>3, AppendIsConcat
  <2> QED
    BY <2>1, <2>2, <2>4, ConcatAssociative
<1> QED
  BY <1>1, <1>4, <1>5, <1>7, <1>8

(* What is moved goes below the target, ... *)
LEMMA MovedToTarget ==
  ASSUME NEW source \in Path, NEW target \in Path, NEW p \in Path, IsPrefix(source, p)
  PROVE  IsPrefix(target, Moved(source, target, p))
<1>1. PICK a \in Path : Moved(source, target, p) = target \o a
  <2>1. From(p, source) \in Path /\ Moved(source, target, p) = target \o From(p, source)
    BY MovedIs
  <2> QED
    BY <2>1
<1>2. PICK q : q = target \o a
  OBVIOUS
<1>3. /\ q \in Seq(STRING) /\ Len(q) = Len(target) + Len(a) /\ Len(target) \in Nat /\ Len(a) \in Nat
      /\ \A i \in 1..Len(target) : q[i] = target[i]
  <2>1. a \in Seq(STRING) /\ target \in Seq(STRING)
    BY <1>1 DEF Path
  <2>2. /\ target \o a \in Seq(STRING) /\ Len(target \o a) = Len(target) + Len(a)
        /\ Len(target) \in Nat /\ Len(a) \in Nat
        /\ \A i \in 1..Len(target) : (target \o a)[i] = target[i]
    BY <2>1, ConcatIs
  <2> QED
    BY <1>2, <2>2
<1>4. Len(target) \in 0..Len(q)
  BY <1>3
<1>5. /\ Pre(q, Len(target)) \in Seq(STRING) /\ Len(Pre(q, Len(target))) = Len(target)
      /\ \A i \in 1..Len(target) : Pre(q, Len(target))[i] = q[i]
  BY <1>3, <1>4, PreIs
<1>6. target = Pre(q, Len(target))
  BY <1>3, <1>5, Same DEF Path
<1>7. IsPrefix(target, q)
  BY <1>3, <1>4, <1>6, PrefixIs DEF Path
<1> QED
  BY <1>1, <1>2, <1>7

(* ... and two entries do not become one. *)
LEMMA MovedApart ==
  ASSUME NEW source \in Path, NEW target \in Path, NEW p \in Path, NEW q \in Path,
         IsPrefix(source, p), IsPrefix(source, q),
         Moved(source, target, p) = Moved(source, target, q)
  PROVE  p = q
<1>1. PICK a \in Path :
        /\ Moved(source, target, p) = target \o a
        /\ Len(a) = Len(p) - Len(source) /\ Len(source) \in 0..Len(p)
        /\ \A i \in 1..Len(p) - Len(source) : a[i] = p[Len(source) + i]
  <2>1. PICK a : Moved(source, target, p) = target \o a /\ Suffix(a, p, source)
    BY MovedTo
  <2> QED
    BY <2>1 DEF Suffix
<1>2. PICK b \in Path :
        /\ Moved(source, target, q) = target \o b
        /\ Len(b) = Len(q) - Len(source) /\ Len(source) \in 0..Len(q)
        /\ \A i \in 1..Len(q) - Len(source) : b[i] = q[Len(source) + i]
  <2>1. PICK b : Moved(source, target, q) = target \o b /\ Suffix(b, q, source)
    BY MovedTo
  <2> QED
    BY <2>1 DEF Suffix
<1>3. a = b
  <2>1. target \in Seq(STRING) /\ target \o a = target \o b
    BY <1>1, <1>2 DEF Path
  <2> QED
    <3>1. a \in Seq(STRING) /\ b \in Seq(STRING)
      BY <1>1, <1>2 DEF Path
    <3> QED
      BY <2>1, <3>1, ConcatSimplifications
<1>4. Len(p) \in Nat /\ Len(q) \in Nat /\ Len(source) \in Nat /\ Len(p) = Len(q)
  BY <1>1, <1>2, <1>3, LenProperties DEF Path
<1>5. ASSUME NEW i \in 1..Len(p) PROVE p[i] = q[i]
  <2>1. CASE i \in 1..Len(source)
    BY <2>1, PrefixNames
  <2>2. CASE i \notin 1..Len(source)
    <3>1. PICK j : j = i - Len(source)
      OBVIOUS
    <3>2. j \in 1..Len(p) - Len(source) /\ Len(source) + j = i
      BY <1>4, <2>2, <3>1
    <3>3. a[j] = p[Len(source) + j] /\ a[j] = q[Len(source) + j]
      BY <1>1, <1>2, <1>3, <1>4, <3>2
    <3> QED
      BY <3>2, <3>3
  <2> QED
    BY <2>1, <2>2
<1> QED
  BY <1>4, <1>5, Same DEF Path

-----------------------------------------------------------------------------
(* What the calls of the file system make of a tree *)

(* A path an entry may have: in a folder of the tree. *)
Slot(t, p) ==
  \E at \in Path, name \in STRING \ {".", ".."} :
    p = Append(at, name) /\ Is("dir", t, at) /\ Plain(at)

(* A path in a folder is plain. *)
LEMMA SlotIs ==
  ASSUME NEW t, NEW p, Slot(t, p)
  PROVE  p \in Path /\ Plain(p) /\ p # <<>> /\ Is("dir", t, Parent(p)) /\ Parent(p) # p
<1> PICK at \in Path, name \in STRING \ {".", ".."} :
      p = Append(at, name) /\ Is("dir", t, at) /\ Plain(at)
  BY DEF Slot
<1>1. p \in Path /\ p # <<>> /\ Parent(p) = at /\ Len(p) = Len(at) + 1 /\ Len(at) \in Nat
  BY AppendIs DEF Path
<1>2. Plain(p)
  BY PlainIs
<1>3. at # p
  BY <1>1
<1> QED
  BY <1>1, <1>2, <1>3

(* Where an entry is made or replaced is in a folder, ... *)
LEMMA PlaceIs ==
  ASSUME NEW t, WellFormed(t), NEW p \in Path, Plain(p), Place(t, p) # NOWHERE
  PROVE  Slot(t, Place(t, p))
<1>1. PICK at : at = Walk(t, Parent(p))
  OBVIOUS
<1>2. p # <<>> /\ Is("dir", t, at) /\ Place(t, p) = Append(at, Last(p))
  BY <1>1 DEF Place
<1>3. PICK q \in Path, name \in STRING : p = Append(q, name)
  BY <1>2, RootOrChild
<1>4. Last(p) = name /\ name \notin {".", ".."}
  BY <1>3, PlainIs, AppendIs DEF Path
<1>5. at \in Path /\ Plain(at)
  BY <1>2, EntryIs DEF Is
<1> QED
  BY <1>2, <1>4, <1>5 DEF Slot

(* ... and so is where a file is opened, also through a link. *)
LEMMA OpenPlaceIs ==
  ASSUME NEW t, WellFormed(t), NEW p \in Path, Plain(p), OpenPlace(t, p) # NOWHERE
  PROVE  Slot(t, OpenPlace(t, p))
<1>1. PICK q : q = Place(t, p)
  OBVIOUS
<1>2. OpenPlace(t, p) = IF Is("link", t, q) THEN Place(t, t[q].to) ELSE q
  BY <1>1 DEF OpenPlace
<1>3. CASE Is("link", t, q)
  <2>1. Plain(t[q].to) /\ t[q].to \in Path
    BY <1>3 DEF Is, WellFormed, Plain, Path
  <2> QED
    BY <1>2, <1>3, <2>1, PlaceIs
<1>4. CASE ~Is("link", t, q)
  BY <1>1, <1>2, <1>4, PlaceIs
<1> QED
  BY <1>3, <1>4

(* A file is in a folder. *)
LEMMA FileIsSlot ==
  ASSUME NEW t, WellFormed(t), NEW p, Is("file", t, p)
  PROVE  Slot(t, p)
<1>1. p \in DOMAIN t /\ t[p].kind = "file"
  BY DEF Is
<1>2. p # <<>>
  <2>1. t[<<>>].kind = "dir"
    BY DEF WellFormed, Is
  <2> QED
    BY <1>1, <2>1
<1> QED
  BY <1>1, <1>2, EntryIs DEF Slot

(* A tree with a file made or changed. *)
HasPut(t, p, text, u) ==
  /\ WellFormed(u) /\ DOMAIN u = DOMAIN t \union {p} /\ u[p] = File(text)
  /\ \A q \in DOMAIN t : q # p => u[q] = t[q]

(* It is one again. *)
LEMMA PutIs ==
  ASSUME NEW t, WellFormed(t), NEW p, Slot(t, p), ~Is("dir", t, p), NEW text
  PROVE  HasPut(t, p, text, Put(t, p, File(text)))
<1>1. PICK u : u = Put(t, p, File(text))
  OBVIOUS
<1>2. PICK node : node = File(text)
  OBVIOUS
<1>3. /\ DOMAIN u = DOMAIN t \union {p} /\ u[p] = node
      /\ \A q \in DOMAIN t : q # p => u[q] = t[q]
  BY <1>1, <1>2 DEF Put
<1>4. node.kind = "file"
  BY <1>2 DEF File
<1>5. p \in Path /\ Plain(p) /\ p # <<>> /\ Is("dir", t, Parent(p))
  BY SlotIs
<1>6. \A q : Is("dir", t, q) => Is("dir", u, q)
  BY <1>3 DEF Is
<1>7. \A q \in DOMAIN t : u[q].kind = "link" => t[q].kind = "link" /\ u[q].to = t[q].to
  BY <1>3, <1>4
<1>8. ASSUME NEW q \in DOMAIN u
      PROVE  /\ Plain(q) /\ (q # <<>> => Is("dir", u, Parent(q)))
             /\ u[q].kind \in {"dir", "file", "link"} /\ (u[q].kind = "link" => Plain(u[q].to))
  <2>1. CASE q = p
    BY <1>3, <1>4, <1>5, <1>6, <2>1
  <2>2. CASE q # p
    BY <1>3, <1>6, <2>2 DEF WellFormed
  <2> QED
    BY <2>1, <2>2
<1>9. Is("dir", u, <<>>)
  BY <1>6 DEF WellFormed
<1>10. WellFormed(u)
  BY <1>8, <1>9 DEF WellFormed
<1> QED
  BY <1>1, <1>2, <1>3, <1>10 DEF HasPut

(* The entries there are after a rename. *)
Kept(t, source, target) == IF source = target THEN DOMAIN t ELSE DOMAIN t \ {target}

(* What is below an entry has the entry above it. *)
LEMMA AboveIsEntry ==
  ASSUME NEW t, WellFormed(t), NEW p \in DOMAIN t, NEW b \in Path, IsStrictPrefix(b, p)
  PROVE  Is("dir", t, b)
<1>1. p \in Path
  BY EntryIs
<1>2. IsPrefix(b, p) /\ b # p
  BY DEF IsStrictPrefix
<1>3. Len(b) \in 0..Len(p) /\ b = Pre(p, Len(b)) /\ Len(b) # Len(p)
  <2>1. b \in Seq(STRING) /\ p \in Seq(STRING)
    BY <1>1 DEF Path
  <2>2. Len(b) \in 0..Len(p) /\ b = Pre(p, Len(b)) /\ Len(b) < Len(p)
    BY <1>2, <2>1, PrefixIs
  <2>3. Len(p) \in Nat /\ Len(b) \in Nat
    BY <2>1, LenProperties
  <2> QED
    BY <2>2, <2>3
<1>4. Is("dir", t, Pre(p, Len(b)))
  BY <1>3, Ancestors
<1> QED
  BY <1>3, <1>4

(* With an entry, what is above it is kept. *)
LEMMA KeptAbove ==
  ASSUME NEW t, WellFormed(t), NEW source \in Path, NEW target \in Path,
         MayRename(t, source, target),
         NEW p \in Kept(t, source, target), NEW b \in Path, IsPrefix(b, p)
  PROVE  p \in DOMAIN t /\ b \in Kept(t, source, target)
<1>1. p \in DOMAIN t /\ (source # target => p # target)
  BY DEF Kept
<1>2. CASE b = p
  BY <1>1, <1>2
<1>3. CASE b # p
  <2>1. IsStrictPrefix(b, p)
    BY <1>3 DEF IsStrictPrefix
  <2>2. b \in DOMAIN t
    BY <1>1, <2>1, AboveIsEntry DEF Is
  <2>3. ASSUME source # target, b = target PROVE FALSE
    <3>1. target \in DOMAIN t \ {source}
      BY <2>2, <2>3
    <3>2. Empty(t, target)
      BY <3>1 DEF MayRename
    <3> QED
      BY <1>1, <2>1, <2>3, <3>2 DEF Empty
  <2> QED
    BY <1>1, <2>2, <2>3 DEF Kept
<1> QED
  BY <1>2, <1>3

(* Two entries do not become one. *)
LEMMA MoveIsInjective ==
  ASSUME NEW t, WellFormed(t), NEW source \in Path, NEW target \in Path,
         MayRename(t, source, target),
         NEW p \in Kept(t, source, target), NEW q \in Kept(t, source, target),
         Moved(source, target, p) = Moved(source, target, q)
  PROVE  p = q
<1>1. p \in DOMAIN t /\ q \in DOMAIN t /\ p \in Path /\ q \in Path
  BY EntryIs DEF Kept
<1>2. ASSUME NEW a \in Kept(t, source, target), NEW b \in Kept(t, source, target),
             a \in Path, b \in Path, IsPrefix(source, a), ~IsPrefix(source, b),
             Moved(source, target, a) = Moved(source, target, b)
      PROVE  FALSE
  <2>1. Moved(source, target, b) = b
    BY <1>2, MovedIs
  <2>2. IsPrefix(target, b)
    BY <1>2, <2>1, MovedToTarget
  <2>3. target \in Kept(t, source, target)
    BY <1>2, <2>2, KeptAbove
  <2>4. source = target
    BY <2>3 DEF Kept
  <2> QED
    BY <1>2, <2>2, <2>4
<1>3. CASE IsPrefix(source, p) /\ IsPrefix(source, q)
  BY <1>1, <1>3, MovedApart
<1>4. CASE ~IsPrefix(source, p) /\ ~IsPrefix(source, q)
  BY <1>1, <1>4, MovedIs
<1>5. CASE IsPrefix(source, p) /\ ~IsPrefix(source, q)
  BY <1>1, <1>2, <1>5
<1>6. CASE ~IsPrefix(source, p) /\ IsPrefix(source, q)
  BY <1>1, <1>2, <1>6
<1> QED
  BY <1>3, <1>4, <1>5, <1>6

(* What the tree has after a rename. *)
HasMoved(u, t, source, target) ==
  /\ DOMAIN u = {Moved(source, target, p) : p \in Kept(t, source, target)}
  /\ \A p \in Kept(t, source, target) : u[Moved(source, target, p)] = t[p]

(* It has what it had, in its new place. *)
LEMMA RenamedHas ==
  ASSUME NEW t, WellFormed(t), NEW source \in Path, NEW target \in Path,
         MayRename(t, source, target)
  PROVE  HasMoved(Renamed(t, source, target), t, source, target)
<1> DEFINE kept == Kept(t, source, target)
           move(p) == Moved(source, target, p)
<1>1. PICK u : u = [q \in {move(p) : p \in kept} |-> t[CHOOSE p \in kept : move(p) = q]]
  OBVIOUS
<1>2. Renamed(t, source, target) = u
  BY <1>1 DEF Renamed, Kept
<1>3. ASSUME NEW p \in kept, NEW q \in kept, move(p) = move(q) PROVE p = q
  BY <1>3, MoveIsInjective
<1> HIDE DEF kept, move
<1>4. ASSUME NEW p \in kept PROVE u[move(p)] = t[p]
  <2>1. (CHOOSE r \in kept : move(r) = move(p)) = p
    BY <1>3
  <2>2. move(p) \in {move(r) : r \in kept}
    OBVIOUS
  <2> QED
    BY <1>1, <2>1, <2>2
<1>5. DOMAIN u = {move(p) : p \in kept}
  BY <1>1
<1> QED
  BY <1>2, <1>4, <1>5 DEF kept, move, HasMoved

(* The target begins plain, and what is moved below it stays so. *)
LEMMA MovedIsPlain ==
  ASSUME NEW source \in Path, NEW target \in Path, NEW p \in Path, Plain(target), Plain(p)
  PROVE  Plain(Moved(source, target, p))
<1>1. CASE ~IsPrefix(source, p)
  BY <1>1, MovedIs
<1>2. CASE IsPrefix(source, p)
  <2>1. /\ Moved(source, target, p) = target \o From(p, source)
        /\ From(p, source) \in Path /\ Len(From(p, source)) = Len(p) - Len(source)
        /\ Len(source) \in 0..Len(p)
        /\ \A i \in 1..Len(p) - Len(source) : From(p, source)[i] = p[Len(source) + i]
    BY <1>2, MovedIs
  <2>2. PICK a \in Path : a = From(p, source)
    BY <2>1
  <2>3. PICK m : m = target \o a
    OBVIOUS
  <2>4. /\ m \in Seq(STRING) /\ Len(m) = Len(target) + Len(a)
        /\ Len(target) \in Nat /\ Len(a) \in Nat
        /\ \A i \in 1..Len(target) : m[i] = target[i]
        /\ \A i \in 1..Len(a) : m[Len(target) + i] = a[i]
    BY <2>3, ConcatIs DEF Path
  <2>5. Len(p) \in Nat
    BY LenProperties DEF Path
  <2>6. ASSUME NEW i \in 1..Len(m) PROVE m[i] \notin {".", ".."}
    <3>1. CASE i \in 1..Len(target)
      <4>1. target[i] \notin {".", ".."}
        BY <3>1 DEF Plain, Contains
      <4> QED
        BY <2>4, <3>1, <4>1
    <3>2. CASE i \notin 1..Len(target)
      <4>1. PICK j : j = i - Len(target)
        OBVIOUS
      <4>2. j \in 1..Len(a) /\ Len(target) + j = i
        BY <2>4, <3>2, <4>1
      <4>3. m[i] = a[j]
        BY <2>4, <4>2
      <4>4. PICK k : k = Len(source) + j
        OBVIOUS
      <4>5. j \in 1..Len(p) - Len(source) /\ k \in 1..Len(p)
        BY <2>1, <2>2, <2>5, <4>2, <4>4
      <4>6. a[j] = p[k]
        BY <2>1, <2>2, <4>4, <4>5
      <4>7. p[k] \notin {".", ".."}
        BY <4>5 DEF Plain, Contains
      <4> QED
        BY <4>3, <4>6, <4>7
    <3> QED
      BY <3>1, <3>2
  <2>7. Plain(m)
    BY <2>4, <2>6 DEF Plain, Contains, Path
  <2> QED
    BY <2>1, <2>2, <2>3, <2>7
<1> QED
  BY <1>1, <1>2

(* A rename leaves a tree. *)
LEMMA RenamedIs ==
  ASSUME NEW t, WellFormed(t), NEW source, NEW target, Slot(t, source), Slot(t, target),
         MayRename(t, source, target)
  PROVE  WellFormed(Renamed(t, source, target))
<1>1. PICK u : u = Renamed(t, source, target)
  OBVIOUS
<1> DEFINE kept == Kept(t, source, target)
           move(p) == Moved(source, target, p)
<1>2. /\ source \in Path /\ source # <<>> /\ source \in DOMAIN t
      /\ target \in Path /\ Plain(target) /\ target # <<>>
  BY SlotIs DEF MayRename
<1>3. DOMAIN u = {move(p) : p \in kept} /\ \A p \in kept : u[move(p)] = t[p]
  <2>1. HasMoved(u, t, source, target)
    BY <1>1, <1>2, RenamedHas
  <2> QED
    BY <2>1 DEF HasMoved
<1>4. \A p \in kept : p \in DOMAIN t /\ p \in Path /\ Plain(p)
  BY EntryIs DEF Kept
<1>5. ASSUME NEW p \in kept, Is("dir", t, p) PROVE Is("dir", u, move(p))
  BY <1>3, <1>5 DEF Is
<1>6. ASSUME NEW p \in kept, p # <<>> PROVE move(p) # <<>> => Is("dir", u, Parent(move(p)))
  <2>1. PICK q \in Path, name \in STRING : p = Append(q, name) /\ Is("dir", t, q)
    BY <1>4, <1>6, EntryIs
  <2>2. IsPrefix(q, q) /\ IsPrefix(q, p)
    BY <2>1, PrefixEnds, PrefixOfAppend
  <2>3. q \in kept
    BY <1>2, <2>2, KeptAbove
  <2>4. Is("dir", u, move(q)) /\ move(q) \in Path
    BY <1>2, <1>5, <2>1, <2>3, MovedIs
  <2>5. CASE ~IsPrefix(source, p)
    <3>1. ~IsPrefix(source, q)
      BY <1>2, <2>1, <2>5, PrefixOfAppend
    <3>2. move(p) = p /\ move(q) = q
      BY <1>2, <1>4, <2>5, <3>1, MovedIs
    <3>3. Parent(p) = q
      BY <2>1, AppendIs DEF Path
    <3> QED
      BY <2>4, <3>2, <3>3
  <2>6. CASE IsPrefix(source, q)
    <3>1. move(p) = Append(move(q), name)
      BY <1>2, <2>1, <2>6, MovedBelow
    <3>2. Parent(Append(move(q), name)) = move(q)
      BY <2>4, AppendIs DEF Path
    <3> QED
      BY <2>4, <3>1, <3>2
  <2>7. CASE p = source
    <3>1. move(p) = target
      BY <1>2, <2>7, MovedItself
    <3>2. PICK at \in Path, last \in STRING : target = Append(at, last) /\ Is("dir", t, at)
      BY DEF Slot
    <3>3. Parent(target) = at /\ at # target /\ IsPrefix(at, target)
      <4>1. IsPrefix(at, at)
        BY PrefixEnds
      <4>2. Parent(target) = at /\ Len(target) = Len(at) + 1 /\ Len(at) \in Nat
        BY <3>2, AppendIs DEF Path
      <4>3. at # target
        BY <4>2
      <4> QED
        BY <3>2, <4>1, <4>2, <4>3, PrefixOfAppend
    <3>4. at \in DOMAIN t /\ at \in kept
      BY <3>2, <3>3 DEF Is, Kept
    <3>5. ~IsPrefix(source, at)
      <4>1. ASSUME IsPrefix(source, at) PROVE FALSE
        <5>1. IsPrefix(source, target) /\ source # target
          <6>1. IsPrefix(source, target) /\ Len(source) <= Len(at)
            BY <1>2, <3>2, <3>3, <4>1, PrefixOfPrefix
          <6>2. Len(target) = Len(at) + 1 /\ Len(at) \in Nat /\ Len(source) \in Nat
            BY <1>2, <3>2, AppendIs, LenProperties DEF Path
          <6> QED
            BY <6>1, <6>2
        <5> QED
          BY <5>1 DEF MayRename, IsStrictPrefix
      <4> QED
        BY <4>1
    <3>6. move(at) = at
      BY <1>2, <3>2, <3>5, MovedIs
    <3>7. Is("dir", u, at)
      BY <1>5, <3>2, <3>4, <3>6
    <3> QED
      BY <3>1, <3>3, <3>7
  <2> QED
    BY <1>2, <2>1, <2>5, <2>6, <2>7, PrefixOfAppend
<1>7. Is("dir", u, <<>>)
  <2>1. Is("dir", t, <<>>) /\ <<>> \in kept
    BY <1>2 DEF WellFormed, Is, Kept
  <2>2. ~IsPrefix(source, <<>>)
    BY <1>2, PrefixEnds
  <2>3. <<>> \in Path
    BY DEF Path
  <2>4. move(<<>>) = <<>>
    BY <1>2, <2>2, <2>3, MovedIs
  <2> QED
    BY <1>5, <2>1, <2>4
<1>8. ASSUME NEW p \in kept
      PROVE  /\ Plain(move(p)) /\ (move(p) # <<>> => Is("dir", u, Parent(move(p))))
             /\ u[move(p)].kind \in {"dir", "file", "link"}
             /\ (u[move(p)].kind = "link" => Plain(u[move(p)].to))
  <2>1. Plain(move(p))
    BY <1>2, <1>4, MovedIsPlain
  <2>2. p = <<>> => move(p) = <<>>
    <3>1. p = <<>> => ~IsPrefix(source, p)
      BY <1>2, PrefixEnds
    <3> QED
      BY <1>2, <1>4, <3>1, MovedIs
  <2>3. u[move(p)] = t[p] /\ p \in DOMAIN t
    BY <1>3, <1>4
  <2> QED
    BY <1>6, <2>1, <2>2, <2>3 DEF WellFormed
<1>9. \A q \in DOMAIN u : \E p \in kept : q = move(p)
  BY <1>3
<1> HIDE DEF kept, move
<1>10. WellFormed(u)
  BY <1>7, <1>8, <1>9 DEF WellFormed
<1> QED
  BY <1>1, <1>10

(* A bounded set of natural numbers has a greatest one. *)
LEMMA Greatest ==
  ASSUME NEW n \in Nat, NEW T, T \subseteq 0..n, T # {}
  PROVE  Max(T) \in T /\ \A k \in T : Max(T) >= k
<1> DEFINE U == {n - k : k \in T}
<1>1. U \subseteq Nat /\ U # {}
  <2>1. ASSUME NEW k \in T PROVE n - k \in Nat
    <3>1. k \in 0..n
      OBVIOUS
    <3> QED
      BY <3>1
  <2> QED
    BY <2>1
<1>2. PICK m \in U : \A k \in U : m <= k
  BY <1>1, Least
<1>3. PICK g \in T : m = n - g
  BY <1>2
<1>4. \A k \in T : g >= k
  <2> TAKE k \in T
  <2>1. n - g <= n - k /\ g \in Nat /\ k \in Nat
    BY <1>2, <1>3
  <2> QED
    BY <2>1
<1> QED
  BY <1>4 DEF Max

(* A function on a finite set has finitely many values, and no more. *)
LEMMA ImageIsFinite ==
  ASSUME NEW S, IsFiniteSet(S), NEW f, DOMAIN f = S
  PROVE  /\ IsFiniteSet({f[x] : x \in S})
         /\ Cardinality({f[x] : x \in S}) <= Cardinality(S)
<1> DEFINE T == {f[x] : x \in S}
           g == [x \in S |-> f[x]]
<1>1. g \in Surjection(S, T)
  BY DEF Surjection
<1> HIDE DEF g, T
<1>2. IsFiniteSet(T) /\ Cardinality(T) <= Cardinality(S)
  BY <1>1, FS_Surjection
<1> QED
  BY <1>2 DEF T

(* What exists of a path begins it. *)
LEMMA ExistingIs ==
  ASSUME NEW t, NEW p \in Path
  PROVE  \E n \in 0..Len(p) : Existing(t, p) = Pre(p, n) /\ Len(Pre(p, n)) = n
<1> DEFINE T == {k \in 0..Len(p) : Walk(t, SubSeq(p, 1, k)) # NOWHERE}
<1>1. Existing(t, p) = Pre(p, Max(T))
  BY DEF Existing, Pre
<1>2. Len(p) \in Nat /\ p \in Seq(STRING)
  BY LenProperties DEF Path
<1>3. 0 \in T
  <2>1. SubSeq(p, 1, 0) = <<>> /\ <<>> \in Path
    BY SubSeqEmpty DEF Path
  <2>2. Walk(t, SubSeq(p, 1, 0)) = <<>>
    BY <2>1, WalkIs
  <2>3. Walk(t, SubSeq(p, 1, 0)) # NOWHERE
    BY <2>1, <2>2, SomewhereIs
  <2> QED
    BY <1>2, <2>3
<1>4. T \subseteq 0..Len(p)
  OBVIOUS
<1> HIDE DEF T
<1>5. Max(T) \in 0..Len(p)
  BY <1>2, <1>3, <1>4, Greatest
<1> QED
  BY <1>1, <1>2, <1>5, PreIs

(* The folders that mkdir -p makes, one in the other. *)
Folder(at, p, n, k) == at \o SubSeq(p, n + 1, k)

(* One of them is in the one before. *)
FolderStep(at, p, n, k) ==
  /\ k \in 1..Len(p) /\ p[k] \in STRING /\ k - 1 \in n..Len(p)
  /\ Folder(at, p, n, k) = Append(Folder(at, p, n, k - 1), p[k])

(* The first of them is in the folder that exists. *)
LEMMA FolderSteps ==
  ASSUME NEW at \in Path, NEW p \in Path, NEW n \in 0..Len(p)
  PROVE  /\ Folder(at, p, n, n) = at
         /\ \A k \in n + 1..Len(p) : FolderStep(at, p, n, k)
<1>1. at \in Seq(STRING) /\ p \in Seq(STRING) /\ Len(p) \in Nat /\ n \in Nat
  BY LenProperties DEF Path
<1>2. Folder(at, p, n, n) = at
  <2>1. n + 1 \in Int /\ n \in Int /\ n < n + 1
    BY <1>1
  <2>2. SubSeq(p, n + 1, n) = <<>>
    BY <2>1, SubSeqEmpty
  <2>3. at \o <<>> = at
    BY <1>1, ConcatEmptySeq
  <2> QED
    BY <2>2, <2>3 DEF Folder
<1>3. ASSUME NEW k \in n + 1..Len(p)
      PROVE  FolderStep(at, p, n, k)
  <2>1. PICK m : m = n + 1
    OBVIOUS
  <2>2. k \in 1..Len(p) /\ m \in 1..Len(p) /\ k \in m..Len(p) /\ k - 1 \in n..Len(p) /\ k - 1 \in Int
    BY <1>1, <2>1
  <2>3. p[k] \in STRING
    BY <1>1, <2>2, ElementOfSeq
  <2>4. SubSeq(p, m, k) = SubSeq(p, m, k - 1) \o <<p[k]>>
    BY <1>1, <2>2, SubSeqRecursiveSecond
  <2>5. SubSeq(p, m, k - 1) \in Seq(STRING)
    <3>1. \A i \in m..k - 1 : i \in 1..Len(p)
      BY <1>1, <2>1, <2>2
    <3>2. \A i \in m..k - 1 : p[i] \in STRING
      BY <1>1, <3>1, ElementOfSeq
    <3>3. m \in Int
      BY <1>1, <2>1
    <3> QED
      BY <2>2, <3>2, <3>3, SubSeqProperties
  <2>6. PICK s \in Seq(STRING) : s = SubSeq(p, m, k - 1)
    BY <2>5
  <2>7. PICK x \in STRING : x = p[k]
    BY <2>3
  <2>8. <<x>> \in Seq(STRING)
    BY OneIs
  <2>9. at \o (s \o <<x>>) = (at \o s) \o <<x>>
    BY <1>1, <2>8, ConcatAssociative
  <2>10. (at \o s) \o <<x>> = Append(at \o s, x)
    <3>1. at \o s \in Seq(STRING)
      BY <1>1, ConcatIs
    <3> QED
      BY <3>1, AppendIsConcat
  <2>11. Folder(at, p, n, k) = at \o (s \o <<x>>) /\ Folder(at, p, n, k - 1) = at \o s
    BY <2>1, <2>4, <2>6, <2>7 DEF Folder
  <2> QED
    BY <2>2, <2>3, <2>7, <2>9, <2>10, <2>11 DEF FolderStep
<1> QED
  BY <1>2, <1>3

(* They are plain, and in the first of them. *)
LEMMA FoldersAre ==
  ASSUME NEW at \in Path, Plain(at), NEW p \in Path, Plain(p), NEW n \in 0..Len(p)
  PROVE  \A k \in n..Len(p) :
           /\ Folder(at, p, n, k) \in Path /\ Plain(Folder(at, p, n, k))
           /\ k # n => IsPrefix(Append(at, p[n + 1]), Folder(at, p, n, k))
<1> DEFINE first == Append(at, p[n + 1])
           Fine(k) == /\ Folder(at, p, n, k) \in Path /\ Plain(Folder(at, p, n, k))
                      /\ k # n => IsPrefix(first, Folder(at, p, n, k))
           T == {k \in Nat : k \in n..Len(p) => Fine(k)}
<1>1. Len(p) \in Nat /\ n \in Nat
  BY LenProperties DEF Path
<1>2. Fine(n)
  <2>1. Folder(at, p, n, n) = at
    BY FolderSteps
  <2> QED
    BY <2>1
<1>3. ASSUME NEW k \in n + 1..Len(p), Fine(k - 1) PROVE Fine(k)
  <2>1. PICK b \in Path : b = Folder(at, p, n, k - 1)
    BY <1>3
  <2>2. /\ k \in 1..Len(p) /\ p[k] \in STRING
        /\ Folder(at, p, n, k) = Append(b, p[k])
    <3>1. FolderStep(at, p, n, k)
      BY FolderSteps
    <3> QED
      BY <2>1, <3>1 DEF FolderStep
  <2>3. p[k] \notin {".", ".."}
    BY <2>2 DEF Plain, Contains
  <2>4. Append(b, p[k]) \in Path /\ Plain(Append(b, p[k]))
    <3>1. Plain(b)
      BY <1>3, <2>1
    <3>2. Append(b, p[k]) \in Path
      BY <2>2, AppendIs DEF Path
    <3> QED
      BY <2>2, <2>3, <3>1, <3>2, PlainIs
  <2>5. IsPrefix(first, Append(b, p[k]))
    <3>1. CASE k - 1 = n
      <4>1. b = at /\ k = n + 1
        BY <1>1, <2>1, <3>1, FolderSteps
      <4>2. Append(b, p[k]) = first
        BY <4>1
      <4> QED
        BY <2>4, <4>2, PrefixEnds
    <3>2. CASE k - 1 # n
      <4>1. IsPrefix(first, b)
        BY <1>3, <2>1, <3>2
      <4>2. n + 1 \in n + 1..Len(p)
        BY <1>1
      <4>3. p[n + 1] \in STRING
        BY <4>2, FolderSteps DEF FolderStep
      <4>4. first \in Path
        BY <4>3, AppendIs DEF Path
      <4> HIDE DEF first
      <4> QED
        BY <2>2, <4>1, <4>4, PrefixOfAppend
    <3> QED
      BY <3>1, <3>2
  <2> QED
    BY <2>2, <2>4, <2>5
<1> HIDE DEF Fine
<1>4. 0 \in T
  <2>1. 0 \in n..Len(p) => n = 0
    BY <1>1
  <2> QED
    BY <1>2, <2>1
<1>5. ASSUME NEW k \in Nat, k \in T PROVE k + 1 \in T
  <2>1. ASSUME k + 1 \in n..Len(p) PROVE Fine(k + 1)
    <3>1. CASE k + 1 = n
      BY <1>2, <3>1
    <3>2. CASE k + 1 # n
      <4>1. k + 1 \in n + 1..Len(p) /\ k \in n..Len(p) /\ k + 1 - 1 = k
        BY <1>1, <2>1, <3>2
      <4>2. Fine(k)
        BY <1>5, <4>1
      <4> QED
        BY <1>3, <4>1, <4>2
    <3> QED
      BY <3>1, <3>2
  <2> QED
    BY <2>1
<1>6. Nat \subseteq T
  <2> HIDE DEF T
  <2> QED
    BY <1>4, <1>5, Induction
<1>7. ASSUME NEW k \in n..Len(p) PROVE Fine(k)
  BY <1>1, <1>6
<1> QED
  BY <1>7 DEF Fine

(* mkdir -p leaves a tree, and in it what there was. *)
LEMMA MadeIs ==
  ASSUME NEW t, WellFormed(t), NEW p \in Path, Plain(p), MayMake(t, p)
  PROVE  /\ WellFormed(Made(t, p)) /\ DOMAIN t \subseteq DOMAIN Made(t, p)
         /\ \A q \in DOMAIN t : Made(t, p)[q] = t[q]
         /\ IsFiniteSet(DOMAIN t) => IsFiniteSet(DOMAIN Made(t, p))
         /\ \A q \in DOMAIN Made(t, p) \ DOMAIN t : Made(t, p)[q] = DIR
<1>1. PICK n \in 0..Len(p) : Existing(t, p) = Pre(p, n) /\ Len(Pre(p, n)) = n
  BY ExistingIs
<1>2. PICK at : at = Walk(t, Existing(t, p))
  OBVIOUS
<1> DEFINE made == {Folder(at, p, n, k) : k \in n + 1..Len(p)}
<1>3. PICK u : u = Made(t, p)
  OBVIOUS
<1>4. u = [q \in DOMAIN t \union made |-> IF q \in made THEN DIR ELSE t[q]]
  <2>1. Len(Existing(t, p)) = n
    BY <1>1
  <2> QED
    BY <1>2, <1>3, <2>1 DEF Made, Folder
<1>5. Is("dir", t, at)
  BY <1>2 DEF MayMake
<1>6. at \in Path /\ Plain(at) /\ Len(p) \in Nat /\ n \in Nat
  BY <1>5, EntryIs, LenProperties DEF Is, Path
<1>7. n # Len(p) => Append(at, p[n + 1]) \notin DOMAIN t
  <2>1. ASSUME n # Len(p) PROVE Existing(t, p) # p
    BY <1>1, <2>1
  <2> QED
    BY <1>1, <1>2, <2>1 DEF MayMake
<1>8. ASSUME NEW k \in n + 1..Len(p)
      PROVE  /\ Folder(at, p, n, k) \in Path /\ Plain(Folder(at, p, n, k))
             /\ Folder(at, p, n, k) \notin DOMAIN t
             /\ Folder(at, p, n, k) # <<>> /\ Parent(Folder(at, p, n, k)) = Folder(at, p, n, k - 1)
  <2>1. PICK d : d = Folder(at, p, n, k)
    OBVIOUS
  <2>2. k \in n..Len(p) /\ k # n /\ n # Len(p) /\ n + 1 \in n + 1..Len(p)
    BY <1>6
  <2>3. d \in Path /\ Plain(d) /\ IsPrefix(Append(at, p[n + 1]), d)
    BY <1>6, <2>1, <2>2, FoldersAre
  <2>4. p[n + 1] \in STRING
    BY <1>6, <2>2, FolderSteps DEF FolderStep
  <2>5. PICK first \in Path : first = Append(at, p[n + 1])
    BY <1>6, <2>4, AppendIs DEF Path
  <2>6. d \notin DOMAIN t
    <3>1. ASSUME d \in DOMAIN t PROVE first \in DOMAIN t
      <4>1. CASE first = d
        BY <3>1, <4>1
      <4>2. CASE first # d
        <5>1. IsStrictPrefix(first, d)
          BY <2>3, <2>5, <4>2 DEF IsStrictPrefix
        <5> QED
          BY <3>1, <5>1, AboveIsEntry DEF Is
      <4> QED
        BY <4>1, <4>2
    <3> QED
      BY <1>7, <2>2, <2>5, <3>1
  <2>7. /\ k - 1 \in n..Len(p) /\ p[k] \in STRING
        /\ d = Append(Folder(at, p, n, k - 1), p[k])
    <3>1. FolderStep(at, p, n, k)
      BY <1>6, FolderSteps
    <3> QED
      BY <2>1, <3>1 DEF FolderStep
  <2>8. PICK b \in Path : b = Folder(at, p, n, k - 1)
    BY <1>6, <2>7, FoldersAre
  <2>9. d # <<>> /\ Parent(d) = b
    BY <2>7, <2>8, AppendIs DEF Path
  <2> QED
    BY <2>1, <2>3, <2>6, <2>8, <2>9
<1>9. /\ DOMAIN u = DOMAIN t \union made
      /\ \A q \in made : u[q] = DIR /\ q \notin DOMAIN t
      /\ \A q \in DOMAIN t : u[q] = t[q]
  <2>1. \A q \in made : q \notin DOMAIN t
    BY <1>8
  <2> HIDE DEF made
  <2> QED
    BY <1>4, <2>1
<1>10. \A q : Is("dir", t, q) => Is("dir", u, q)
  BY <1>9 DEF Is
<1>11. \A q \in made : Is("dir", u, q)
  BY <1>9 DEF Is, DIR
<1>12. ASSUME NEW q \in DOMAIN u
       PROVE  /\ Plain(q) /\ (q # <<>> => Is("dir", u, Parent(q)))
              /\ u[q].kind \in {"dir", "file", "link"} /\ (u[q].kind = "link" => Plain(u[q].to))
  <2>1. CASE q \in DOMAIN t
    BY <1>9, <1>10, <2>1 DEF WellFormed
  <2>2. CASE q \in made
    <3>1. PICK k \in n + 1..Len(p) : q = Folder(at, p, n, k)
      BY <2>2
    <3>2. Plain(q) /\ Parent(q) = Folder(at, p, n, k - 1)
      BY <1>8, <3>1
    <3>3. Is("dir", u, Folder(at, p, n, k - 1))
      <4>1. CASE k - 1 = n
        <5>1. Folder(at, p, n, k - 1) = at
          BY <1>6, <4>1, FolderSteps
        <5> QED
          BY <1>5, <1>10, <5>1
      <4>2. CASE k - 1 # n
        <5>1. k - 1 \in n + 1..Len(p)
          BY <1>6, <4>2
        <5> QED
          BY <1>11, <5>1
      <4> QED
        BY <4>1, <4>2
    <3>4. u[q].kind = "dir"
      BY <1>11, <2>2 DEF Is
    <3> QED
      BY <3>2, <3>3, <3>4
  <2> QED
    BY <1>9, <2>1, <2>2
<1>13. Is("dir", u, <<>>)
  BY <1>10 DEF WellFormed
<1>14. WellFormed(u)
  BY <1>12, <1>13 DEF WellFormed
<1>15. IsFiniteSet(DOMAIN t) => IsFiniteSet(DOMAIN u)
  <2>1. IsFiniteSet(n + 1..Len(p))
    BY <1>6, FS_Interval
  <2>2. IsFiniteSet(made)
    <3> DEFINE f == [k \in n + 1..Len(p) |-> Folder(at, p, n, k)]
    <3>1. DOMAIN f = n + 1..Len(p) /\ made = {f[k] : k \in n + 1..Len(p)}
      OBVIOUS
    <3> HIDE DEF f, made
    <3> QED
      BY <2>1, <3>1, ImageIsFinite
  <2> HIDE DEF made
  <2> QED
    BY <1>9, <2>2, FS_Union
<1> HIDE DEF made
<1> QED
  BY <1>3, <1>9, <1>14, <1>15

-----------------------------------------------------------------------------
(* The lines of a text *)

LinesEquation(text, f) ==
  f = [k \in 0..Len(text) |-> IF k = 0 THEN {<<>>} ELSE {LineStep(q, text[k]) : q \in f[k - 1]}]

(* The lines of each beginning of the text. *)
LinesOf(text, w) ==
  w[0] = <<>> /\ \A k \in 1..Len(text) : w[k] = LineStep(w[k - 1], text[k])

(* The recursion has a solution, ... *)
LEMMA LinesExist ==
  ASSUME NEW text \in Seq(Word)
  PROVE  \E f : LinesEquation(text, f)
<1> DEFINE F(n, f) == f = [k \in 0..n |-> IF k = 0 THEN {<<>>} ELSE {LineStep(q, text[k]) : q \in f[k - 1]}]
           T == {n \in Nat : \E f : F(n, f)}
<1>1. 0 \in T
  <2>1. F(0, [k \in 0..0 |-> {<<>>}])
    OBVIOUS
  <2> QED
    BY <2>1
<1>2. ASSUME NEW n \in Nat, n \in T PROVE n + 1 \in T
  <2>1. PICK f : F(n, f)
    BY <1>2
  <2> DEFINE last == {LineStep(q, text[n + 1]) : q \in f[n]}
             g == [k \in 0..n + 1 |-> IF k <= n THEN f[k] ELSE last]
  <2>2. \A k \in 0..n : f[k] = IF k = 0 THEN {<<>>} ELSE {LineStep(q, text[k]) : q \in f[k - 1]}
    BY <2>1
  <2>3. \A k \in 0..n : g[k] = f[k]
    OBVIOUS
  <2>4. g[n + 1] = last
    OBVIOUS
  <2>5. ASSUME NEW k \in 0..n + 1
        PROVE  g[k] = IF k = 0 THEN {<<>>} ELSE {LineStep(q, text[k]) : q \in g[k - 1]}
    <3>1. CASE k = 0
      <4>1. k \in 0..n
        BY <3>1
      <4>2. g[k] = f[k] /\ f[k] = {<<>>}
        BY <2>2, <2>3, <3>1, <4>1
      <4> QED
        BY <3>1, <4>2
    <3>2. CASE k \in 1..n
      <4>1. k - 1 \in 0..n /\ k \in 0..n /\ k # 0
        BY <3>2
      <4>2. g[k - 1] = f[k - 1] /\ g[k] = f[k]
        BY <2>3, <4>1
      <4> QED
        BY <2>2, <4>1, <4>2
    <3>3. CASE k = n + 1
      <4>1. k # 0 /\ k - 1 = n /\ n \in 0..n
        BY <3>3
      <4>2. g[k - 1] = f[n] /\ g[k] = last
        BY <2>3, <2>4, <3>3, <4>1
      <4> QED
        BY <4>1, <4>2, <3>3
    <3> QED
      BY <3>1, <3>2, <3>3
  <2>6. g = [k \in 0..n + 1 |-> g[k]]
    OBVIOUS
  <2> HIDE DEF g
  <2>7. F(n + 1, g)
    BY <2>5, <2>6
  <2> QED
    BY <2>7
<1>3. Len(text) \in T
  <2> HIDE DEF T
  <2>1. Nat \subseteq T
    BY <1>1, <1>2, Induction
  <2> QED
    BY <2>1, LenProperties
<1> QED
  BY <1>3 DEF LinesEquation

(* ... and a path is resolved word by word. *)
LEMMA LinesHasPrefixes ==
  ASSUME NEW text \in Seq(Word)
  PROVE  \E w : LinesOf(text, w) /\ Lines(text) = w[Len(text)]
<1> DEFINE f == CHOOSE f : LinesEquation(text, f)
           w == [k \in 0..Len(text) |-> CHOOSE q \in f[k] : TRUE]
           T == {n \in Nat : n <= Len(text) => f[n] = {w[n]}}
<1>1. LinesEquation(text, f)
  BY LinesExist
<1>2. Lines(text) = CHOOSE q \in f[Len(text)] : TRUE
  BY DEF Lines, Along, LinesEquation
<1> HIDE DEF f
<1>3. Len(text) \in Nat
  BY LenProperties
<1>4. \A k \in 0..Len(text) : f[k] = IF k = 0 THEN {<<>>} ELSE {LineStep(q, text[k]) : q \in f[k - 1]}
  BY <1>1 DEF LinesEquation
<1>5. \A k \in 0..Len(text) : w[k] = CHOOSE q \in f[k] : TRUE
  OBVIOUS
<1> HIDE DEF w
<1>6. f[0] = {<<>>} /\ w[0] = <<>>
  <2>1. f[0] = {<<>>}
    <3>1. 0 \in 0..Len(text)
      BY <1>3
    <3>2. f[0] = IF 0 = 0 THEN {<<>>} ELSE {LineStep(q, text[0]) : q \in f[0 - 1]}
      BY <1>4, <3>1
    <3> QED
      BY <3>2
  <2>2. PICK root : root = <<>>
    OBVIOUS
  <2>3. PICK k : k = 0
    OBVIOUS
  <2>4. f[k] = {root} /\ k \in 0..Len(text)
    BY <1>3, <2>1, <2>2, <2>3
  <2>5. w[k] = CHOOSE q \in {root} : TRUE
    BY <1>5, <2>4
  <2>6. w[k] = root
    BY <2>5
  <2> QED
    BY <2>1, <2>2, <2>3, <2>6
<1>7. ASSUME NEW k \in 1..Len(text), f[k - 1] = {w[k - 1]}
      PROVE  f[k] = {LineStep(w[k - 1], text[k])} /\ w[k] = LineStep(w[k - 1], text[k])
  <2> DEFINE x == LineStep(w[k - 1], text[k])
  <2>1. f[k] = {LineStep(q, text[k]) : q \in f[k - 1]}
    <3>1. k \in 0..Len(text) /\ k # 0
      BY <1>3
    <3> QED
      BY <1>4, <3>1
  <2>2. f[k] = {x}
    BY <1>7, <2>1
  <2> HIDE DEF x
  <2>3. k \in 0..Len(text)
    BY <1>3
  <2>4. w[k] = CHOOSE q \in {x} : TRUE
    BY <1>5, <2>2, <2>3
  <2>5. w[k] = x
    BY <2>4
  <2> QED
    BY <2>2, <2>5 DEF x
<1>8. 0 \in T
  BY <1>6
<1>9. ASSUME NEW n \in Nat, n \in T PROVE n + 1 \in T
  <2> SUFFICES ASSUME n + 1 <= Len(text) PROVE f[n + 1] = {w[n + 1]}
    OBVIOUS
  <2>1. n + 1 \in 1..Len(text) /\ (n + 1) - 1 = n /\ f[n] = {w[n]}
    BY <1>3, <1>9
  <2> QED
    BY <1>7, <2>1
<1>10. Nat \subseteq T
  <2> HIDE DEF T
  <2> QED
    BY <1>8, <1>9, Induction
<1>11. \A k \in 0..Len(text) : f[k] = {w[k]}
  BY <1>3, <1>10
<1>12. LinesOf(text, w)
  <2>1. \A k \in 1..Len(text) : f[k - 1] = {w[k - 1]}
    BY <1>3, <1>11
  <2> QED
    BY <1>6, <1>7, <2>1 DEF LinesOf
<1>13. Lines(text) = w[Len(text)]
  BY <1>2, <1>3, <1>5
<1> QED
  BY <1>12, <1>13

(* The lines of a text and one more word. *)
LEMMA LinesAre ==
  /\ Lines(<<>>) = <<>>
  /\ \A text \in Seq(Word), word \in Word :
       Lines(Append(text, word)) = LineStep(Lines(text), word)
<1>1. Lines(<<>>) = <<>>
  <2>1. <<>> \in Seq(Word) /\ Len(<<>>) = 0
    OBVIOUS
  <2> QED
    BY <2>1, LinesHasPrefixes DEF LinesOf
<1>2. ASSUME NEW text \in Seq(Word), NEW word \in Word
      PROVE  Lines(Append(text, word)) = LineStep(Lines(text), word)
  <2> DEFINE q == Append(text, word)
  <2>1. /\ q \in Seq(Word) /\ Len(q) = Len(text) + 1 /\ Len(text) \in Nat
        /\ q[Len(text) + 1] = word /\ \A i \in 1..Len(text) : q[i] = text[i]
    BY AppendIs
  <2> HIDE DEF q
  <2>2. PICK w : LinesOf(text, w) /\ Lines(text) = w[Len(text)]
    BY LinesHasPrefixes
  <2>3. PICK v : LinesOf(q, v) /\ Lines(q) = v[Len(q)]
    BY <2>1, LinesHasPrefixes
  <2> DEFINE T == {n \in Nat : n <= Len(text) => v[n] = w[n]}
  <2>4. 0 \in T
    BY <2>2, <2>3 DEF LinesOf
  <2>5. ASSUME NEW n \in Nat, n \in T PROVE n + 1 \in T
    <3> SUFFICES ASSUME n + 1 <= Len(text) PROVE v[n + 1] = w[n + 1]
      OBVIOUS
    <3>1. n + 1 \in 1..Len(text) /\ n + 1 \in 1..Len(q) /\ (n + 1) - 1 = n /\ v[n] = w[n]
      BY <2>1, <2>5
    <3>2. v[n + 1] = LineStep(v[n], q[n + 1]) /\ w[n + 1] = LineStep(w[n], text[n + 1])
      BY <2>2, <2>3, <3>1 DEF LinesOf
    <3> QED
      BY <2>1, <3>1, <3>2
  <2>6. Nat \subseteq T
    <3> HIDE DEF T
    <3> QED
      BY <2>4, <2>5, Induction
  <2>7. v[Len(text)] = w[Len(text)]
    BY <2>1, <2>6
  <2>8. Len(q) \in 1..Len(q) /\ Len(q) - 1 = Len(text)
    BY <2>1
  <2>9. v[Len(q)] = LineStep(v[Len(text)], q[Len(q)])
    BY <2>3, <2>8 DEF LinesOf
  <2>10. Lines(q) = LineStep(Lines(text), word)
    BY <2>1, <2>2, <2>3, <2>7, <2>9
  <2> QED
    BY <2>10 DEF q
<1> QED
  BY <1>1, <1>2

-----------------------------------------------------------------------------
(* A text and its lines *)

FlatEquation(ls, f) ==
  f = [i \in 1..Len(ls) |-> IF i = 1 THEN ls[i] ELSE f[i - 1] \o ls[i]]

(* The texts that the first of the lines make. *)
Joined(ls, w) == \A i \in 1..Len(ls) : w[i] = IF i = 1 THEN ls[i] ELSE w[i - 1] \o ls[i]

(* The recursion has a solution, ... *)
LEMMA FlatExists ==
  ASSUME NEW ls \in Seq(Text)
  PROVE  \E f : FlatEquation(ls, f)
<1> DEFINE F(n, f) == f = [i \in 1..n |-> IF i = 1 THEN ls[i] ELSE f[i - 1] \o ls[i]]
           T == {n \in Nat : \E f : F(n, f)}
<1>1. 0 \in T
  <2>1. 1..0 = {}
    OBVIOUS
  <2>2. F(0, [i \in {} |-> 0])
    BY <2>1
  <2> QED
    BY <2>2
<1>2. ASSUME NEW n \in Nat, n \in T PROVE n + 1 \in T
  <2>1. PICK f : F(n, f)
    BY <1>2
  <2> DEFINE last == IF n + 1 = 1 THEN ls[n + 1] ELSE f[n] \o ls[n + 1]
             g == [i \in 1..n + 1 |-> IF i <= n THEN f[i] ELSE last]
  <2>2. \A i \in 1..n : f[i] = IF i = 1 THEN ls[i] ELSE f[i - 1] \o ls[i]
    BY <2>1
  <2>3. (\A i \in 1..n : g[i] = f[i]) /\ g[n + 1] = last
    <3>1. \A i \in 1..n : i \in 1..n + 1 /\ i <= n
      OBVIOUS
    <3>2. n + 1 \in 1..n + 1 /\ ~(n + 1 <= n)
      OBVIOUS
    <3> HIDE DEF last
    <3> QED
      BY <3>1, <3>2
  <2>4. ASSUME NEW i \in 1..n + 1
        PROVE  g[i] = IF i = 1 THEN ls[i] ELSE g[i - 1] \o ls[i]
    <3>1. CASE i \in 1..n
      <4>1. i # 1 => i - 1 \in 1..n
        BY <3>1
      <4>2. g[i] = f[i] /\ (i # 1 => g[i - 1] = f[i - 1])
        BY <2>3, <3>1, <4>1
      <4> QED
        BY <2>2, <3>1, <4>2
    <3>2. CASE i = n + 1
      <4>1. i - 1 = n /\ (n + 1 # 1 => n \in 1..n)
        BY <3>2
      <4>2. g[i] = last /\ (n + 1 # 1 => g[i - 1] = f[n])
        BY <2>3, <3>2, <4>1
      <4> QED
        BY <3>2, <4>2
    <3> QED
      BY <3>1, <3>2
  <2>5. g = [i \in 1..n + 1 |-> g[i]]
    OBVIOUS
  <2> HIDE DEF g
  <2>6. F(n + 1, g)
    BY <2>4, <2>5
  <2> HIDE DEF F
  <2> QED
    BY <2>6
<1>3. Len(ls) \in T
  <2> HIDE DEF T
  <2>1. Nat \subseteq T
    BY <1>1, <1>2, Induction
  <2> QED
    BY <2>1, LenProperties
<1>4. PICK f : F(Len(ls), f)
  <2> HIDE DEF F
  <2> QED
    BY <1>3
<1>5. FlatEquation(ls, f)
  BY <1>4 DEF FlatEquation
<1> QED
  BY <1>5

(* ... and the lines are joined one by one. *)
LEMMA FlatJoins ==
  ASSUME NEW ls \in Seq(Text)
  PROVE  \E w : Joined(ls, w) /\ FlattenSeq(ls) = IF Len(ls) = 0 THEN ls ELSE w[Len(ls)]
<1> DEFINE w == CHOOSE f : FlatEquation(ls, f)
<1>1. FlatEquation(ls, w)
  BY FlatExists
<1>2. FlattenSeq(ls) = IF Len(ls) = 0 THEN ls ELSE w[Len(ls)]
  BY DEF FlattenSeq, FlatEquation
<1> HIDE DEF w
<1>3. Joined(ls, w)
  BY <1>1 DEF FlatEquation, Joined
<1> QED
  BY <1>2, <1>3

(* One more line. *)
LEMMA FlatAppend ==
  /\ FlattenSeq(<<>>) = <<>>
  /\ \A ls \in Seq(Text), l \in Text :
       FlattenSeq(Append(ls, l)) = FlattenSeq(ls) \o l
<1>1. FlattenSeq(<<>>) = <<>>
  BY DEF FlattenSeq
<1>2. ASSUME NEW ls \in Seq(Text), NEW l \in Text
      PROVE  FlattenSeq(Append(ls, l)) = FlattenSeq(ls) \o l
  <2> DEFINE ms == Append(ls, l)
  <2>1. /\ ms \in Seq(Text) /\ Len(ms) = Len(ls) + 1 /\ Len(ls) \in Nat
        /\ ms[Len(ls) + 1] = l /\ \A i \in 1..Len(ls) : ms[i] = ls[i]
    BY AppendIs
  <2> HIDE DEF ms
  <2>2. PICK w : Joined(ls, w) /\ FlattenSeq(ls) = IF Len(ls) = 0 THEN ls ELSE w[Len(ls)]
    BY FlatJoins
  <2>3. PICK v : Joined(ms, v) /\ FlattenSeq(ms) = IF Len(ms) = 0 THEN ms ELSE v[Len(ms)]
    BY <2>1, FlatJoins
  <2> DEFINE T == {n \in Nat : n \in 1..Len(ls) => v[n] = w[n]}
  <2>4. 0 \in T
    OBVIOUS
  <2>5. ASSUME NEW n \in Nat, n \in T PROVE n + 1 \in T
    <3> SUFFICES ASSUME n + 1 \in 1..Len(ls) PROVE v[n + 1] = w[n + 1]
      OBVIOUS
    <3>1. n + 1 \in 1..Len(ms) /\ (n + 1) - 1 = n /\ (n + 1 # 1 => n \in 1..Len(ls))
      BY <2>1
    <3>2. v[n + 1] = IF n + 1 = 1 THEN ms[n + 1] ELSE v[n + 1 - 1] \o ms[n + 1]
      BY <2>3, <3>1 DEF Joined
    <3>3. w[n + 1] = IF n + 1 = 1 THEN ls[n + 1] ELSE w[n + 1 - 1] \o ls[n + 1]
      BY <2>2, <3>1 DEF Joined
    <3>4. ms[n + 1] = ls[n + 1] /\ (n + 1 # 1 => v[n] = w[n])
      BY <2>1, <2>5, <3>1
    <3> QED
      BY <3>1, <3>2, <3>3, <3>4
  <2>6. Nat \subseteq T
    <3> HIDE DEF T
    <3> QED
      BY <2>4, <2>5, Induction
  <2>7. Len(ms) \in 1..Len(ms) /\ Len(ms) # 0 /\ Len(ms) - 1 = Len(ls)
    BY <2>1
  <2>8. FlattenSeq(ms) = v[Len(ms)]
    BY <2>3, <2>7
  <2>9. v[Len(ms)] = IF Len(ms) = 1 THEN ms[Len(ms)] ELSE v[Len(ms) - 1] \o ms[Len(ms)]
    BY <2>3, <2>7 DEF Joined
  <2>10. CASE Len(ls) = 0
    <3>1. FlattenSeq(ms) = l
      BY <2>1, <2>8, <2>9, <2>10
    <3>2. FlattenSeq(ls) = <<>>
      BY <1>1, <2>10, EmptySeq
    <3>3. <<>> \o l = l
      BY ConcatEmptySeq DEF Text
    <3> QED
      BY <3>1, <3>2, <3>3 DEF ms
  <2>11. CASE Len(ls) # 0
    <3>1. Len(ls) \in 1..Len(ls) /\ Len(ms) # 1
      BY <2>1, <2>11
    <3>2. v[Len(ls)] = w[Len(ls)]
      BY <2>1, <2>6, <3>1
    <3>3. FlattenSeq(ms) = w[Len(ls)] \o l
      BY <2>1, <2>7, <2>8, <2>9, <3>1, <3>2
    <3>4. FlattenSeq(ls) = w[Len(ls)]
      BY <2>2, <2>11
    <3> QED
      BY <3>3, <3>4 DEF ms
  <2> QED
    BY <2>10, <2>11
<1> QED
  BY <1>1, <1>2

(* Two texts, one after the other. *)
LEMMA TwoTexts ==
  ASSUME NEW x \in Text, NEW y \in Text
  PROVE  x \o y \in Text
BY ConcatProperties DEF Text

(* Three texts, one after the other. *)
Associates(x, y, z) == (x \o y) \o z = x \o (y \o z)

(* It does not matter which of them are put together first. *)
LEMMA ThreeTexts ==
  ASSUME NEW x \in Text, NEW y \in Text, NEW z \in Text
  PROVE  Associates(x, y, z)
BY ConcatAssociative DEF Text, Associates

(* A sequence that is not empty is its front and its last element. *)
LEMMA FrontLast ==
  ASSUME NEW S, NEW p \in Seq(S), NEW x \in S
  PROVE  Append(p, x) \in Seq(S) /\ Front(Append(p, x)) = p /\ Last(Append(p, x)) = x
         /\ Append(p, x) # <<>>
<1>1. /\ Append(p, x) \in Seq(S) /\ Append(p, x) # <<>>
      /\ Parent(Append(p, x)) = p /\ Last(Append(p, x)) = x
  BY AppendIs
<1> QED
  BY <1>1 DEF Parent

(* The last of some lines. *)
LEMMA LastLine ==
  ASSUME NEW ls \in Seq(Text), NEW l \in Text
  PROVE  Last(Append(ls, l)) = l /\ Append(ls, l) # <<>>
BY FrontLast

(* A line that stays as it is when it is split, and lines that end. *)
Line(l) == l \in Text /\ Lines(l) = <<l>>
Ended(ls) == ls = <<>> \/ Last(Last(ls)) = NL

(* Lines, all but the last one of which end. *)
AreLines(ls) ==
  /\ ls \in Seq(Text)
  /\ \A i \in 1..Len(ls) : Line(ls[i]) /\ (i # Len(ls) => Last(ls[i]) = NL)

(* A word more, behind lines that there are. *)
LEMMA LineStepIs ==
  ASSUME NEW ls \in Seq(Text), NEW l \in Text, NEW word
  PROVE  /\ LineStep(<<>>, word) = <<<<word>>>>
         /\ Last(l) = NL => LineStep(Append(ls, l), word) = Append(Append(ls, l), <<word>>)
         /\ Last(l) # NL => LineStep(Append(ls, l), word) = Append(ls, Append(l, word))
<1>1. /\ Front(Append(ls, l)) = ls /\ Last(Append(ls, l)) = l /\ Append(ls, l) # <<>>
  BY FrontLast
<1>2. LineStep(<<>>, word) = Append(<<>>, <<word>>)
  BY DEF LineStep
<1>3. Append(<<>>, <<word>>) = <<<<word>>>>
  OBVIOUS
<1>4. PICK ms : ms = Append(ls, l)
  OBVIOUS
<1>5. LineStep(ms, word) =
        IF Last(l) = NL THEN Append(ms, <<word>>) ELSE Append(ls, Append(l, word))
  BY <1>1, <1>4 DEF LineStep
<1> QED
  BY <1>2, <1>3, <1>4, <1>5

(* Behind a line that ends a word begins another one, ... *)
LEMMA NewLine ==
  ASSUME NEW ls \in Seq(Text), NEW l \in Text, NEW word, Last(l) = NL
  PROVE  LineStep(Append(ls, l), word) = Append(Append(ls, l), <<word>>)
BY LineStepIs

(* ... and one that does not end has a word more. *)
LEMMA SameLine ==
  ASSUME NEW ls \in Seq(Text), NEW l \in Text, NEW word, Last(l) # NL
  PROVE  LineStep(Append(ls, l), word) = Append(ls, Append(l, word))
BY LineStepIs

(* Lines, one more of them. *)
LEMMA AreLinesAppend ==
  ASSUME NEW ls \in Seq(Text), NEW l \in Text
  PROVE  AreLines(Append(ls, l)) <=> AreLines(ls) /\ Ended(ls) /\ Line(l)
<1>1. PICK ms : ms = Append(ls, l)
  OBVIOUS
<1>2. /\ ms \in Seq(Text) /\ Len(ms) = Len(ls) + 1 /\ Len(ls) \in Nat
      /\ ms[Len(ls) + 1] = l /\ \A i \in 1..Len(ls) : ms[i] = ls[i]
  BY <1>1, AppendIs
<1>3. Ended(ls) <=> (Len(ls) # 0 => Last(ls[Len(ls)]) = NL)
  <2>1. ls = <<>> <=> Len(ls) = 0
    BY EmptySeq
  <2> QED
    BY <2>1 DEF Ended, Last
<1>4. ASSUME AreLines(ms) PROVE AreLines(ls) /\ Ended(ls) /\ Line(l)
  <2>1. \A i \in 1..Len(ls) : i \in 1..Len(ms) /\ i # Len(ms)
    BY <1>2
  <2>2. Len(ls) + 1 \in 1..Len(ms) /\ (Len(ls) # 0 => Len(ls) \in 1..Len(ls))
    BY <1>2
  <2>3. \A i \in 1..Len(ls) : Line(ls[i]) /\ Last(ls[i]) = NL
    BY <1>2, <1>4, <2>1 DEF AreLines
  <2>4. Line(l)
    BY <1>2, <1>4, <2>2 DEF AreLines
  <2>5. AreLines(ls)
    BY <2>3 DEF AreLines
  <2> QED
    BY <1>3, <2>2, <2>3, <2>4, <2>5
<1>5. ASSUME AreLines(ls), Ended(ls), Line(l) PROVE AreLines(ms)
  <2>1. ASSUME NEW i \in 1..Len(ms) PROVE Line(ms[i]) /\ (i # Len(ms) => Last(ms[i]) = NL)
    <3>1. CASE i = Len(ms)
      BY <1>2, <1>5, <3>1
    <3>2. CASE i # Len(ms)
      <4>1. i \in 1..Len(ls) /\ ms[i] = ls[i] /\ (i = Len(ls) => Len(ls) # 0)
        BY <1>2, <3>2
      <4> QED
        BY <1>3, <1>5, <4>1 DEF AreLines
    <3> QED
      BY <3>1, <3>2
  <2> QED
    BY <1>2, <2>1 DEF AreLines
<1> QED
  BY <1>1, <1>4, <1>5

(* Lines make a text. *)
LEMMA FlattenType ==
  ASSUME NEW ls \in Seq(Text)
  PROVE  FlattenSeq(ls) \in Seq(Word)
<1> DEFINE T == {ms \in Seq(Text) : FlattenSeq(ms) \in Seq(Word)}
<1>1. <<>> \in T
  <2>1. <<>> \in Seq(Text) /\ <<>> \in Seq(Word)
    OBVIOUS
  <2> QED
    BY <2>1, FlatAppend
<1>2. ASSUME NEW ms \in Seq(Text), NEW l \in Text, ms \in T
      PROVE  Append(ms, l) \in T
  <2>1. Append(ms, l) \in Seq(Text)
    BY AppendProperties
  <2>2. FlattenSeq(Append(ms, l)) = FlattenSeq(ms) \o l
    BY FlatAppend
  <2>3. FlattenSeq(ms) \o l \in Seq(Word)
    BY <1>2, ConcatProperties DEF Text
  <2> QED
    BY <2>1, <2>2, <2>3
<1>3. Seq(Text) \subseteq T
  <2> HIDE DEF T
  <2> QED
    BY <1>1, <1>2, SeqInduction
<1> QED
  BY <1>3

(* A text is split into lines that make it up. *)
LEMMA TextIsLines ==
  ASSUME NEW text \in Text
  PROVE  /\ AreLines(Lines(text)) /\ FlattenSeq(Lines(text)) = text
         /\ Ended(Lines(text)) <=> text = <<>> \/ Last(text) = NL
<1> DEFINE Fine(t) == /\ AreLines(Lines(t)) /\ FlattenSeq(Lines(t)) = t
                      /\ Ended(Lines(t)) <=> t = <<>> \/ Last(t) = NL
           T == {t \in Text : Fine(t)}
<1>1. <<>> \in T
  <2>1. AreLines(<<>>)
    <3>1. <<>> \in Seq(Text) /\ Len(<<>>) = 0
      OBVIOUS
    <3> QED
      BY <3>1 DEF AreLines
  <2>2. Ended(<<>>)
    BY DEF Ended
  <2>3. Lines(<<>>) = <<>> /\ FlattenSeq(<<>>) = <<>> /\ <<>> \in Text
    BY LinesAre, FlatAppend DEF Text
  <2> QED
    BY <2>1, <2>2, <2>3
<1>2. ASSUME NEW t \in Seq(Word), NEW word \in Word, t \in T
      PROVE  Append(t, word) \in T
  <2>1. PICK r : r = Append(t, word)
    OBVIOUS
  <2>2. r \in Text /\ r # <<>> /\ Last(r) = word /\ r = t \o <<word>>
    BY <2>1, FrontLast, AppendIsConcat DEF Text
  <2>3. PICK ls : ls = Lines(t)
    OBVIOUS
  <2>4. /\ AreLines(ls) /\ FlattenSeq(ls) = t /\ (Ended(ls) <=> t = <<>> \/ Last(t) = NL)
        /\ ls \in Seq(Text)
    BY <1>2, <2>3 DEF AreLines
  <2>5. Lines(r) = LineStep(ls, word)
    BY <2>1, <2>3, LinesAre
  <2>6. <<word>> \in Text /\ Last(<<word>>) = word
    BY OneIs DEF Text, Last
  <2>7. CASE Ended(ls)
    <3>1. LineStep(ls, word) = Append(ls, <<word>>)
      BY <2>7 DEF LineStep, Ended
    <3>2. Line(<<word>>)
      <4>1. Lines(<<word>>) = LineStep(Lines(<<>>), word)
        BY OneIs, LinesAre
      <4>2. LineStep(<<>>, word) = <<<<word>>>>
        BY <2>4, <2>6, LineStepIs
      <4> QED
        BY <2>6, <4>1, <4>2, LinesAre DEF Line
    <3>3. AreLines(Append(ls, <<word>>))
      BY <2>4, <2>6, <2>7, <3>2, AreLinesAppend
    <3>4. FlattenSeq(Append(ls, <<word>>)) = r
      BY <2>2, <2>4, <2>6, FlatAppend
    <3>5. Last(Append(ls, <<word>>)) = <<word>> /\ Append(ls, <<word>>) # <<>>
      BY <2>4, <2>6, LastLine
    <3>6. Ended(Append(ls, <<word>>)) <=> Last(r) = NL
      BY <2>2, <2>6, <3>5 DEF Ended
    <3> QED
      BY <2>1, <2>2, <2>5, <3>1, <3>3, <3>4, <3>6
  <2>8. CASE ~Ended(ls)
    <3>1. PICK ms \in Seq(Text), l \in Text : ls = Append(ms, l)
      <4>1. ls # <<>>
        BY <2>8 DEF Ended
      <4> QED
        BY <2>4, <4>1, SequenceEmptyOrAppend
    <3>2. Last(l) # NL
      <4>1. Last(ls) = l
        BY <3>1, LastLine
      <4> QED
        BY <2>8, <4>1 DEF Ended
    <3>3. AreLines(ms) /\ Ended(ms) /\ Line(l)
      BY <2>4, <3>1, AreLinesAppend
    <3>4. PICK k : k = Append(l, word)
      OBVIOUS
    <3>5. k \in Text /\ Last(k) = word /\ k = l \o <<word>>
      BY <3>4, FrontLast, AppendIsConcat DEF Text
    <3>6. LineStep(ls, word) = Append(ms, k)
      BY <3>1, <3>2, <3>4, SameLine
    <3>7. Line(k)
      <4>1. Lines(k) = LineStep(<<l>>, word)
        BY <3>3, <3>4, LinesAre DEF Line, Text
      <4>2. <<l>> = Append(<<>>, l) /\ <<>> \in Seq(Text)
        BY OneIs
      <4>3. LineStep(Append(<<>>, l), word) = Append(<<>>, k)
        BY <3>2, <3>4, <4>2, SameLine
      <4>4. Append(<<>>, k) = <<k>>
        OBVIOUS
      <4> QED
        BY <3>5, <4>1, <4>2, <4>3, <4>4 DEF Line
    <3>8. AreLines(Append(ms, k))
      BY <3>3, <3>5, <3>7, AreLinesAppend
    <3>9. FlattenSeq(Append(ms, k)) = r
      <4>1. FlattenSeq(Append(ms, k)) = FlattenSeq(ms) \o k
        BY <3>5, FlatAppend
      <4>2. t = FlattenSeq(ms) \o l
        BY <2>4, <3>1, FlatAppend
      <4>3. FlattenSeq(ms) \in Seq(Word)
        BY FlattenType
      <4>4. FlattenSeq(ms) \o (l \o <<word>>) = (FlattenSeq(ms) \o l) \o <<word>>
        BY <2>6, <4>3, ConcatAssociative DEF Text
      <4> QED
        BY <2>2, <3>5, <4>1, <4>2, <4>4
    <3>10. Last(Append(ms, k)) = k /\ Append(ms, k) # <<>>
      BY <3>5, LastLine
    <3>11. Ended(Append(ms, k)) <=> Last(r) = NL
      BY <2>2, <3>5, <3>10 DEF Ended
    <3> QED
      BY <2>1, <2>2, <2>5, <3>6, <3>8, <3>9, <3>11
  <2> QED
    BY <2>7, <2>8
<1>3. Seq(Word) \subseteq T
  <2> HIDE DEF T
  <2> QED
    BY <1>1, <1>2, SeqInduction
<1> QED
  BY <1>3 DEF Text

(* Lines of lines: behind a line that ends another one begins. *)
LEMMA LinesOfConcat ==
  ASSUME NEW a \in Text, Ended(Lines(a)), NEW b \in Text
  PROVE  Lines(a \o b) = Lines(a) \o Lines(b)
<1> DEFINE T == {t \in Text : Lines(a \o t) = Lines(a) \o Lines(t)}
<1>1. PICK ls \in Seq(Text) : ls = Lines(a)
  BY TextIsLines DEF AreLines
<1>2. <<>> \in T
  <2>1. a \o <<>> = a /\ ls \o <<>> = ls
    BY <1>1, ConcatEmptySeq DEF Text
  <2>2. <<>> \in Text
    BY DEF Text
  <2> QED
    BY <1>1, <2>1, <2>2, LinesAre
<1>3. ASSUME NEW t \in Seq(Word), NEW word \in Word, t \in T
      PROVE  Append(t, word) \in T
  <2>1. a \in Seq(Word) /\ t \in Text /\ <<word>> \in Seq(Word) /\ <<word>> \in Text
    BY OneIs DEF Text
  <2>2. a \o Append(t, word) = Append(a \o t, word) /\ a \o t \in Seq(Word)
    <3>1. a \o t \in Seq(Word)
      BY <2>1, ConcatProperties
    <3>2. a \o (t \o <<word>>) = (a \o t) \o <<word>>
      BY <2>1, ConcatAssociative
    <3>3. Append(t, word) = t \o <<word>> /\ Append(a \o t, word) = (a \o t) \o <<word>>
      BY <3>1, AppendIsConcat
    <3> QED
      BY <3>1, <3>2, <3>3
  <2>3. PICK ms \in Seq(Text) : ms = Lines(t)
    BY <2>1, TextIsLines DEF AreLines
  <2>4. Lines(a \o Append(t, word)) = LineStep(ls \o ms, word)
    BY <1>1, <1>3, <2>2, <2>3, LinesAre
  <2>5. Lines(Append(t, word)) = LineStep(ms, word)
    BY <2>3, LinesAre
  <2>6. LineStep(ls \o ms, word) = ls \o LineStep(ms, word)
    <3>1. CASE ms = <<>>
      <4>1. ls \o ms = ls /\ Ended(ls)
        BY <1>1, <3>1, ConcatEmptySeq
      <4>2. LineStep(ls, word) = Append(ls, <<word>>)
        BY <4>1 DEF LineStep, Ended
      <4>3. Append(ls, <<word>>) = ls \o <<<<word>>>>
        BY <2>1, AppendIsConcat
      <4>4. LineStep(<<>>, word) = <<<<word>>>>
        BY <2>1, <1>1, LineStepIs
      <4> QED
        BY <3>1, <4>1, <4>2, <4>3, <4>4
    <3>2. CASE ms # <<>>
      <4>1. PICK ns \in Seq(Text), l \in Text : ms = Append(ns, l)
        BY <3>2, SequenceEmptyOrAppend
      <4>2. \A k \in Text : ls \o Append(ns, k) = Append(ls \o ns, k)
        <5> TAKE k \in Text
        <5>1. <<k>> \in Seq(Text) /\ ls \o ns \in Seq(Text)
          BY OneIs, ConcatProperties
        <5>2. ls \o (ns \o <<k>>) = (ls \o ns) \o <<k>>
          BY <5>1, ConcatAssociative
        <5>3. Append(ns, k) = ns \o <<k>> /\ Append(ls \o ns, k) = (ls \o ns) \o <<k>>
          BY <5>1, AppendIsConcat
        <5> QED
          BY <5>2, <5>3
      <4>3. ls \o ms = Append(ls \o ns, l) /\ ls \o ns \in Seq(Text) /\ ls \o ms \in Seq(Text)
        BY <4>1, <4>2, ConcatProperties
      <4> PICK os \in Seq(Text) : os = ls \o ns
        BY <4>3
      <4>4. CASE Last(l) = NL
        <5>1. LineStep(ls \o ms, word) = Append(ls \o ms, <<word>>)
          <6>1. LineStep(Append(os, l), word) = Append(Append(os, l), <<word>>)
            BY <4>4, NewLine
          <6> QED
            BY <4>3, <6>1
        <5>2. LineStep(ms, word) = Append(ms, <<word>>)
          BY <4>1, <4>4, NewLine
        <5>3. Append(ls \o ms, <<word>>) = (ls \o ms) \o <<<<word>>>>
              /\ Append(ms, <<word>>) = ms \o <<<<word>>>>
          BY <2>1, <4>3, AppendIsConcat
        <5>4. <<<<word>>>> \in Seq(Text)
          BY <2>1, OneIs
        <5>5. ls \o (ms \o <<<<word>>>>) = (ls \o ms) \o <<<<word>>>>
          BY <5>4, ConcatAssociative
        <5> QED
          BY <5>1, <5>2, <5>3, <5>5
      <4>5. CASE Last(l) # NL
        <5>1. PICK k \in Text : k = Append(l, word)
          BY FrontLast DEF Text
        <5>2. LineStep(ls \o ms, word) = Append(ls \o ns, k)
          <6>1. LineStep(Append(os, l), word) = Append(os, Append(l, word))
            BY <4>5, SameLine
          <6> QED
            BY <4>3, <5>1, <6>1
        <5>3. LineStep(ms, word) = Append(ns, k)
          BY <4>1, <4>5, <5>1, SameLine
        <5> QED
          BY <4>2, <5>2, <5>3
      <4> QED
        BY <4>4, <4>5
    <3> QED
      BY <3>1, <3>2
  <2>7. Append(t, word) \in Text
    BY AppendProperties DEF Text
  <2> QED
    BY <1>1, <2>4, <2>5, <2>6, <2>7
<1>4. Seq(Word) \subseteq T
  <2> HIDE DEF T
  <2> QED
    BY <1>2, <1>3, SeqInduction
<1> QED
  BY <1>4 DEF Text

(* Lines that are put together are split again. *)
LEMMA LinesOfFlat ==
  ASSUME NEW ls, AreLines(ls)
  PROVE  FlattenSeq(ls) \in Text /\ Lines(FlattenSeq(ls)) = ls
<1> DEFINE T == {ms \in Seq(Text) : AreLines(ms) => Lines(FlattenSeq(ms)) = ms}
<1>1. <<>> \in T
  <2>1. <<>> \in Seq(Text)
    OBVIOUS
  <2> QED
    BY <2>1, FlatAppend, LinesAre
<1>2. ASSUME NEW ms \in Seq(Text), NEW l \in Text, ms \in T
      PROVE  Append(ms, l) \in T
  <2>1. Append(ms, l) \in Seq(Text)
    BY AppendProperties
  <2>2. ASSUME AreLines(Append(ms, l)) PROVE Lines(FlattenSeq(Append(ms, l))) = Append(ms, l)
    <3>1. AreLines(ms) /\ Ended(ms) /\ Line(l)
      BY <2>2, AreLinesAppend
    <3>2. PICK a \in Text : a = FlattenSeq(ms)
      BY FlattenType DEF Text
    <3>3. Lines(a) = ms /\ FlattenSeq(Append(ms, l)) = a \o l
      BY <1>2, <3>1, <3>2, FlatAppend
    <3>4. Lines(a \o l) = ms \o <<l>>
      BY <3>1, <3>3, LinesOfConcat DEF Line
    <3> QED
      BY <3>3, <3>4, AppendIsConcat
  <2> QED
    BY <2>1, <2>2
<1>3. Seq(Text) \subseteq T
  <2> HIDE DEF T
  <2> QED
    BY <1>1, <1>2, SeqInduction
<1> QED
  BY <1>3, FlattenType DEF AreLines, Text

(* Lines behind lines. *)
LEMMA FlatConcat ==
  ASSUME NEW a \in Seq(Text), NEW b \in Seq(Text)
  PROVE  FlattenSeq(a \o b) = FlattenSeq(a) \o FlattenSeq(b)
<1> DEFINE T == {ms \in Seq(Text) : FlattenSeq(a \o ms) = FlattenSeq(a) \o FlattenSeq(ms)}
<1>1. <<>> \in T
  <2>1. <<>> \in Seq(Text) /\ a \o <<>> = a
    BY ConcatEmptySeq
  <2>2. FlattenSeq(a) \o <<>> = FlattenSeq(a)
    BY FlattenType, ConcatEmptySeq
  <2> QED
    BY <2>1, <2>2, FlatAppend
<1>2. ASSUME NEW ms \in Seq(Text), NEW l \in Text, ms \in T
      PROVE  Append(ms, l) \in T
  <2>1. Append(ms, l) \in Seq(Text) /\ a \o ms \in Seq(Text) /\ <<l>> \in Seq(Text)
    BY AppendProperties, ConcatProperties, OneIs
  <2>2. a \o Append(ms, l) = Append(a \o ms, l)
    <3>1. a \o (ms \o <<l>>) = (a \o ms) \o <<l>>
      BY <2>1, ConcatAssociative
    <3>2. Append(ms, l) = ms \o <<l>> /\ Append(a \o ms, l) = (a \o ms) \o <<l>>
      BY <2>1, AppendIsConcat
    <3> QED
      BY <3>1, <3>2
  <2>3. FlattenSeq(Append(a \o ms, l)) = FlattenSeq(a \o ms) \o l
    BY <2>1, FlatAppend
  <2>4. FlattenSeq(Append(ms, l)) = FlattenSeq(ms) \o l
    BY FlatAppend
  <2>5. FlattenSeq(a) \o (FlattenSeq(ms) \o l) = (FlattenSeq(a) \o FlattenSeq(ms)) \o l
    <3>1. FlattenSeq(a) \in Text /\ FlattenSeq(ms) \in Text
      BY FlattenType DEF Text
    <3>2. Associates(FlattenSeq(a), FlattenSeq(ms), l)
      BY <3>1, ThreeTexts
    <3> QED
      BY <3>2 DEF Associates
  <2> QED
    BY <1>2, <2>1, <2>2, <2>3, <2>4, <2>5
<1>3. Seq(Text) \subseteq T
  <2> HIDE DEF T
  <2> QED
    BY <1>1, <1>2, SeqInduction
<1> QED
  BY <1>3

(* Some of the lines of a text. *)
LEMMA SomeLines ==
  ASSUME NEW ls, AreLines(ls), NEW m \in Nat \ {0}, NEW n \in Nat, n <= Len(ls)
  PROVE  /\ AreLines(SubSeq(ls, m, n))
         /\ n # Len(ls) => Ended(SubSeq(ls, m, n))
         /\ m <= n => /\ Len(SubSeq(ls, m, n)) = n - m + 1
                      /\ Last(SubSeq(ls, m, n)) = ls[n] /\ SubSeq(ls, m, n) # <<>>
         /\ n < m => SubSeq(ls, m, n) = <<>>
         /\ \A i \in 1..n - m + 1 : SubSeq(ls, m, n)[i] = ls[m + i - 1]
<1>1. ls \in Seq(Text) /\ Len(ls) \in Nat
  BY LenProperties DEF AreLines
<1>2. PICK ms : ms = SubSeq(ls, m, n)
  OBVIOUS
<1>3. \A i \in m..n : i \in 1..Len(ls) /\ ls[i] \in Text
  <2>1. \A i \in m..n : i \in 1..Len(ls)
    BY <1>1
  <2> QED
    BY <1>1, <2>1, ElementOfSeq
<1>4. /\ ms \in Seq(Text) /\ Len(ms) = IF m <= n THEN n - m + 1 ELSE 0
      /\ \A i \in 1..n - m + 1 : ms[i] = ls[m + i - 1]
  <2>1. m \in Int /\ n \in Int
    OBVIOUS
  <2> QED
    BY <1>2, <1>3, <2>1, SubSeqProperties
<1>5. ASSUME n < m PROVE ms = <<>>
  BY <1>2, <1>5, SubSeqEmpty
<1>6. ASSUME NEW i \in 1..Len(ms)
      PROVE  /\ i \in 1..n - m + 1 /\ m + i - 1 \in 1..Len(ls) /\ (i # Len(ms) => m + i - 1 # Len(ls))
             /\ (n # Len(ls) => m + i - 1 # Len(ls))
  BY <1>1, <1>4
<1>7. AreLines(ms)
  BY <1>4, <1>6 DEF AreLines
<1>8. ASSUME m <= n PROVE Len(ms) = n - m + 1 /\ Last(ms) = ls[n] /\ ms # <<>>
  <2>1. Len(ms) = n - m + 1 /\ n - m + 1 \in 1..n - m + 1 /\ m + (n - m + 1) - 1 = n
    BY <1>4, <1>8
  <2>2. ms[n - m + 1] = ls[n]
    BY <1>4, <2>1
  <2>3. ms # <<>>
    BY <2>1
  <2> QED
    BY <2>1, <2>2, <2>3 DEF Last
<1>9. ASSUME n # Len(ls) PROVE Ended(ms)
  <2>1. CASE n < m
    BY <1>5, <2>1 DEF Ended
  <2>2. CASE m <= n
    <3>1. n \in 1..Len(ls)
      BY <1>3, <2>2
    <3>2. Last(ls[n]) = NL
      BY <1>9, <3>1 DEF AreLines
    <3> QED
      BY <1>8, <2>2, <3>2 DEF Ended
  <2> QED
    BY <2>1, <2>2
<1> QED
  BY <1>2, <1>4, <1>5, <1>7, <1>8, <1>9

(* The lines of a text, as they are numbered. *)
LEMMA LinesType ==
  ASSUME NEW text \in Text
  PROVE  /\ Lines(text) \in Seq(Text) /\ Len(Lines(text)) \in Nat
         /\ DOMAIN Lines(text) = 1..Len(Lines(text))
BY TextIsLines, LenProperties DEF AreLines

(* One line of a file, as read_file shows it. *)
LEMMA ShownIs ==
  ASSUME NEW text \in Text, NEW n \in DOMAIN Lines(text)
  PROVE  Numbered(text, n, 1) = {<<n, Lines(text)[n]>>}
<1>1. \A k \in DOMAIN Lines(text) : k \in Nat
  BY LinesType
<1>2. {k \in DOMAIN Lines(text) : k >= n /\ k < n + 1} = {n}
  BY <1>1
<1> QED
  BY <1>2 DEF Numbered

(* A text whose last line ends. *)
LEMMA TerminatedIs ==
  ASSUME NEW text \in Text
  PROVE  Terminated(text) \in Text /\ Ended(Lines(Terminated(text)))
<1>1. CASE text = <<>> \/ Last(text) = NL
  <2>1. Terminated(text) = text
    BY <1>1 DEF Terminated
  <2> QED
    BY <1>1, <2>1, TextIsLines
<1>2. CASE ~(text = <<>> \/ Last(text) = NL)
  <2>1. PICK t : t = Append(text, NL)
    OBVIOUS
  <2>2. t \in Text /\ Last(t) = NL
    BY <2>1, FrontLast, FileToolsAssumption DEF Text
  <2>3. Terminated(text) = t
    BY <1>2, <2>1 DEF Terminated
  <2> QED
    BY <2>2, <2>3, TextIsLines
<1> QED
  BY <1>1, <1>2

(* The lesser of two numbers. *)
LEMMA MinIs ==
  ASSUME NEW a \in Nat, NEW b \in Nat
  PROVE  Min({a, b}) = IF a <= b THEN a ELSE b
BY DEF Min

(* The lines of a text are some lines and, numbered on, those of the rest. *)
GoOn(text, ls, rest) ==
  /\ text \in Text
  /\ \A i \in 1..Len(ls) : i \in DOMAIN Lines(text) /\ Lines(text)[i] = ls[i]
  /\ \A i \in DOMAIN Lines(rest) :
       Len(ls) + i \in DOMAIN Lines(text) /\ Lines(text)[Len(ls) + i] = Lines(rest)[i]

(* Behind lines that end, the lines of whatever follows are numbered on. *)
LEMMA NumbersGoOn ==
  ASSUME NEW ls, AreLines(ls), Ended(ls), NEW rest \in Text
  PROVE  GoOn(FlattenSeq(ls) \o rest, ls, rest)
<1>1. PICK a \in Text : a = FlattenSeq(ls)
  BY LinesOfFlat
<1>2. PICK ms \in Seq(Text) : ms = Lines(rest) /\ DOMAIN ms = 1..Len(ms) /\ Len(ms) \in Nat
  BY LinesType
<1>3. PICK all : all = Lines(a \o rest)
  OBVIOUS
<1>4. a \o rest \in Text
  BY ConcatProperties DEF Text
<1>5. all = ls \o ms
  <2>1. Lines(a) = ls
    BY <1>1, LinesOfFlat
  <2>2. Lines(a \o rest) = Lines(a) \o Lines(rest)
    <3>1. Ended(Lines(a))
      BY <2>1
    <3> QED
      BY <3>1, LinesOfConcat
  <2> QED
    BY <1>2, <1>3, <2>1, <2>2
<1>6. ls \in Seq(Text)
  BY DEF AreLines
<1>7. /\ Len(all) = Len(ls) + Len(ms) /\ Len(ls) \in Nat
      /\ \A i \in 1..Len(ls) : all[i] = ls[i]
      /\ \A i \in 1..Len(ms) : all[Len(ls) + i] = ms[i]
  BY <1>5, <1>6, ConcatIs
<1>8. DOMAIN all = 1..Len(all)
  BY <1>3, <1>4, LinesType
<1>9. /\ \A i \in 1..Len(ls) : i \in DOMAIN all
      /\ \A i \in 1..Len(ms) : Len(ls) + i \in DOMAIN all
  BY <1>2, <1>7, <1>8
<1> QED
  BY <1>1, <1>2, <1>3, <1>4, <1>5, <1>7, <1>9 DEF GoOn

(* Lines, and the text they are, from among others. *)
Part(ls, m, n, a, x) ==
  /\ a \in Seq(Text) /\ x \in Text
  /\ a = SubSeq(ls, m, n) /\ AreLines(a) /\ x = FlattenSeq(a) /\ Lines(x) = a
  /\ n # Len(ls) => Ended(a)
  /\ m <= n => Len(a) = n - m + 1 /\ Last(a) = ls[n]
  /\ n < m => a = <<>>
  /\ \A i \in 1..n - m + 1 : a[i] = ls[m + i - 1]

(* Some of the lines of a text, one after the other. *)
LEMMA PartIs ==
  ASSUME NEW ls, AreLines(ls), NEW m \in Nat \ {0}, NEW n \in Nat, n <= Len(ls)
  PROVE  \E a, x : Part(ls, m, n, a, x)
<1>1. PICK a : a = SubSeq(ls, m, n)
  OBVIOUS
<1>2. /\ AreLines(a)
      /\ n # Len(ls) => Ended(a)
      /\ m <= n => Len(a) = n - m + 1 /\ Last(a) = ls[n]
      /\ n < m => a = <<>>
      /\ \A i \in 1..n - m + 1 : a[i] = ls[m + i - 1]
  BY <1>1, SomeLines
<1>3. PICK x \in Text : x = FlattenSeq(a) /\ Lines(x) = a
  BY <1>2, LinesOfFlat
<1>4. a \in Seq(Text)
  BY <1>2 DEF AreLines
<1>5. Part(ls, m, n, a, x)
  BY <1>1, <1>2, <1>3, <1>4 DEF Part
<1> QED
  BY <1>5

(* What an edit makes of the lines of a text. *)
LEMMA EditedIs ==
  ASSUME NEW text \in Text, NEW start \in Nat \ {0}, NEW stop \in Nat \ {0}, start <= stop,
         NEW new \in Text
  PROVE  LET before == Lines(text)
             after == Lines(Edited(text, start, stop, new))
             added == Len(Lines(Terminated(new))) - (stop - start)
         IN  /\ Edited(text, start, stop, new) \in Text
             /\ \A n \in DOMAIN before :
                  /\ n < start /\ Last(before[n]) = NL =>
                       n \in DOMAIN after /\ after[n] = before[n]
                  /\ n >= stop => n + added \in DOMAIN after /\ after[n + added] = before[n]
<1>1. PICK ls \in Seq(Text) :
        /\ ls = Lines(text) /\ AreLines(ls) /\ Len(ls) \in Nat /\ DOMAIN ls = 1..Len(ls)
  BY TextIsLines, LinesType
<1>2. PICK t \in Text : t = Terminated(new) /\ Ended(Lines(t)) /\ AreLines(Lines(t))
  BY TerminatedIs, TextIsLines
<1>3. PICK m \in Nat : m = Min({start - 1, Len(ls)}) /\ m <= Len(ls) /\ m <= start - 1
                       /\ (m = start - 1 \/ m = Len(ls))
  <2>1. PICK i \in Nat, k \in Nat : i = start - 1 /\ k = Len(ls)
    <3>1. start - 1 \in Nat
      OBVIOUS
    <3> QED
      BY <1>1, <3>1
  <2>2. Min({i, k}) = IF i <= k THEN i ELSE k
    BY MinIs
  <2>3. Min({i, k}) \in Nat /\ Min({i, k}) <= k /\ Min({i, k}) <= i
        /\ (Min({i, k}) = i \/ Min({i, k}) = k)
    BY <2>2
  <2> QED
    BY <2>1, <2>3
<1>4. PICK a, x : Part(ls, 1, m, a, x)
  <2>1. 1 \in Nat \ {0} /\ m \in Nat /\ m <= Len(ls) /\ AreLines(ls)
    BY <1>1, <1>3
  <2> QED
    BY <2>1, PartIs
<1>5. PICK b, y : Part(ls, stop, Len(ls), b, y)
  <2>1. Len(ls) \in Nat /\ Len(ls) <= Len(ls) /\ AreLines(ls)
    BY <1>1
  <2> QED
    BY <2>1, PartIs
<1>6. x \in Text /\ y \in Text
  BY <1>4, <1>5 DEF Part
<1>7. PICK z \in Text : z = t \o y
  <2>1. t \o y \in Text
    BY <1>2, <1>6, TwoTexts
  <2> QED
    BY <2>1
<1>8. z \in Text
  BY <1>7
<1>9. PICK r : r = Edited(text, start, stop, new)
  OBVIOUS
<1>10. r = x \o z
  <2>1. r = (x \o t) \o y
    BY <1>1, <1>2, <1>3, <1>4, <1>5, <1>9 DEF Edited, Part
  <2>2. Associates(x, t, y)
    BY <1>2, <1>6, ThreeTexts
  <2> QED
    BY <1>7, <2>1, <2>2 DEF Associates
<1>11. r \in Text
  BY <1>6, <1>8, <1>10, TwoTexts
<1>12. ASSUME NEW n \in DOMAIN ls, n < start, Last(ls[n]) = NL
       PROVE  n \in DOMAIN Lines(r) /\ Lines(r)[n] = ls[n]
  <2>1. n \in Nat /\ n # 0 /\ n <= m /\ n <= Len(ls)
    BY <1>1, <1>3, <1>12
  <2>2. PICK c, u : Part(ls, 1, n, c, u)
    <3>1. 1 \in Nat \ {0} /\ n \in Nat /\ n <= Len(ls) /\ AreLines(ls)
      BY <1>1, <2>1
    <3> QED
      BY <3>1, PartIs
  <2>3. Ended(c)
    BY <1>12, <2>1, <2>2 DEF Ended, Part
  <2>4. PICK d, v : Part(ls, n + 1, m, d, v)
    <3>1. n + 1 \in Nat \ {0} /\ m \in Nat /\ m <= Len(ls) /\ AreLines(ls)
      BY <1>1, <1>3, <2>1
    <3> QED
      BY <3>1, PartIs
  <2>6. u \in Text /\ v \in Text
    BY <2>2, <2>4 DEF Part
  <2>5. a = c \o d
    <3>1. 1 \in 1..Len(ls) + 1 /\ n \in 1 - 1..Len(ls) /\ m \in n..Len(ls)
      BY <1>1, <1>3, <2>1
    <3>2. SubSeq(ls, 1, n) \o SubSeq(ls, n + 1, m) = SubSeq(ls, 1, m)
      BY <1>1, <3>1, ConcatAdjacentSubSeq
    <3> QED
      BY <1>4, <2>2, <2>4, <3>2 DEF Part
  <2>7. x = u \o v
    <3>1. c \in Seq(Text) /\ d \in Seq(Text) /\ u = FlattenSeq(c) /\ v = FlattenSeq(d)
      BY <2>2, <2>4 DEF Part
    <3>2. FlattenSeq(c \o d) = FlattenSeq(c) \o FlattenSeq(d)
      BY <3>1, FlatConcat
    <3>3. x = FlattenSeq(a)
      BY <1>4 DEF Part
    <3> QED
      BY <2>5, <3>1, <3>2, <3>3
  <2>8. PICK w \in Text : w = v \o z
    <3>1. v \o z \in Text
      BY <1>8, <2>6, TwoTexts
    <3> QED
      BY <3>1
  <2>9. r = u \o w
    <3>1. Associates(u, v, z)
      BY <1>8, <2>6, ThreeTexts
    <3> QED
      BY <1>10, <2>7, <2>8, <3>1 DEF Associates
  <2>10. n \in 1..Len(c) /\ c[n] = ls[n]
    <3>1. Len(c) = n - 1 + 1 /\ \A i \in 1..n - 1 + 1 : c[i] = ls[1 + i - 1]
      BY <2>1, <2>2 DEF Part
    <3>2. n - 1 + 1 = n /\ 1 + n - 1 = n
      BY <2>1
    <3>3. n \in 1..n
      BY <2>1
    <3> QED
      BY <3>1, <3>2, <3>3
  <2>11. GoOn(u \o w, c, w)
    BY <2>2, <2>3, <2>8, NumbersGoOn DEF Part
  <2> QED
    BY <2>9, <2>10, <2>11 DEF GoOn
<1>13. PICK added \in Int : added = Len(Lines(t)) - (stop - start)
  <2>1. Len(Lines(t)) \in Nat
    BY <1>2, LinesType
  <2>2. Len(Lines(t)) - (stop - start) \in Int
    BY <2>1
  <2> QED
    BY <2>2
<1>14. ASSUME NEW n \in DOMAIN ls, n >= stop
       PROVE  n + added \in DOMAIN Lines(r) /\ Lines(r)[n + added] = ls[n]
  <2>1. n \in Nat /\ stop <= n /\ n <= Len(ls) /\ m = start - 1 /\ m # Len(ls)
    BY <1>1, <1>3, <1>14
  <2>2. Ended(a) /\ Len(a) = m
    <3>1. m < 1 => m = 0
      BY <1>3
    <3>2. Len(<<>>) = 0
      OBVIOUS
    <3>3. 1 <= m => m - 1 + 1 = m
      BY <1>3
    <3>4. m < 1 \/ 1 <= m
      BY <1>3
    <3> QED
      BY <1>4, <2>1, <3>1, <3>2, <3>3, <3>4 DEF Part
  <2>3. PICK k \in Nat : k = Len(Lines(t))
    BY LinesType
  <2>4. PICK i \in Nat : i = n - stop + 1
    BY <2>1
  <2>5. i \in 1..Len(ls) - stop + 1 /\ stop + i - 1 = n /\ i \in 1..Len(b)
    <3>1. Len(b) = Len(ls) - stop + 1
      BY <1>1, <1>5, <2>1 DEF Part
    <3> QED
      BY <1>1, <2>1, <2>4, <3>1
  <2>6. i \in DOMAIN Lines(y) /\ Lines(y)[i] = ls[n]
    <3>1. b[i] = ls[stop + i - 1]
      BY <1>5, <2>5 DEF Part
    <3>2. i \in DOMAIN b /\ Lines(y) = b
      BY <1>5, <1>6, <2>5, LinesType DEF Part
    <3> QED
      BY <2>5, <3>1, <3>2
  <2>7. k + i \in DOMAIN Lines(z) /\ Lines(z)[k + i] = ls[n]
    <3>1. PICK ts : ts = Lines(t) /\ AreLines(ts) /\ Ended(ts) /\ FlattenSeq(ts) = t /\ Len(ts) = k
      BY <1>2, <2>3, TextIsLines
    <3>2. GoOn(FlattenSeq(ts) \o y, ts, y)
      BY <1>6, <3>1, NumbersGoOn
    <3> QED
      BY <1>7, <2>6, <3>1, <3>2 DEF GoOn
  <2>8. m + (k + i) \in DOMAIN Lines(r) /\ Lines(r)[m + (k + i)] = ls[n]
    <3>1. GoOn(FlattenSeq(a) \o z, a, z)
      BY <1>4, <1>7, <2>2, NumbersGoOn DEF Part
    <3>2. GoOn(r, a, z)
      BY <1>4, <1>10, <3>1 DEF Part
    <3> QED
      BY <2>2, <2>7, <3>2 DEF GoOn
  <2>9. n + added = m + (k + i)
    <3>1. n \in Int /\ k \in Int /\ start \in Int /\ stop \in Int
      BY <2>1
    <3>2. \A j \in Int, h \in Int, from \in Int, to \in Int :
            j + (h - (to - from)) = (from - 1) + (h + (j - to + 1))
      OBVIOUS
    <3>3. n + (k - (stop - start)) = (start - 1) + (k + (n - stop + 1))
      BY <3>1, <3>2
    <3> QED
      BY <1>13, <2>1, <2>3, <2>4, <3>3
  <2> QED
    BY <2>8, <2>9
<1> QED
  BY <1>1, <1>2, <1>9, <1>11, <1>12, <1>13, <1>14

-----------------------------------------------------------------------------
(* The session: the mutex its context is built under is held by the call   *)
(* that asks the client for its roots, by nobody else, and only as long as *)
(* there is no context.  Whatever the tools make of the files, none of     *)
(* them touches the session.                                               *)

(* The records of the calls, as far as the context is concerned. *)
CallTypes ==
  /\ call = [c \in Caller |-> call[c]]
  /\ \A c \in Caller : DOMAIN call[c] = DOMAIN IDLE /\ call[c].tool \in Tools \union {"none"}

(* Who asks for the roots holds the mutex, and until they are known there  *)
(* is no context; whoever has one has the session's.                       *)
ContextInv ==
  /\ CallTypes
  /\ lock # NOWHERE => lock \in Caller /\ call[lock].at = "roots" /\ cell = NOWHERE
  /\ \A c \in Caller :
       /\ call[c].at = "roots" => lock = c
       /\ call[c].context \in {NOWHERE, cell}

(* The fields every call has. *)
LEMMA IdleFields ==
  /\ {"at", "tool", "path", "target", "context", "start", "stop", "text", "include"}
       \subseteq DOMAIN IDLE
  /\ IDLE.at = "idle" /\ IDLE.tool = "none" /\ IDLE.context = NOWHERE
BY DEF IDLE

(* A record with some fields changed has the same fields, these as they    *)
(* are changed and the others as they were.                                *)
LEMMA WithIs ==
  ASSUME NEW record, NEW changed
  PROVE  /\ DOMAIN With(record, changed) = DOMAIN record
         /\ \A field \in DOMAIN record :
              With(record, changed)[field] =
                IF field \in DOMAIN changed THEN changed[field] ELSE record[field]
BY DEF With

(* A call that goes on changes itself alone. *)
LEMMA GoesIs ==
  ASSUME CallTypes, NEW c \in Caller, NEW changed, Goes(c, changed)
  PROVE  /\ call' = [d \in Caller |-> call'[d]]
         /\ call'[c] = With(call[c], changed)
         /\ \A d \in Caller : d # c => call'[d] = call[d]
<1>1. call' = [call EXCEPT ![c] = With(call[c], changed)]
  BY DEF Goes
<1>2. call = [d \in Caller |-> call[d]]
  BY DEF CallTypes
<1> QED
  BY <1>1, <1>2

(* What a call has after it went on. *)
LEMMA FieldsAre ==
  ASSUME CallTypes, NEW c \in Caller, NEW changed, Goes(c, changed)
  PROVE  /\ DOMAIN call'[c] = DOMAIN IDLE
         /\ call'[c].at = IF "at" \in DOMAIN changed THEN changed.at ELSE call[c].at
         /\ call'[c].tool = IF "tool" \in DOMAIN changed THEN changed.tool ELSE call[c].tool
         /\ call'[c].context =
              IF "context" \in DOMAIN changed THEN changed.context ELSE call[c].context
<1>1. DOMAIN call[c] = DOMAIN IDLE
  BY DEF CallTypes
<1>2. call'[c] = With(call[c], changed)
  BY GoesIs
<1> QED
  BY <1>1, <1>2, WithIs, IdleFields

(* The tool of a call is the one that was asked for. *)
LEMMA TypesKept ==
  ASSUME CallTypes, NEW c \in Caller, NEW changed, Goes(c, changed), "tool" \notin DOMAIN changed
  PROVE  CallTypes'
<1>1. call[c].tool \in Tools \union {"none"} /\ call'[c].tool = call[c].tool
  BY FieldsAre DEF CallTypes
<1>2. DOMAIN call'[c] = DOMAIN IDLE
  BY FieldsAre
<1>3. /\ call' = [d \in Caller |-> call'[d]]
      /\ \A d \in Caller : d # c => call'[d] = call[d]
  BY GoesIs
<1>4. ASSUME NEW d \in Caller
      PROVE  DOMAIN call'[d] = DOMAIN IDLE /\ call'[d].tool \in Tools \union {"none"}
  <2>1. CASE d = c
    BY <1>1, <1>2, <2>1
  <2>2. CASE d # c
    BY <1>3, <2>2 DEF CallTypes
  <2> QED
    BY <2>1, <2>2
<1>5. (DOMAIN IDLE)' = DOMAIN IDLE
  BY DEF IDLE
<1> QED
  BY <1>3, <1>4, <1>5 DEF CallTypes

(* What most steps do: the call goes on, without a word of its context,    *)
(* and the session stays as it is.                                         *)
Changing(c, changed) ==
  /\ Goes(c, changed)
  /\ "tool" \notin DOMAIN changed /\ "context" \notin DOMAIN changed
  /\ "at" \in DOMAIN changed => changed.at # "roots"

Quiet(c) == UNCHANGED session /\ call[c].at # "roots" /\ \E changed : Changing(c, changed)

(* No such step disturbs what the calls agree on. *)
LEMMA QuietKeeps ==
  ASSUME ContextInv, NEW c \in Caller, Quiet(c)
  PROVE  ContextInv'
<1> PICK changed : Changing(c, changed)
  BY DEF Quiet
<1>1. CallTypes'
  BY TypesKept DEF Changing, ContextInv
<1>2. call'[c].at # "roots" /\ call'[c].context = call[c].context
  BY FieldsAre DEF Quiet, Changing, ContextInv
<1>3. \A d \in Caller : d # c => call'[d] = call[d]
  BY GoesIs DEF Changing, ContextInv
<1>4. lock' = lock /\ cell' = cell /\ call[c].at # "roots"
  BY DEF Quiet, session
<1>5. ASSUME NEW d \in Caller
      PROVE  (call'[d].at = "roots" => lock' = d) /\ call'[d].context \in {NOWHERE, cell'}
  <2>1. CASE d = c
    BY <1>2, <1>4, <2>1 DEF ContextInv
  <2>2. CASE d # c
    BY <1>3, <1>4, <2>2 DEF ContextInv
  <2> QED
    BY <2>1, <2>2
<1>6. lock' # NOWHERE => lock' \in Caller /\ call'[lock'].at = "roots" /\ cell' = NOWHERE
  <2> SUFFICES ASSUME lock # NOWHERE
               PROVE  lock \in Caller /\ call'[lock].at = "roots" /\ cell = NOWHERE
    BY <1>4
  <2>1. lock \in Caller /\ call[lock].at = "roots" /\ cell = NOWHERE
    BY DEF ContextInv
  <2> QED
    BY <1>3, <1>4, <2>1
<1> QED
  BY <1>1, <1>5, <1>6 DEF ContextInv

(* A call goes on to another place in the code, ... *)
LEMMA GoesIsQuiet ==
  ASSUME NEW c \in Caller, NEW changed, Goes(c, changed), UNCHANGED session,
         call[c].at # "roots", NEW at, at # "roots",
         "at" \in DOMAIN changed => changed.at = at,
         "tool" \notin DOMAIN changed /\ "context" \notin DOMAIN changed
  PROVE  Quiet(c)
<1>1. Changing(c, changed)
  BY DEF Changing
<1> QED
  BY <1>1 DEF Quiet

(* ... or ends. *)
LEMMA EndsIsQuiet ==
  ASSUME NEW c \in Caller, NEW result, Ends(c, result), UNCHANGED session,
         call[c].at # "roots"
  PROVE  Quiet(c)
<1>1. PICK changed : changed = [at |-> "done", ok |-> result]
  OBVIOUS
<1>2. Goes(c, changed)
  BY <1>1 DEF Ends
<1>3. "tool" \notin DOMAIN changed /\ "context" \notin DOMAIN changed /\ changed.at = "done"
  BY <1>1
<1> QED
  BY <1>2, <1>3, GoesIsQuiet

-----------------------------------------------------------------------------
(* The session gets its context *)

(* Nobody asks for the roots while the mutex is free. *)
LEMMA FreeMeansNobody ==
  ASSUME ContextInv, lock = NOWHERE
  PROVE  \A c \in Caller : call[c].at # "roots"
BY FileToolsAssumption DEF ContextInv

(* A call gets the context: the one there is, or one it has built where    *)
(* there was none, so that no other call has another.                      *)
LEMMA HasContextKeeps ==
  ASSUME ContextInv, NEW c \in Caller, NEW context, HasContext(c, context),
         cell' = context, lock' = NOWHERE,
         cell = NOWHERE \/ cell = context,
         \A d \in Caller : d # c => call[d].at # "roots"
  PROVE  ContextInv'
<1> DEFINE changed == [at |-> "resolve", context |-> context]
<1>1. Goes(c, changed)
  BY DEF HasContext
<1>2. /\ "tool" \notin DOMAIN changed /\ "context" \in DOMAIN changed /\ "at" \in DOMAIN changed
      /\ changed.at = "resolve" /\ changed.context = context
  OBVIOUS
<1> HIDE DEF changed
<1>3. CallTypes'
  BY <1>1, <1>2, TypesKept DEF ContextInv
<1>4. call'[c].at = "resolve" /\ call'[c].context = context
  BY <1>1, <1>2, FieldsAre DEF ContextInv
<1>5. \A d \in Caller : d # c => call'[d] = call[d]
  BY <1>1, GoesIs DEF ContextInv
<1>6. ASSUME NEW d \in Caller
      PROVE  call'[d].at # "roots" /\ call'[d].context \in {NOWHERE, cell'}
  <2>1. CASE d = c
    BY <1>4, <2>1
  <2>2. CASE d # c
    <3>1. call[d].context \in {NOWHERE, cell}
      BY DEF ContextInv
    <3> QED
      BY <1>5, <2>2, <3>1
  <2> QED
    BY <2>1, <2>2
<1> QED
  BY <1>3, <1>6 DEF ContextInv

(* Who finds a context takes it. *)
LEMMA TakesKeeps ==
  ASSUME ContextInv, NEW c \in Caller, TakesContext(c)
  PROVE  ContextInv'
<1>1. HasContext(c, cell) /\ lock = NOWHERE /\ cell' = cell /\ lock' = NOWHERE
  BY DEF TakesContext, session
<1>2. \A d \in Caller : call[d].at # "roots"
  BY <1>1, FreeMeansNobody
<1> DEFINE context == cell
<1>3. HasContext(c, context) /\ cell' = context /\ cell = context
  BY <1>1
<1> HIDE DEF context
<1> QED
  BY <1>1, <1>2, <1>3, HasContextKeeps

(* The header's root will do. *)
LEMMA BuildsKeeps ==
  ASSUME ContextInv, NEW c \in Caller, BuildsFromHeader(c)
  PROVE  ContextInv'
<1>1. Builds(c, header) /\ lock = NOWHERE /\ cell = NOWHERE /\ lock' = NOWHERE
  BY DEF BuildsFromHeader
<1>2. PICK context : context = Context(tree, Walk(tree, header))
  OBVIOUS
<1>3. HasContext(c, context) /\ cell' = context
  BY <1>1, <1>2 DEF Builds
<1>4. \A d \in Caller : call[d].at # "roots"
  BY <1>1, FreeMeansNobody
<1> QED
  BY <1>1, <1>3, <1>4, HasContextKeeps

(* The client is asked, and the mutex stays with who asks. *)
LEMMA AsksKeeps ==
  ASSUME ContextInv, NEW c \in Caller, AsksRoots(c)
  PROVE  ContextInv'
<1> DEFINE changed == [at |-> "roots"]
<1>1. /\ Goes(c, changed) /\ lock = NOWHERE /\ cell = NOWHERE
      /\ lock' = c /\ cell' = NOWHERE
  BY DEF AsksRoots, NeedsRoots
<1>2. /\ "tool" \notin DOMAIN changed /\ "context" \notin DOMAIN changed
      /\ "at" \in DOMAIN changed /\ changed.at = "roots"
  OBVIOUS
<1> HIDE DEF changed
<1>3. CallTypes'
  BY <1>1, <1>2, TypesKept DEF ContextInv
<1>4. call'[c].at = "roots" /\ call'[c].context = call[c].context
  BY <1>1, <1>2, FieldsAre DEF ContextInv
<1>5. \A d \in Caller : d # c => call'[d] = call[d]
  BY <1>1, GoesIs DEF ContextInv
<1>6. \A d \in Caller : call[d].at # "roots"
  BY <1>1, FreeMeansNobody
<1>7. ASSUME NEW d \in Caller
      PROVE  (call'[d].at = "roots" => lock' = d) /\ call'[d].context \in {NOWHERE, cell'}
  <2>1. call[d].context \in {NOWHERE, cell}
    BY DEF ContextInv
  <2>2. CASE d = c
    BY <1>1, <1>4, <2>1, <2>2
  <2>3. CASE d # c
    BY <1>1, <1>5, <1>6, <2>1, <2>3
  <2> QED
    BY <2>2, <2>3
<1> QED
  BY <1>1, <1>3, <1>4, <1>7 DEF ContextInv

(* The client has answered, and the mutex is free again. *)
LEMMA RootsKeep ==
  ASSUME ContextInv, NEW c \in Caller, NEW root, RootsArrive(c, root)
  PROVE  ContextInv'
<1>1. call[c].at = "roots" /\ lock = c /\ lock # NOWHERE /\ cell = NOWHERE /\ lock' = NOWHERE
  BY FileToolsAssumption DEF RootsArrive, ContextInv
<1>2. \A d \in Caller : d # c => call[d].at # "roots"
  BY <1>1 DEF ContextInv
<1>3. CASE Builds(c, root)
  <2>1. PICK context : context = Context(tree, Walk(tree, root))
    OBVIOUS
  <2>2. HasContext(c, context) /\ cell' = context
    BY <1>3, <2>1 DEF Builds
  <2> QED
    BY <1>1, <1>2, <2>2, HasContextKeeps
<1>4. CASE Ends(c, FALSE) /\ UNCHANGED cell
  <2> DEFINE changed == [at |-> "done", ok |-> FALSE]
  <2>1. Goes(c, changed) /\ cell' = NOWHERE
    BY <1>1, <1>4 DEF Ends
  <2>2. /\ "tool" \notin DOMAIN changed /\ "context" \notin DOMAIN changed
        /\ "at" \in DOMAIN changed /\ changed.at = "done"
    OBVIOUS
  <2> HIDE DEF changed
  <2>3. CallTypes'
    BY <2>1, <2>2, TypesKept DEF ContextInv
  <2>4. call'[c].at = "done" /\ call'[c].context = call[c].context
    BY <2>1, <2>2, FieldsAre DEF ContextInv
  <2>5. \A d \in Caller : d # c => call'[d] = call[d]
    BY <2>1, GoesIs DEF ContextInv
  <2>6. ASSUME NEW d \in Caller
        PROVE  call'[d].at # "roots" /\ call'[d].context \in {NOWHERE, cell'}
    <3>1. call[d].context \in {NOWHERE, cell}
      BY DEF ContextInv
    <3>2. CASE d = c
      BY <1>1, <2>1, <2>4, <3>1, <3>2
    <3>3. CASE d # c
      BY <1>1, <1>2, <2>1, <2>5, <3>1, <3>3
    <3> QED
      BY <3>2, <3>3
  <2> QED
    BY <1>1, <2>3, <2>6 DEF ContextInv
<1> QED
  BY <1>3, <1>4 DEF RootsArrive

-----------------------------------------------------------------------------
(* The other steps *)

(* A request says what it asks for, and cannot say how far it is. *)
LEMMA ArrivesKeeps ==
  ASSUME ContextInv, NEW c \in Caller, NEW request \in Request, Arrives(c, request)
  PROVE  ContextInv'
<1>1. /\ call[c] = IDLE /\ lock' = lock /\ cell' = cell
      /\ call' = [call EXCEPT ![c] = With(With(IDLE, request), [at |-> "context"])]
  BY DEF Arrives, session
<1>2. PICK asked : asked = With(IDLE, request)
  OBVIOUS
<1>3. PICK changed : changed = [at |-> "context"]
  OBVIOUS
<1>4. PICK new : new = With(asked, changed)
  OBVIOUS
<1>5. request.tool \in Tools /\ "tool" \in DOMAIN request /\ DOMAIN request \subseteq Fields
  BY FileToolsAssumption
<1>6. "at" \notin DOMAIN request /\ "context" \notin DOMAIN request
  BY <1>5 DEF Fields
<1>7. /\ DOMAIN asked = DOMAIN IDLE
      /\ asked.tool = request.tool /\ asked.context = NOWHERE
  BY <1>2, <1>5, <1>6, WithIs, IdleFields
<1>8. DOMAIN changed = {"at"} /\ changed.at = "context"
  BY <1>3
<1>9. /\ DOMAIN new = DOMAIN IDLE
      /\ new.at = "context" /\ new.tool = request.tool /\ new.context = NOWHERE
  BY <1>4, <1>7, <1>8, WithIs, IdleFields
<1>10. call' = [call EXCEPT ![c] = new]
  BY <1>1, <1>2, <1>3, <1>4
<1>11. /\ call' = [d \in Caller |-> call'[d]] /\ call'[c] = new
       /\ \A d \in Caller : d # c => call'[d] = call[d]
  BY <1>10 DEF ContextInv, CallTypes
<1>12. ASSUME NEW d \in Caller
       PROVE  /\ DOMAIN call'[d] = DOMAIN IDLE /\ call'[d].tool \in Tools \union {"none"}
              /\ call'[d].at = "roots" => lock' = d
              /\ call'[d].context \in {NOWHERE, cell'}
  <2>1. CASE d = c
    BY <1>1, <1>5, <1>9, <1>11, <2>1
  <2>2. CASE d # c
    BY <1>1, <1>11, <2>2 DEF ContextInv, CallTypes
  <2> QED
    BY <2>1, <2>2
<1>13. CallTypes'
  <2>1. (DOMAIN IDLE)' = DOMAIN IDLE
    BY DEF IDLE
  <2> QED
    BY <1>11, <1>12, <2>1 DEF CallTypes
<1>14. lock # NOWHERE => lock \in Caller /\ call'[lock].at = "roots" /\ cell = NOWHERE
  BY <1>1, <1>11, IdleFields DEF ContextInv
<1> QED
  BY <1>1, <1>12, <1>13, <1>14 DEF ContextInv

(* A call that is answered is no longer there. *)
LEMMA ReturnsKeeps ==
  ASSUME ContextInv, NEW c \in Caller, Returns(c)
  PROVE  ContextInv'
<1>1. /\ call[c].at = "done" /\ lock' = lock /\ cell' = cell
      /\ call' = [call EXCEPT ![c] = IDLE]
  BY DEF Returns, session
<1>2. /\ call' = [d \in Caller |-> call'[d]] /\ call'[c] = IDLE
      /\ \A d \in Caller : d # c => call'[d] = call[d]
  BY <1>1 DEF ContextInv, CallTypes
<1>3. ASSUME NEW d \in Caller
      PROVE  /\ DOMAIN call'[d] = DOMAIN IDLE /\ call'[d].tool \in Tools \union {"none"}
             /\ call'[d].at = "roots" => lock' = d
             /\ call'[d].context \in {NOWHERE, cell'}
  <2>1. CASE d = c
    BY <1>2, <2>1, IdleFields
  <2>2. CASE d # c
    BY <1>1, <1>2, <2>2 DEF ContextInv, CallTypes
  <2> QED
    BY <2>1, <2>2
<1>4. CallTypes'
  <2>1. (DOMAIN IDLE)' = DOMAIN IDLE
    BY DEF IDLE
  <2> QED
    BY <1>2, <1>3, <2>1 DEF CallTypes
<1>5. lock # NOWHERE => lock \in Caller /\ call'[lock].at = "roots" /\ cell = NOWHERE
  BY <1>1, <1>2 DEF ContextInv
<1> QED
  BY <1>1, <1>3, <1>4, <1>5 DEF ContextInv

(* A path is resolved, ... *)
LEMMA ResolvesIsQuiet ==
  ASSUME NEW c \in Caller, Resolves(c)
  PROVE  Quiet(c)
<1>1. PICK path, target :
        Goes(c, [at |-> "check", path |-> path, target |-> target])
          /\ UNCHANGED session /\ call[c].at = "resolve"
  BY DEF Resolves
<1>2. PICK changed : changed = [at |-> "check", path |-> path, target |-> target]
  OBVIOUS
<1>3. "tool" \notin DOMAIN changed /\ "context" \notin DOMAIN changed /\ changed.at = "check"
  BY <1>2
<1> QED
  BY <1>1, <1>2, <1>3, GoesIsQuiet

(* ... and may be used or not; no tool is called as the place where a call *)
(* asks for the roots.                                                     *)
LEMMA ChecksIsQuiet ==
  ASSUME ContextInv, NEW c \in Caller, Checks(c)
  PROVE  Quiet(c)
<1>1. UNCHANGED session /\ call[c].at = "check"
  BY DEF Checks
<1>2. CASE Goes(c, [at |-> call[c].tool])
  <2>1. PICK tool : tool = call[c].tool
    OBVIOUS
  <2>2. tool # "roots"
    BY <2>1 DEF ContextInv, CallTypes, Tools
  <2>3. PICK changed : changed = [at |-> tool]
    OBVIOUS
  <2>4. "tool" \notin DOMAIN changed /\ "context" \notin DOMAIN changed /\ changed.at = tool
    BY <2>3
  <2>5. Goes(c, changed)
    BY <1>2, <2>1, <2>3
  <2> QED
    BY <1>1, <2>2, <2>4, <2>5, GoesIsQuiet
<1>3. CASE Ends(c, FALSE)
  BY <1>1, <1>3, EndsIsQuiet
<1> QED
  BY <1>2, <1>3 DEF Checks

(* read_file and list_directory *)
LEMMA LooksIsQuiet ==
  ASSUME NEW c \in Caller, Reads(c) \/ Lists(c)
  PROVE  Quiet(c)
<1>1. CASE Reads(c)
  <2>1. UNCHANGED session /\ call[c].at = "read"
    BY <1>1 DEF Reads
  <2>2. CASE \E hits : Goes(c, [at |-> "done", ok |-> TRUE, hits |-> hits])
    <3>1. PICK hits : Goes(c, [at |-> "done", ok |-> TRUE, hits |-> hits])
      BY <2>2
    <3>2. PICK changed : changed = [at |-> "done", ok |-> TRUE, hits |-> hits]
      OBVIOUS
    <3>3. "tool" \notin DOMAIN changed /\ "context" \notin DOMAIN changed /\ changed.at = "done"
      BY <3>2
    <3> QED
      BY <2>1, <3>1, <3>2, <3>3, GoesIsQuiet
  <2>3. CASE Ends(c, FALSE)
    BY <2>1, <2>3, EndsIsQuiet
  <2> QED
    BY <1>1, <2>2, <2>3 DEF Reads
<1>2. CASE Lists(c)
  <2>1. PICK result : Ends(c, result) /\ UNCHANGED session /\ call[c].at = "list"
    BY <1>2 DEF Lists
  <2> QED
    BY <2>1, EndsIsQuiet
<1> QED
  BY <1>1, <1>2

(* write_file and edit_file *)
LEMMA WritesIsQuiet ==
  ASSUME NEW c \in Caller, EditReads(c) \/ Opens(c) \/ Fills(c)
  PROVE  Quiet(c)
<1>1. CASE EditReads(c)
  <2>1. UNCHANGED session /\ call[c].at = "edit"
    BY <1>1 DEF EditReads
  <2>2. CASE \E data : Goes(c, [at |-> "write", data |-> data])
    <3>1. PICK data : Goes(c, [at |-> "write", data |-> data])
      BY <2>2
    <3>2. PICK changed : changed = [at |-> "write", data |-> data]
      OBVIOUS
    <3>3. "tool" \notin DOMAIN changed /\ "context" \notin DOMAIN changed /\ changed.at = "write"
      BY <3>2
    <3> QED
      BY <2>1, <3>1, <3>2, <3>3, GoesIsQuiet
  <2>3. CASE Ends(c, FALSE)
    BY <2>1, <2>3, EndsIsQuiet
  <2> QED
    BY <1>1, <2>2, <2>3 DEF EditReads
<1>2. CASE Opens(c)
  <2>1. UNCHANGED session /\ call[c].at = "write"
    BY <1>2 DEF Opens
  <2>2. CASE Goes(c, [at |-> "fill"])
    <3>1. PICK changed : changed = [at |-> "fill"]
      OBVIOUS
    <3>2. "tool" \notin DOMAIN changed /\ "context" \notin DOMAIN changed /\ changed.at = "fill"
      BY <3>1
    <3> QED
      BY <2>1, <2>2, <3>1, <3>2, GoesIsQuiet
  <2>3. CASE Ends(c, FALSE)
    BY <2>1, <2>3, EndsIsQuiet
  <2> QED
    BY <1>2, <2>2, <2>3 DEF Opens
<1>3. CASE Fills(c)
  <2>1. Ends(c, TRUE) /\ UNCHANGED session /\ call[c].at = "fill"
    BY <1>3 DEF Fills
  <2> QED
    BY <2>1, EndsIsQuiet
<1> QED
  BY <1>1, <1>2, <1>3

(* move and make_directory end with the step that does it. *)
LEMMA MovesIsQuiet ==
  ASSUME NEW c \in Caller, Moves(c) \/ Makes(c)
  PROVE  Quiet(c)
<1>1. PICK result \in BOOLEAN :
        Ends(c, result) /\ UNCHANGED session /\ call[c].at \in {"move", "make"}
  BY DEF Moves, Makes
<1> QED
  BY <1>1, EndsIsQuiet

(* The walk of a search. *)
LEMMA WalksIsQuiet ==
  ASSUME NEW c \in Caller, WalkStarts(c) \/ (\E d : ListsFolder(c, d)) \/ WalkEnds(c)
  PROVE  Quiet(c)
<1>1. CASE WalkStarts(c)
  <2>1. PICK files, dirs :
          Goes(c, [at |-> "walk", files |-> files, dirs |-> dirs])
            /\ UNCHANGED session /\ call[c].at \in {"glob", "grep"}
    BY <1>1 DEF WalkStarts
  <2>2. PICK changed : changed = [at |-> "walk", files |-> files, dirs |-> dirs]
    OBVIOUS
  <2>3. "tool" \notin DOMAIN changed /\ "context" \notin DOMAIN changed /\ changed.at = "walk"
    BY <2>2
  <2> QED
    BY <2>1, <2>2, <2>3, GoesIsQuiet
<1>2. CASE \E d : ListsFolder(c, d)
  <2>1. PICK dirs, files :
          Goes(c, [dirs |-> dirs, files |-> files])
            /\ UNCHANGED session /\ call[c].at = "walk"
    BY <1>2 DEF ListsFolder, Listing
  <2>2. PICK changed : changed = [dirs |-> dirs, files |-> files]
    OBVIOUS
  <2>3. "tool" \notin DOMAIN changed /\ "context" \notin DOMAIN changed /\ "at" \notin DOMAIN changed
    BY <2>2
  <2> QED
    BY <2>1, <2>2, <2>3, GoesIsQuiet
<1>3. CASE WalkEnds(c)
  <2>1. UNCHANGED session /\ call[c].at = "walk"
    BY <1>3 DEF WalkEnds
  <2>2. CASE \E cut, hits : Goes(c, [at |-> "done", ok |-> TRUE, cut |-> cut, hits |-> hits])
    <3>1. PICK cut, hits : Goes(c, [at |-> "done", ok |-> TRUE, cut |-> cut, hits |-> hits])
      BY <2>2
    <3>2. PICK changed : changed = [at |-> "done", ok |-> TRUE, cut |-> cut, hits |-> hits]
      OBVIOUS
    <3>3. "tool" \notin DOMAIN changed /\ "context" \notin DOMAIN changed /\ changed.at = "done"
      BY <3>2
    <3> QED
      BY <2>1, <3>1, <3>2, <3>3, GoesIsQuiet
  <2>3. CASE \E files : Goes(c, [at |-> "scan", files |-> files])
    <3>1. PICK files : Goes(c, [at |-> "scan", files |-> files])
      BY <2>3
    <3>2. PICK changed : changed = [at |-> "scan", files |-> files]
      OBVIOUS
    <3>3. "tool" \notin DOMAIN changed /\ "context" \notin DOMAIN changed /\ changed.at = "scan"
      BY <3>2
    <3> QED
      BY <2>1, <3>1, <3>2, <3>3, GoesIsQuiet
  <2> QED
    BY <1>3, <2>2, <2>3 DEF WalkEnds
<1> QED
  BY <1>1, <1>2, <1>3

(* The files that were found are searched. *)
LEMMA ScansIsQuiet ==
  ASSUME NEW c \in Caller, (\E p : Scans(c, p)) \/ ScanEnds(c)
  PROVE  Quiet(c)
<1>1. CASE \E p : Scans(c, p)
  <2>1. PICK files, hits :
          Goes(c, [files |-> files, hits |-> hits])
            /\ UNCHANGED session /\ call[c].at = "scan"
    BY <1>1 DEF Scans
  <2>2. PICK changed : changed = [files |-> files, hits |-> hits]
    OBVIOUS
  <2>3. "tool" \notin DOMAIN changed /\ "context" \notin DOMAIN changed /\ "at" \notin DOMAIN changed
    BY <2>2
  <2> QED
    BY <2>1, <2>2, <2>3, GoesIsQuiet
<1>2. CASE ScanEnds(c)
  <2>1. PICK cut :
          Goes(c, [at |-> "done", ok |-> TRUE, cut |-> cut])
            /\ UNCHANGED session /\ call[c].at = "scan"
    BY <1>2 DEF ScanEnds
  <2>2. PICK changed : changed = [at |-> "done", ok |-> TRUE, cut |-> cut]
    OBVIOUS
  <2>3. "tool" \notin DOMAIN changed /\ "context" \notin DOMAIN changed /\ changed.at = "done"
    BY <2>2
  <2> QED
    BY <2>1, <2>2, <2>3, GoesIsQuiet
<1> QED
  BY <1>1, <1>2

-----------------------------------------------------------------------------
(* The session starts without a context, and nobody holds the mutex. *)
LEMMA ContextInit ==
  ASSUME Init
  PROVE  ContextInv
<1>1. lock = NOWHERE /\ cell = NOWHERE /\ call = [c \in Caller |-> IDLE]
  BY DEF Init
<1>2. \A c \in Caller : call[c] = IDLE
  BY <1>1
<1> QED
  BY <1>1, <1>2, IdleFields DEF ContextInv, CallTypes

(* Every step keeps what the calls agree on. *)
LEMMA ContextNextKeeps ==
  ASSUME ContextInv, [Next]_vars
  PROVE  ContextInv'
<1>1. CASE UNCHANGED vars
  <2>1. UNCHANGED <<lock, cell, call>>
    BY <1>1 DEF vars, session
  <2>2. (DOMAIN IDLE)' = DOMAIN IDLE
    BY DEF IDLE
  <2> QED
    BY <2>1, <2>2 DEF ContextInv, CallTypes
<1>2. ASSUME NEW c \in Caller, CallNext(c)
      PROVE  ContextInv'
  <2>1. CASE ContextNext(c)
    BY <2>1, TakesKeeps, BuildsKeeps, AsksKeeps, RootsKeep DEF ContextNext
  <2>2. CASE Resolves(c)
    BY <2>2, ResolvesIsQuiet, QuietKeeps
  <2>3. CASE Checks(c)
    BY <2>3, ChecksIsQuiet, QuietKeeps
  <2>4. CASE Returns(c)
    BY <2>4, ReturnsKeeps
  <2>5. CASE Reads(c) \/ Lists(c)
    BY <2>5, LooksIsQuiet, QuietKeeps
  <2>6. CASE EditReads(c) \/ Opens(c) \/ Fills(c)
    BY <2>6, WritesIsQuiet, QuietKeeps
  <2>7. CASE Moves(c) \/ Makes(c)
    BY <2>7, MovesIsQuiet, QuietKeeps
  <2>8. CASE SearchNext(c)
    BY <2>8, WalksIsQuiet, ScansIsQuiet, QuietKeeps DEF SearchNext
  <2> QED
    BY <1>2, <2>1, <2>2, <2>3, <2>4, <2>5, <2>6, <2>7, <2>8 DEF CallNext
<1>3. ASSUME NEW c \in Caller, NEW request \in Request, Arrives(c, request)
      PROVE  ContextInv'
  BY <1>3, ArrivesKeeps
<1> QED
  BY <1>1, <1>2, <1>3 DEF Next

(* try_get_context: however many calls come at once, and whatever the      *)
(* client says to one of them, all of a session work in the same context,  *)
(* and the mutex is held only while the client is being asked.             *)
THEOREM CallsAgreeHolds == FairSpec => []CallsAgree
<1>1. Init => ContextInv
  BY ContextInit
<1>2. ContextInv /\ [Next]_vars => ContextInv'
  BY ContextNextKeeps
<1>3. ContextInv => CallsAgree
  BY DEF ContextInv, CallsAgree
<1> QED
  BY <1>1, <1>2, <1>3, PTL DEF FairSpec

-----------------------------------------------------------------------------
(* The record of a call *)

(* The record of a call. *)
Typed(r) ==
  /\ DOMAIN r = DOMAIN IDLE /\ r.tool \in Tools \union {"none"}
  /\ r.path \in Path /\ r.target \in Path
  /\ r.start \in Nat \ {0} /\ r.stop \in Nat \ {0}
  /\ r.text \in Text /\ r.data \in Text
  /\ r.files \subseteq Path /\ IsFiniteSet(r.files) /\ r.dirs \subseteq Path

(* Where a call is, and what it has by then. *)
Placed(r) ==
  /\ r.at = "resolve" => r.context.root \in Path
  /\ r.at \in {"check", "fill", "walk", "scan"} \union Tools => Plain(r.path) /\ Plain(r.target)
  /\ r.at \in Tools => r.tool = r.at \/ (r.at = "write" /\ r.tool = "edit")
  /\ r.at = "fill" => r.tool \in {"write", "edit"}
  /\ r.at = "walk" => r.tool \in {"glob", "grep"}
  /\ r.at = "scan" => r.tool = "grep" /\ \A hit \in r.hits : hit[1] \notin r.files
  /\ r.at \notin {"scan", "done"} => r.hits = {}
  /\ r.tool \in {"glob", "grep"} => IsFiniteSet(r.hits) /\ Cardinality(r.hits) <= MaxResults

(* A record with some fields changed, field by field. *)
After(old, changed, new) ==
  /\ DOMAIN new = DOMAIN IDLE
  /\ new.at = IF "at" \in DOMAIN changed THEN changed.at ELSE old.at
  /\ new.tool = IF "tool" \in DOMAIN changed THEN changed.tool ELSE old.tool
  /\ new.path = IF "path" \in DOMAIN changed THEN changed.path ELSE old.path
  /\ new.target = IF "target" \in DOMAIN changed THEN changed.target ELSE old.target
  /\ new.context = IF "context" \in DOMAIN changed THEN changed.context ELSE old.context
  /\ new.start = IF "start" \in DOMAIN changed THEN changed.start ELSE old.start
  /\ new.stop = IF "stop" \in DOMAIN changed THEN changed.stop ELSE old.stop
  /\ new.text = IF "text" \in DOMAIN changed THEN changed.text ELSE old.text
  /\ new.include = IF "include" \in DOMAIN changed THEN changed.include ELSE old.include
  /\ new.data = IF "data" \in DOMAIN changed THEN changed.data ELSE old.data
  /\ new.dirs = IF "dirs" \in DOMAIN changed THEN changed.dirs ELSE old.dirs
  /\ new.files = IF "files" \in DOMAIN changed THEN changed.files ELSE old.files
  /\ new.hits = IF "hits" \in DOMAIN changed THEN changed.hits ELSE old.hits
  /\ new.cut = IF "cut" \in DOMAIN changed THEN changed.cut ELSE old.cut
  /\ new.ok = IF "ok" \in DOMAIN changed THEN changed.ok ELSE old.ok

(* The fields of a call, and what they are in one that is not there. *)
LEMMA IdleHas ==
  /\ DOMAIN IDLE = {"at", "tool", "path", "target", "context", "start", "stop", "text", "include",
                    "data", "dirs", "files", "hits", "cut", "ok"}
  /\ IDLE.at = "idle" /\ IDLE.tool = "none" /\ IDLE.path = <<>> /\ IDLE.target = <<>>
  /\ IDLE.start = 1 /\ IDLE.stop = 1 /\ IDLE.text = <<>> /\ IDLE.data = <<>>
  /\ IDLE.dirs = {} /\ IDLE.files = {} /\ IDLE.hits = {} /\ IDLE.ok = FALSE
BY DEF IDLE

(* All the fields of a call that went on. *)
LEMMA AfterIs ==
  ASSUME NEW old, DOMAIN old = DOMAIN IDLE, NEW changed
  PROVE  After(old, changed, With(old, changed))
<1>1. PICK new : new = With(old, changed)
  OBVIOUS
<1>2. /\ DOMAIN new = DOMAIN IDLE
      /\ \A field \in DOMAIN IDLE :
           new[field] = IF field \in DOMAIN changed THEN changed[field] ELSE old[field]
  BY <1>1, WithIs
<1>3. {"at", "tool", "path", "target", "context", "start", "stop", "text", "include",
       "data", "dirs", "files", "hits", "cut", "ok"} \subseteq DOMAIN IDLE
  BY IdleHas
<1>4. After(old, changed, new)
  BY <1>2, <1>3 DEF After
<1> QED
  BY <1>1, <1>4

(* A call that is not there has nothing. *)
LEMMA IdleIs == Typed(IDLE) /\ Placed(IDLE)
<1>1. <<>> \in Path /\ <<>> \in Text /\ 1 \in Nat \ {0}
  BY DEF Path, Text
<1>2. IsFiniteSet({}) /\ Cardinality({}) = 0
  BY FS_EmptySet
<1>3. 0 <= MaxResults
  BY FileToolsAssumption
<1> QED
  BY <1>1, <1>2, <1>3, IdleHas DEF Typed, Placed, Tools

(* What a step changes of a call is of the types it should be. *)
Fits(changed) ==
  /\ DOMAIN changed \intersect {"tool", "start", "stop", "text", "include"} = {}
  /\ "path" \in DOMAIN changed => changed.path \in Path
  /\ "target" \in DOMAIN changed => changed.target \in Path
  /\ "data" \in DOMAIN changed => changed.data \in Text
  /\ "files" \in DOMAIN changed => changed.files \subseteq Path /\ IsFiniteSet(changed.files)
  /\ "dirs" \in DOMAIN changed => changed.dirs \subseteq Path

(* Then the call stays one. *)
LEMMA TypedAfter ==
  ASSUME NEW old, Typed(old), NEW changed, Fits(changed)
  PROVE  Typed(With(old, changed))
<1>1. PICK new : new = With(old, changed)
  OBVIOUS
<1>2. After(old, changed, new)
  BY <1>1, AfterIs DEF Typed
<1>3. DOMAIN new = DOMAIN IDLE /\ new.tool = old.tool /\ new.start = old.start
      /\ new.stop = old.stop /\ new.text = old.text
  BY <1>2 DEF After, Fits
<1>4. new.path \in Path /\ new.target \in Path /\ new.data \in Text
  BY <1>2 DEF After, Fits, Typed
<1>5. new.files \subseteq Path /\ IsFiniteSet(new.files) /\ new.dirs \subseteq Path
  BY <1>2 DEF After, Fits, Typed
<1> QED
  BY <1>1, <1>3, <1>4, <1>5 DEF Typed

(* A request is a call that has only come so far. *)
LEMMA RequestIs ==
  ASSUME NEW request \in Request
  PROVE  LET new == With(With(IDLE, request), [at |-> "context"])
         IN  Typed(new) /\ Placed(new) /\ new.at = "context"
<1>1. PICK asked : asked = With(IDLE, request)
  OBVIOUS
<1>2. PICK changed : changed = [at |-> "context"]
  OBVIOUS
<1>3. PICK new : new = With(asked, changed)
  OBVIOUS
<1>4. /\ request.tool \in Tools /\ "tool" \in DOMAIN request /\ DOMAIN request \subseteq Fields
      /\ \A field \in DOMAIN request \intersect DOMAIN Types : request[field] \in Types[field]
  BY FileToolsAssumption
<1>5. After(IDLE, request, asked)
  BY <1>1, AfterIs
<1>6. DOMAIN changed = {"at"} /\ changed.at = "context"
  BY <1>2
<1>7. After(asked, changed, new)
  BY <1>3, <1>5, AfterIs DEF After
<1>8. /\ DOMAIN Types = {"path", "target", "start", "stop", "text"}
      /\ Types.path = Path /\ Types.target = Path /\ Types.start = Nat \ {0}
      /\ Types.stop = Nat \ {0} /\ Types.text = Text
  BY DEF Types
<1>9. /\ "path" \in DOMAIN request => request.path \in Path
      /\ "target" \in DOMAIN request => request.target \in Path
      /\ "start" \in DOMAIN request => request.start \in Nat \ {0}
      /\ "stop" \in DOMAIN request => request.stop \in Nat \ {0}
      /\ "text" \in DOMAIN request => request.text \in Text
  BY <1>4, <1>8
<1>10. /\ "at" \notin DOMAIN request /\ "context" \notin DOMAIN request
       /\ "data" \notin DOMAIN request /\ "dirs" \notin DOMAIN request
       /\ "files" \notin DOMAIN request /\ "hits" \notin DOMAIN request
  BY <1>4 DEF Fields
<1>11. /\ DOMAIN asked = DOMAIN IDLE /\ asked.tool \in Tools
       /\ asked.path \in Path /\ asked.target \in Path
       /\ asked.start \in Nat \ {0} /\ asked.stop \in Nat \ {0} /\ asked.text \in Text
  BY <1>4, <1>5, <1>9, IdleIs DEF After, Typed
<1>12. asked.data = <<>> /\ asked.dirs = {} /\ asked.files = {} /\ asked.hits = {}
  BY <1>5, <1>10, IdleHas DEF After
<1>13. /\ DOMAIN new = DOMAIN IDLE /\ new.tool \in Tools /\ new.at = "context"
       /\ new.path \in Path /\ new.target \in Path
       /\ new.start \in Nat \ {0} /\ new.stop \in Nat \ {0} /\ new.text \in Text
  BY <1>6, <1>7, <1>11 DEF After
<1>14. new.data = <<>> /\ new.dirs = {} /\ new.files = {} /\ new.hits = {}
  BY <1>6, <1>7, <1>12 DEF After
<1>15. Typed(new)
  BY <1>13, <1>14, IdleIs, IdleHas DEF Typed
<1>16. Placed(new)
  <2>1. IsFiniteSet({}) /\ Cardinality({}) = 0 /\ 0 <= MaxResults
    BY FS_EmptySet, FileToolsAssumption
  <2> QED
    BY <1>13, <1>14, <2>1 DEF Placed, Tools
<1> QED
  BY <1>1, <1>2, <1>3, <1>13, <1>15, <1>16

-----------------------------------------------------------------------------
(* How many are found *)

(* A finite set has parts of every size up to its own. *)
LEMMA PartsExist ==
  ASSUME NEW S, IsFiniteSet(S), NEW n \in Nat, n <= Cardinality(S)
  PROVE  \E T \in SUBSET S : Cardinality(T) = n
<1>1. PICK size \in Nat : size = Cardinality(S)
  BY FS_CardinalityType
<1> DEFINE Has(k) == k <= size => \E T \in SUBSET S : Cardinality(T) = k
           N == {k \in Nat : Has(k)}
<1>2. 0 \in N
  <2>1. {} \in SUBSET S /\ Cardinality({}) = 0
    BY FS_EmptySet
  <2> QED
    BY <2>1
<1>3. ASSUME NEW k \in Nat, k \in N PROVE k + 1 \in N
  <2>1. SUFFICES ASSUME k + 1 <= size PROVE \E T \in SUBSET S : Cardinality(T) = k + 1
    OBVIOUS
  <2>2. k <= size /\ k # size
    BY <1>1, <2>1
  <2>3. PICK T \in SUBSET S : Cardinality(T) = k
    BY <1>3, <2>2
  <2>4. IsFiniteSet(T) /\ T # S
    BY <1>1, <2>2, <2>3, FS_Subset
  <2>5. PICK x \in S : x \notin T
    BY <2>3, <2>4
  <2>6. Cardinality(T \cup {x}) = k + 1 /\ T \cup {x} \in SUBSET S
    BY <2>3, <2>4, <2>5, FS_AddElement
  <2> QED
    BY <2>6
<1> HIDE DEF N
<1>4. Nat \subseteq N
  BY <1>2, <1>3, Induction
<1>5. n \in N
  BY <1>4
<1> QED
  BY <1>1, <1>5 DEF N

(* Some of a set, at most so many, and all of them if there are not more. *)
LEMMA SomeOfIs ==
  ASSUME NEW S, IsFiniteSet(S), NEW n \in Nat
  PROVE  /\ SomeOf(S, n) \subseteq S /\ IsFiniteSet(SomeOf(S, n))
         /\ Cardinality(SomeOf(S, n)) \in Nat /\ Cardinality(SomeOf(S, n)) <= n
         /\ Cardinality(S) <= n => SomeOf(S, n) = S
<1>1. Cardinality(S) \in Nat
  BY FS_CardinalityType
<1>2. CASE Cardinality(S) <= n
  <2>1. SomeOf(S, n) = S
    BY <1>2 DEF SomeOf
  <2> QED
    BY <1>1, <1>2, <2>1
<1>3. CASE ~(Cardinality(S) <= n)
  <2>1. PICK T : T = SomeOf(S, n)
    OBVIOUS
  <2>2. T = CHOOSE U \in SUBSET S : Cardinality(U) = n
    BY <1>3, <2>1 DEF SomeOf
  <2>3. \E U \in SUBSET S : Cardinality(U) = n
    BY <1>1, <1>3, PartsExist
  <2>4. T \in SUBSET S /\ Cardinality(T) = n
    BY <2>2, <2>3
  <2>5. IsFiniteSet(T)
    BY <2>4, FS_Subset
  <2> QED
    BY <1>3, <2>1, <2>4, <2>5
<1> QED
  BY <1>2, <1>3

(* The first of some numbers, as many as there is room for. *)
Lesser(found, k) == {j \in found : j < k}
First(found, room) == {k \in found : Cardinality(Lesser(found, k)) < room}

(* They are not more than there is room for, and if some are left out they *)
(* are as many.                                                            *)
LEMMA FirstAre ==
  ASSUME NEW found, found \subseteq Nat, IsFiniteSet(found), NEW room \in Nat
  PROVE  /\ First(found, room) \subseteq found /\ IsFiniteSet(First(found, room))
         /\ Cardinality(First(found, room)) \in Nat
         /\ Cardinality(First(found, room)) <= room
         /\ First(found, room) # found => Cardinality(First(found, room)) = room
<1>1. PICK F : F = First(found, room)
  OBVIOUS
<1>2. /\ F \in SUBSET found
      /\ \A k \in found : k \in F <=> Cardinality(Lesser(found, k)) < room
  BY <1>1 DEF First
<1>3. IsFiniteSet(F) /\ Cardinality(F) \in Nat
  BY <1>2, FS_Subset, FS_CardinalityType
<1>4. \A k \in found : /\ Lesser(found, k) \in SUBSET found
                       /\ IsFiniteSet(Lesser(found, k)) /\ Cardinality(Lesser(found, k)) \in Nat
  <2> TAKE k \in found
  <2>1. Lesser(found, k) \in SUBSET found
    BY DEF Lesser
  <2> QED
    BY <2>1, FS_Subset, FS_CardinalityType
<1>5. ASSUME NEW j \in found, NEW k \in found, j < k
      PROVE  Cardinality(Lesser(found, j)) < Cardinality(Lesser(found, k))
  <2>1. j \in Nat /\ k \in Nat
    OBVIOUS
  <2>2. Lesser(found, j) \in SUBSET Lesser(found, k)
    <3>1. ASSUME NEW i \in Lesser(found, j) PROVE i \in Lesser(found, k)
      <4>1. i \in found /\ i \in Nat /\ i < j
        BY DEF Lesser
      <4> QED
        BY <1>5, <2>1, <4>1 DEF Lesser
    <3> QED
      BY <3>1
  <2>3. j \in Lesser(found, k) /\ j \notin Lesser(found, j)
    BY <1>5, <2>1 DEF Lesser
  <2>4. /\ Cardinality(Lesser(found, j)) <= Cardinality(Lesser(found, k))
        /\ Cardinality(Lesser(found, j)) # Cardinality(Lesser(found, k))
    BY <1>4, <2>2, <2>3, FS_Subset
  <2> QED
    BY <1>4, <2>4
<1>6. Cardinality(F) <= room
  <2>1. CASE room = 0
    <3>1. \A k \in found : k \notin F
      BY <1>2, <1>4, <2>1
    <3>2. F = {}
      BY <1>2, <3>1
    <3> QED
      BY <2>1, <3>2, FS_EmptySet
  <2>2. CASE room # 0
    <3> DEFINE f == [k \in F |-> Cardinality(Lesser(found, k))]
    <3>1. f \in [F -> 0..room - 1]
      BY <1>2, <1>4
    <3>2. ASSUME NEW j \in F, NEW k \in F, f[j] = f[k] PROVE j = k
      <4>1. j \in found /\ k \in found /\ j \in Nat /\ k \in Nat
        BY <1>2
      <4>2. Cardinality(Lesser(found, j)) = Cardinality(Lesser(found, k))
        BY <3>2
      <4>3. ~(j < k) /\ ~(k < j)
        BY <1>4, <1>5, <4>1, <4>2
      <4> QED
        BY <4>1, <4>3
    <3> HIDE DEF f
    <3>3. f \in Injection(F, 0..room - 1)
      BY <3>1, <3>2 DEF Injection, IsInjective
    <3>4. IsFiniteSet(0..room - 1) /\ Cardinality(0..room - 1) = room
      <4>1. 0 \in Int /\ room - 1 \in Int /\ 0 <= room - 1
        BY <2>2
      <4>2. IsFiniteSet(0..room - 1) /\ Cardinality(0..room - 1) = room - 1 - 0 + 1
        BY <4>1, FS_Interval
      <4> QED
        BY <4>2
    <3> QED
      BY <3>3, <3>4, FS_Injection
  <2> QED
    BY <2>1, <2>2
<1>7. ASSUME F # found PROVE Cardinality(F) = room
  <2>1. PICK k \in found \ F : \A j \in found \ F : k <= j
    <3>1. found \ F \subseteq Nat /\ found \ F # {}
      BY <1>2, <1>7
    <3> QED
      BY <3>1, Least
  <2>2. ~(Cardinality(Lesser(found, k)) < room)
    BY <1>2, <2>1
  <2>3. Lesser(found, k) \in SUBSET F
    <3>1. ASSUME NEW j \in Lesser(found, k) PROVE j \in F
      <4>1. j \in found /\ j \in Nat /\ k \in Nat /\ j < k
        BY <2>1 DEF Lesser
      <4> QED
        BY <2>1, <4>1
    <3> QED
      BY <3>1
  <2>4. Cardinality(Lesser(found, k)) <= Cardinality(F) /\ Cardinality(Lesser(found, k)) \in Nat
    BY <1>3, <1>4, <2>1, <2>3, FS_Subset
  <2> QED
    BY <1>3, <1>6, <2>2, <2>4
<1> QED
  BY <1>1, <1>2, <1>3, <1>6, <1>7

(* The same numbers as places in a file are as many. *)
LEMMA PlacesAre ==
  ASSUME NEW F, IsFiniteSet(F), NEW p
  PROVE  /\ IsFiniteSet({<<p, n>> : n \in F})
         /\ Cardinality({<<p, n>> : n \in F}) = Cardinality(F)
<1>1. PICK H : H = {<<p, n>> : n \in F}
  OBVIOUS
<1> DEFINE f == [n \in F |-> <<p, n>>]
<1>2. f \in [F -> H] /\ (\A m, n \in F : f[m] = f[n] => m = n) /\ \A h \in H : \E n \in F : f[n] = h
  BY <1>1
<1> HIDE DEF f
<1>3. f \in Surjection(F, H)
  BY <1>2 DEF Surjection
<1>4. f \in Injection(F, H)
  BY <1>2 DEF Injection, IsInjective
<1>5. IsFiniteSet(H) /\ Cardinality(H) <= Cardinality(F)
  BY <1>3, FS_Surjection
<1>6. Cardinality(F) <= Cardinality(H)
  BY <1>4, <1>5, FS_Injection
<1>7. Cardinality(F) \in Nat /\ Cardinality(H) \in Nat
  BY <1>5, FS_CardinalityType
<1> QED
  BY <1>1, <1>5, <1>6, <1>7

(* What was found in others, and in one more file: all there is, or enough. *)
Grown(hits, p, found, all) ==
  /\ IsFiniteSet(all) /\ Cardinality(all) \in Nat /\ Cardinality(all) <= MaxResults
  /\ (\A n \in found : <<p, n>> \in all) \/ Cardinality(all) >= MaxResults

(* What one more file adds to what was found in others. *)
LEMMA HitsGrow ==
  ASSUME NEW hits, IsFiniteSet(hits), Cardinality(hits) < MaxResults,
         NEW p, \A hit \in hits : hit[1] # p,
         NEW found, found \subseteq Nat, IsFiniteSet(found)
  PROVE  Grown(hits, p, found,
               hits \union {<<p, n>> : n \in First(found, MaxResults - Cardinality(hits))})
<1>1. Cardinality(hits) \in Nat /\ MaxResults \in Nat
  BY FS_CardinalityType, FileToolsAssumption
<1>2. PICK room \in Nat : room = MaxResults - Cardinality(hits)
  BY <1>1
<1>3. PICK F : F = First(found, room)
  OBVIOUS
<1>4. /\ F \subseteq found /\ IsFiniteSet(F) /\ Cardinality(F) \in Nat /\ Cardinality(F) <= room
      /\ F # found => Cardinality(F) = room
  BY <1>3, FirstAre
<1>5. PICK new : new = {<<p, n>> : n \in F}
  OBVIOUS
<1>6. IsFiniteSet(new) /\ Cardinality(new) = Cardinality(F)
  BY <1>4, <1>5, PlacesAre
<1>7. hits \cap new = {}
  BY <1>5
<1>8. /\ IsFiniteSet(hits \cup new)
      /\ Cardinality(hits \cup new) = Cardinality(hits) + Cardinality(F)
  <2>1. Cardinality(hits \cap new) = 0
    BY <1>7, FS_EmptySet
  <2>2. /\ IsFiniteSet(hits \cup new)
        /\ Cardinality(hits \cup new) =
             Cardinality(hits) + Cardinality(new) - Cardinality(hits \cap new)
    BY <1>6, FS_Union
  <2> QED
    BY <1>1, <1>4, <1>6, <2>1, <2>2
<1>9. Cardinality(hits \cup new) \in Nat /\ Cardinality(hits \cup new) <= MaxResults
  BY <1>1, <1>2, <1>4, <1>8
<1>10. F = found => \A n \in found : <<p, n>> \in new
  BY <1>5
<1>11. F # found => Cardinality(hits \cup new) >= MaxResults
  BY <1>1, <1>2, <1>4, <1>8
<1> QED
  BY <1>2, <1>3, <1>5, <1>8, <1>9, <1>10, <1>11 DEF Grown

-----------------------------------------------------------------------------
(* The tree, with its texts *)

(* What is kept of a tree, whatever the calls make of it. *)
IsTree(t) ==
  WellFormed(t) /\ IsFiniteSet(DOMAIN t) /\ \A p \in DOMAIN t : t[p].text \in Text

(* A path, whatever is written before it, is a path. *)
LEMMA MakeAbsoluteIs ==
  ASSUME NEW root \in Path, NEW raw \in Path
  PROVE  MakeAbsolute(root, raw) \in Path
<1>1. HOME \in Path
  BY FileTreeAssumption
<1>2. root \o raw \in Path
  BY ConcatProperties DEF Path
<1>3. CASE raw = <<>>
  BY <1>2, <1>3 DEF MakeAbsolute
<1>4. CASE raw # <<>>
  <2>1. PICK rest, first : rest \in Path /\ rest = Tail(raw) /\ first = Head(raw)
    <3>1. raw \in Seq(STRING)
      BY DEF Path
    <3>2. Tail(raw) \in Seq(STRING)
      BY <1>4, <3>1, HeadTailProperties
    <3> QED
      BY <3>2 DEF Path
  <2>2. HOME \o rest \in Path
    <3>1. HOME \in Seq(STRING) /\ rest \in Seq(STRING)
      BY <1>1, <2>1 DEF Path
    <3>2. HOME \o rest \in Seq(STRING)
      BY <3>1, ConcatProperties
    <3> QED
      BY <3>2 DEF Path
  <2>3. CASE first = "~"
    BY <1>4, <2>1, <2>2, <2>3 DEF MakeAbsolute
  <2>4. CASE first = "/"
    BY <1>4, <2>1, <2>4 DEF MakeAbsolute
  <2>5. CASE first # "~" /\ first # "/"
    BY <1>2, <1>4, <2>1, <2>5 DEF MakeAbsolute
  <2> QED
    BY <2>3, <2>4, <2>5
<1> QED
  BY <1>3, <1>4

(* What is left of a text that is written over. *)
LEMMA TextFromIs ==
  ASSUME NEW text \in Text, NEW new \in Text
  PROVE  /\ new \o From(text, new) \in Text
         /\ text = <<>> => new \o From(text, new) = new
<1>1. PICK m \in Int, n \in Int : m = Len(new) + 1 /\ n = Len(text) /\ m > 0
  <2>1. Len(new) + 1 \in Int /\ Len(text) \in Int /\ Len(new) + 1 > 0
    BY LenProperties DEF Text
  <2> QED
    BY <2>1
<1>2. \A i \in m..n : text[i] \in Word
  <2>1. \A i \in m..n : i \in 1..Len(text)
    BY <1>1
  <2> QED
    BY <2>1, ElementOfSeq DEF Text
<1>3. PICK rest \in Text : rest = From(text, new)
  <2>1. SubSeq(text, m, n) \in Text
    BY <1>2, SubSeqProperties DEF Text
  <2>2. From(text, new) = SubSeq(text, m, n)
    BY <1>1 DEF From
  <2> QED
    BY <2>1, <2>2
<1>4. new \o rest \in Text
  BY TwoTexts
<1>5. text = <<>> => rest = <<>>
  <2> SUFFICES ASSUME text = <<>> PROVE rest = <<>>
    OBVIOUS
  <2>1. n = 0
    BY <1>1
  <2>2. SubSeq(text, m, n) = <<>>
    BY <1>1, <2>1, SubSeqEmpty
  <2> QED
    BY <1>1, <1>3, <2>2 DEF From
<1>6. new \o <<>> = new
  BY ConcatEmptySeq DEF Text
<1> QED
  BY <1>3, <1>4, <1>5, <1>6

(* The lines that match are lines of the text. *)
LEMMA MatchingIs ==
  ASSUME NEW text \in Text
  PROVE  Matching(text) \subseteq Nat /\ IsFiniteSet(Matching(text))
<1>1. PICK n \in Nat : DOMAIN Lines(text) = 1..n
  BY LinesType
<1>2. Matching(text) \in SUBSET (1..n)
  BY <1>1 DEF Matching
<1>3. IsFiniteSet(1..n)
  BY FS_Interval
<1>4. IsFiniteSet(Matching(text))
  BY <1>2, <1>3, FS_Subset
<1>5. 1..n \subseteq Nat
  OBVIOUS
<1> QED
  BY <1>2, <1>4, <1>5

(* A file is made or written. *)
LEMMA PutTree ==
  ASSUME NEW t, IsTree(t), NEW p, Slot(t, p), ~Is("dir", t, p), NEW text \in Text
  PROVE  /\ IsTree(Put(t, p, File(text)))
         /\ Is("file", Put(t, p, File(text)), p) /\ Put(t, p, File(text))[p].text = text
         /\ \A q : Is("file", t, q) => Is("file", Put(t, p, File(text)), q)
<1>1. PICK u : u = Put(t, p, File(text))
  OBVIOUS
<1>2. /\ WellFormed(u) /\ DOMAIN u = DOMAIN t \union {p} /\ u[p] = File(text)
      /\ \A q \in DOMAIN t : q # p => u[q] = t[q]
  <2>1. WellFormed(t)
    BY DEF IsTree
  <2>2. HasPut(t, p, text, Put(t, p, File(text)))
    BY <2>1, PutIs
  <2> QED
    BY <1>1, <2>2 DEF HasPut
<1>3. File(text).kind = "file" /\ File(text).text = text
  BY DEF File
<1>4. IsFiniteSet(DOMAIN u)
  BY <1>2, FS_AddElement DEF IsTree
<1>5. ASSUME NEW q \in DOMAIN u PROVE u[q].text \in Text
  BY <1>2, <1>3 DEF IsTree
<1>6. ASSUME NEW q, Is("file", t, q) PROVE Is("file", u, q)
  BY <1>2, <1>3, <1>6 DEF Is
<1>7. IsTree(u)
  BY <1>2, <1>4, <1>5 DEF IsTree
<1>8. Is("file", u, p) /\ u[p].text = text
  BY <1>2, <1>3 DEF Is
<1> QED
  BY <1>1, <1>6, <1>7, <1>8

(* Of two paths above the same one, one is above the other. *)
LEMMA Comparable ==
  ASSUME NEW a \in Path, NEW b \in Path, NEW p \in Path, IsPrefix(a, p), IsPrefix(b, p)
  PROVE  IsPrefix(a, b) \/ IsPrefix(b, a)
<1>1. /\ a \in Seq(STRING) /\ b \in Seq(STRING) /\ p \in Seq(STRING)
      /\ Len(a) \in Nat /\ Len(b) \in Nat
  BY LenProperties DEF Path
<1>2. /\ Len(a) \in 0..Len(p) /\ a = Pre(p, Len(a))
      /\ Len(b) \in 0..Len(p) /\ b = Pre(p, Len(b))
  BY <1>1, PrefixIs
<1>3. CASE Len(a) <= Len(b)
  <2>1. Len(a) \in 0..Len(b)
    BY <1>1, <1>3
  <2>2. Pre(Pre(p, Len(b)), Len(a)) = Pre(p, Len(a))
    BY <1>1, <1>2, <2>1, PreOfPre
  <2>3. a = Pre(b, Len(a))
    BY <1>2, <2>2
  <2> QED
    BY <1>1, <2>1, <2>3, PrefixIs
<1>4. CASE Len(b) <= Len(a)
  <2>1. Len(b) \in 0..Len(a)
    BY <1>1, <1>4
  <2>2. Pre(Pre(p, Len(a)), Len(b)) = Pre(p, Len(b))
    BY <1>1, <1>2, <2>1, PreOfPre
  <2>3. b = Pre(a, Len(b))
    BY <1>2, <2>2
  <2> QED
    BY <1>1, <2>1, <2>3, PrefixIs
<1>5. Len(a) <= Len(b) \/ Len(b) <= Len(a)
  BY <1>1
<1> QED
  BY <1>3, <1>4, <1>5

(* What is moved to where it is stays there. *)
LEMMA MovedHome ==
  ASSUME NEW b \in Path, NEW p \in Path, IsPrefix(b, p)
  PROVE  Moved(b, b, p) = p
<1>1. PICK a \in Path :
        /\ Moved(b, b, p) = b \o a /\ Len(a) = Len(p) - Len(b) /\ Len(b) \in 0..Len(p)
        /\ \A i \in 1..Len(p) - Len(b) : a[i] = p[Len(b) + i]
  <2>1. PICK a : Moved(b, b, p) = b \o a /\ Suffix(a, p, b)
    BY MovedTo
  <2> QED
    BY <2>1 DEF Suffix
<1>2. PICK q : q = b \o a
  OBVIOUS
<1>3. a \in Seq(STRING) /\ b \in Seq(STRING) /\ p \in Seq(STRING) /\ Len(p) \in Nat
  BY LenProperties DEF Path
<1>4. /\ q \in Seq(STRING) /\ Len(q) = Len(b) + Len(a) /\ Len(b) \in Nat /\ Len(a) \in Nat
      /\ \A i \in 1..Len(b) : q[i] = b[i]
      /\ \A i \in 1..Len(a) : q[Len(b) + i] = a[i]
  BY <1>2, <1>3, ConcatIs
<1>5. \A i \in 1..Len(b) : p[i] = b[i]
  BY PrefixNames
<1>6. Len(q) = Len(p)
  BY <1>1, <1>3, <1>4
<1>7. ASSUME NEW i \in 1..Len(q) PROVE q[i] = p[i]
  <2>1. CASE i <= Len(b)
    <3>1. i \in 1..Len(b)
      BY <1>4, <2>1
    <3> QED
      BY <1>4, <1>5, <3>1
  <2>2. CASE ~(i <= Len(b))
    <3>1. PICK j : j = i - Len(b)
      OBVIOUS
    <3>2. j \in 1..Len(a) /\ j \in 1..Len(p) - Len(b) /\ Len(b) + j = i
      BY <1>1, <1>3, <1>4, <2>2, <3>1
    <3>3. q[Len(b) + j] = a[j] /\ a[j] = p[Len(b) + j]
      BY <1>1, <1>4, <3>2
    <3> QED
      BY <3>2, <3>3
  <2> QED
    BY <2>1, <2>2
<1>8. q = p
  BY <1>3, <1>4, <1>6, <1>7, Same
<1> QED
  BY <1>1, <1>2, <1>8

(* A rename moves every entry there is, but what is replaced. *)
LEMMA RenamedTree ==
  ASSUME NEW t, IsTree(t), NEW source, NEW target, Slot(t, source), Slot(t, target),
         MayRename(t, source, target)
  PROVE  /\ IsTree(Renamed(t, source, target))
         /\ \A h : Is("file", t, h) /\ ~(h = target /\ source # target) =>
              /\ Is("file", Renamed(t, source, target), Moved(source, target, h))
              /\ h \in DOMAIN Renamed(t, source, target) => Moved(source, target, h) = h
<1>1. PICK u : u = Renamed(t, source, target)
  OBVIOUS
<1>2. source \in Path /\ target \in Path
  BY SlotIs
<1>3. WellFormed(t)
  BY DEF IsTree
<1> DEFINE kept == Kept(t, source, target)
           move(p) == Moved(source, target, p)
<1>4. DOMAIN u = {move(p) : p \in kept} /\ \A p \in kept : u[move(p)] = t[p]
  <2>1. HasMoved(u, t, source, target)
    BY <1>1, <1>2, <1>3, RenamedHas
  <2> QED
    BY <2>1 DEF HasMoved
<1>5. kept \in SUBSET (DOMAIN t)
  BY DEF Kept
<1>6. IsFiniteSet(DOMAIN u)
  <2> DEFINE f == [p \in kept |-> move(p)]
  <2>1. IsFiniteSet(kept)
    BY <1>5, FS_Subset DEF IsTree
  <2>2. DOMAIN f = kept /\ {f[p] : p \in kept} = {move(p) : p \in kept}
    OBVIOUS
  <2> HIDE DEF f
  <2>3. IsFiniteSet({f[p] : p \in kept})
    BY <2>1, <2>2, ImageIsFinite
  <2> QED
    BY <1>4, <2>2, <2>3
<1>7. ASSUME NEW q \in DOMAIN u PROVE u[q].text \in Text
  <2>1. PICK p \in kept : q = move(p)
    BY <1>4
  <2> QED
    BY <1>4, <1>5, <2>1 DEF IsTree
<1>8. IsTree(u)
  BY <1>1, <1>3, <1>6, <1>7, RenamedIs DEF IsTree
<1>9. ASSUME NEW h, Is("file", t, h), ~(h = target /\ source # target)
      PROVE  /\ Is("file", u, move(h)) /\ (h \in DOMAIN u => move(h) = h)
  <2>1. h \in kept /\ h \in DOMAIN t /\ t[h].kind = "file"
    BY <1>9 DEF Kept, Is
  <2>2. Is("file", u, move(h))
    BY <1>4, <2>1 DEF Is
  <2>3. ASSUME h \in DOMAIN u PROVE move(h) = h
    <3>1. h \in Path
      BY <1>3, <2>1, EntryIs
    <3>2. CASE ~IsPrefix(source, h)
      BY <3>2 DEF Moved
    <3>3. CASE IsPrefix(source, h)
      <4>1. PICK p \in kept : h = move(p)
        BY <1>4, <2>3
      <4>2. p \in DOMAIN t /\ p \in Path
        BY <1>3, <1>5, EntryIs
      <4>3. CASE ~IsPrefix(source, p)
        <5>1. move(p) = p
          BY <4>3 DEF Moved
        <5> QED
          BY <3>3, <4>1, <4>3, <5>1
      <4>4. CASE IsPrefix(source, p)
        <5>1. IsPrefix(target, h)
          BY <1>2, <4>1, <4>2, <4>4, MovedToTarget
        <5>2. IsPrefix(source, target) \/ IsPrefix(target, source)
          BY <1>2, <3>1, <3>3, <5>1, Comparable
        <5>3. ~IsStrictPrefix(source, target) /\ source \in DOMAIN t
          BY DEF MayRename
        <5>4. CASE source = target
          BY <1>2, <3>1, <3>3, <5>4, MovedHome
        <5>5. CASE source # target
          <6>1. IsStrictPrefix(target, source)
            BY <5>2, <5>3, <5>5 DEF IsStrictPrefix
          <6>2. target \in DOMAIN t \ {source}
            BY <1>2, <1>3, <5>3, <5>5, <6>1, AboveIsEntry DEF Is
          <6>3. Empty(t, target)
            BY <6>2 DEF MayRename
          <6> QED
            BY <5>3, <6>1, <6>3 DEF Empty
        <5> QED
          BY <5>4, <5>5
      <4> QED
        BY <4>3, <4>4
    <3> QED
      BY <3>2, <3>3
  <2> QED
    BY <2>2, <2>3
<1> QED
  BY <1>1, <1>8, <1>9

(* Folders are made. *)
LEMMA MadeTree ==
  ASSUME NEW t, IsTree(t), NEW p \in Path, Plain(p), MayMake(t, p)
  PROVE  IsTree(Made(t, p)) /\ \A q : Is("file", t, q) => Is("file", Made(t, p), q)
<1>1. PICK u : u = Made(t, p)
  OBVIOUS
<1>2. /\ WellFormed(u) /\ DOMAIN t \subseteq DOMAIN u /\ IsFiniteSet(DOMAIN u)
      /\ \A q \in DOMAIN t : u[q] = t[q]
      /\ \A q \in DOMAIN u \ DOMAIN t : u[q] = DIR
  BY <1>1, MadeIs DEF IsTree
<1>3. DIR.text \in Text
  BY DEF DIR, Text
<1>4. ASSUME NEW q \in DOMAIN u PROVE u[q].text \in Text
  BY <1>2, <1>3 DEF IsTree
<1>5. ASSUME NEW q, Is("file", t, q) PROVE Is("file", u, q)
  BY <1>2, <1>5 DEF Is
<1> QED
  BY <1>1, <1>2, <1>4, <1>5 DEF IsTree

-----------------------------------------------------------------------------
(* The record of a call goes on *)

(* It is a call. *)
IsCall(r) == Typed(r) /\ Placed(r)

(* A call is over, ... *)
LEMMA DoneRecord ==
  ASSUME NEW r, IsCall(r), NEW changed,
         DOMAIN changed \subseteq {"at", "ok", "cut", "hits"},
         "at" \in DOMAIN changed, changed.at = "done",
         "hits" \in DOMAIN changed /\ r.tool \in {"glob", "grep"} =>
           IsFiniteSet(changed.hits) /\ Cardinality(changed.hits) <= MaxResults
  PROVE  IsCall(With(r, changed))
<1>1. PICK new : new = With(r, changed)
  OBVIOUS
<1>2. After(r, changed, new)
  BY <1>1, AfterIs DEF IsCall, Typed
<1>3. Typed(new)
  BY <1>1, TypedAfter DEF IsCall, Fits
<1>4. /\ new.at = "done" /\ new.tool = r.tool
      /\ new.hits = IF "hits" \in DOMAIN changed THEN changed.hits ELSE r.hits
  BY <1>2 DEF After
<1>5. Placed(new)
  BY <1>4 DEF Placed, IsCall, Tools
<1> QED
  BY <1>1, <1>3, <1>5 DEF IsCall

(* ... asks the client, ... *)
LEMMA RootsRecord ==
  ASSUME NEW r, IsCall(r), r.at = "context"
  PROVE  IsCall(With(r, [at |-> "roots"]))
<1>1. PICK changed : changed = [at |-> "roots"]
  OBVIOUS
<1>2. DOMAIN changed = {"at"} /\ changed.at = "roots"
  BY <1>1
<1>3. PICK new : new = With(r, changed)
  OBVIOUS
<1>4. After(r, changed, new)
  BY <1>3, AfterIs DEF IsCall, Typed
<1>5. Typed(new)
  BY <1>2, <1>3, TypedAfter DEF IsCall, Fits
<1>6. new.at = "roots" /\ new.tool = r.tool /\ new.hits = r.hits
  BY <1>2, <1>4 DEF After
<1>7. Placed(new)
  BY <1>6 DEF Placed, IsCall, Tools
<1> QED
  BY <1>1, <1>3, <1>5, <1>7 DEF IsCall

(* ... has its context, ... *)
LEMMA ContextRecord ==
  ASSUME NEW r, IsCall(r), r.at \in {"context", "roots"}, NEW context, context.root \in Path
  PROVE  IsCall(With(r, [at |-> "resolve", context |-> context]))
<1>1. PICK changed : changed = [at |-> "resolve", context |-> context]
  OBVIOUS
<1>2. DOMAIN changed = {"at", "context"} /\ changed.at = "resolve" /\ changed.context = context
  BY <1>1
<1>3. PICK new : new = With(r, changed)
  OBVIOUS
<1>4. After(r, changed, new)
  BY <1>3, AfterIs DEF IsCall, Typed
<1>5. Typed(new)
  BY <1>2, <1>3, TypedAfter DEF IsCall, Fits
<1>6. new.at = "resolve" /\ new.tool = r.tool /\ new.hits = r.hits /\ new.context = context
  BY <1>2, <1>4 DEF After
<1>7. Placed(new)
  BY <1>6 DEF Placed, IsCall, Tools
<1> QED
  BY <1>1, <1>3, <1>5, <1>7 DEF IsCall

(* ... has its paths resolved, ... *)
LEMMA ResolvedRecord ==
  ASSUME NEW r, IsCall(r), r.at = "resolve",
         NEW path \in Path, NEW target \in Path, Plain(path), Plain(target)
  PROVE  IsCall(With(r, [at |-> "check", path |-> path, target |-> target]))
<1>1. PICK changed : changed = [at |-> "check", path |-> path, target |-> target]
  OBVIOUS
<1>2. /\ DOMAIN changed = {"at", "path", "target"} /\ changed.at = "check"
      /\ changed.path = path /\ changed.target = target
  BY <1>1
<1>3. PICK new : new = With(r, changed)
  OBVIOUS
<1>4. After(r, changed, new)
  BY <1>3, AfterIs DEF IsCall, Typed
<1>5. Typed(new)
  BY <1>2, <1>3, TypedAfter DEF IsCall, Fits
<1>6. /\ new.at = "check" /\ new.tool = r.tool /\ new.hits = r.hits
      /\ new.path = path /\ new.target = target
  BY <1>2, <1>4 DEF After
<1>7. Placed(new)
  BY <1>6 DEF Placed, IsCall, Tools
<1> QED
  BY <1>1, <1>3, <1>5, <1>7 DEF IsCall

(* ... comes to another place with the paths it has, or with a text. *)
LEMMA PlaceRecord ==
  ASSUME NEW r, IsCall(r), NEW changed,
         DOMAIN changed \subseteq {"at", "data"}, "at" \in DOMAIN changed,
         "data" \in DOMAIN changed => changed.data \in Text,
         \/ r.at = "check" /\ changed.at = r.tool
         \/ r.at = "edit" /\ changed.at = "write"
         \/ r.at = "write" /\ changed.at = "fill"
  PROVE  IsCall(With(r, changed))
<1>3. PICK new : new = With(r, changed)
  OBVIOUS
<1>4. After(r, changed, new)
  BY <1>3, AfterIs DEF IsCall, Typed
<1>5. Typed(new)
  BY <1>3, TypedAfter DEF IsCall, Fits
<1>6. /\ new.at = changed.at /\ new.tool = r.tool /\ new.hits = r.hits
      /\ new.path = r.path /\ new.target = r.target
  BY <1>4 DEF After
<1>7. /\ r.tool \in Tools \union {"none"} /\ r.hits = {} /\ Plain(r.path) /\ Plain(r.target)
      /\ r.at = "edit" => r.tool = "edit"
      /\ r.at = "write" => r.tool \in {"write", "edit"}
  BY DEF Placed, IsCall, Tools, Typed
<1>11. IsFiniteSet({}) /\ Cardinality({}) <= MaxResults
  BY FS_EmptySet, FileToolsAssumption
<1>8. ASSUME r.at = "check" /\ changed.at = r.tool
      PROVE  Placed(new)
  BY <1>6, <1>7, <1>8, <1>11 DEF Placed, Tools
<1>9. ASSUME r.at = "edit" /\ changed.at = "write"
      PROVE  Placed(new)
  BY <1>6, <1>7, <1>9, <1>11 DEF Placed, Tools
<1>10. ASSUME r.at = "write" /\ changed.at = "fill"
       PROVE  Placed(new)
  BY <1>6, <1>7, <1>10, <1>11 DEF Placed, Tools
<1> QED
  BY <1>3, <1>5, <1>8, <1>9, <1>10 DEF IsCall

(* A search walks, ... *)
LEMMA WalkRecord ==
  ASSUME NEW r, IsCall(r), NEW changed,
         DOMAIN changed \subseteq {"at", "files", "dirs"},
         \/ r.at \in {"glob", "grep"} /\ "at" \in DOMAIN changed /\ changed.at = "walk"
         \/ r.at = "walk" /\ "at" \notin DOMAIN changed,
         "files" \in DOMAIN changed => changed.files \subseteq Path /\ IsFiniteSet(changed.files),
         "dirs" \in DOMAIN changed => changed.dirs \subseteq Path
  PROVE  IsCall(With(r, changed))
<1>3. PICK new : new = With(r, changed)
  OBVIOUS
<1>4. After(r, changed, new)
  BY <1>3, AfterIs DEF IsCall, Typed
<1>5. Typed(new)
  BY <1>3, TypedAfter DEF IsCall, Fits
<1>6. /\ new.at = "walk" /\ new.tool = r.tool /\ new.hits = r.hits
      /\ new.path = r.path /\ new.target = r.target
  BY <1>4 DEF After
<1>7. /\ r.hits = {} /\ r.tool \in {"glob", "grep"} /\ Plain(r.path) /\ Plain(r.target)
      /\ IsFiniteSet(r.hits) /\ Cardinality(r.hits) <= MaxResults
  BY DEF Placed, IsCall, Tools
<1>8. Placed(new)
  BY <1>6, <1>7 DEF Placed, Tools
<1> QED
  BY <1>3, <1>5, <1>8 DEF IsCall

(* ... and then reads what it has found. *)
LEMMA ScanRecord ==
  ASSUME NEW r, IsCall(r), NEW changed,
         DOMAIN changed \subseteq {"at", "files", "hits"}, "files" \in DOMAIN changed,
         changed.files \subseteq r.files,
         \/ r.at = "walk" /\ r.tool # "glob" /\ "hits" \notin DOMAIN changed
              /\ "at" \in DOMAIN changed /\ changed.at = "scan"
         \/ r.at = "scan" /\ "at" \notin DOMAIN changed /\ "hits" \in DOMAIN changed
              /\ (\A hit \in changed.hits : hit[1] \notin changed.files)
              /\ IsFiniteSet(changed.hits) /\ Cardinality(changed.hits) <= MaxResults
  PROVE  IsCall(With(r, changed))
<1>3. PICK new : new = With(r, changed)
  OBVIOUS
<1>4. After(r, changed, new)
  BY <1>3, AfterIs DEF IsCall, Typed
<1>5. Typed(new)
  <2>1. changed.files \subseteq Path /\ IsFiniteSet(changed.files)
    BY FS_Subset DEF IsCall, Typed
  <2> QED
    BY <1>3, <2>1, TypedAfter DEF IsCall, Fits
<1>6. /\ new.at = "scan" /\ new.tool = r.tool /\ new.files = changed.files
      /\ new.path = r.path /\ new.target = r.target
      /\ new.hits = IF "hits" \in DOMAIN changed THEN changed.hits ELSE r.hits
  BY <1>4 DEF After
<1>7. /\ r.tool = "grep" /\ Plain(r.path) /\ Plain(r.target)
      /\ IsFiniteSet(r.hits) /\ Cardinality(r.hits) <= MaxResults
      /\ r.at = "walk" => r.hits = {}
  BY DEF Placed, IsCall, Tools
<1>8. Placed(new)
  BY <1>6, <1>7 DEF Placed, Tools
<1> QED
  BY <1>3, <1>5, <1>8 DEF IsCall

-----------------------------------------------------------------------------
(* The files, the session and the calls *)

(* The session's roots lead somewhere. *)
IsSession ==
  /\ header \in Path \union {NOWHERE} /\ (cell # NOWHERE => cell.root \in Path)
  /\ calls \in 0..MaxCalls

(* The variables that have a value for each call. *)
EachHas ==
  /\ call = [c \in Caller |-> call[c]] /\ handle = [c \in Caller |-> handle[c]]
  /\ seen = [c \in Caller |-> seen[c]]

(* Who has a file open fills it, and it is there. *)
Opened(c) == handle[c] # NOWHERE => Is("file", tree, handle[c]) /\ call[c].at = "fill"

(* The tree is one, the calls are calls, and an open file is a file. *)
FilesInv ==
  /\ IsTree(tree) /\ IsSession /\ EachHas
  /\ \A c \in Caller : IsCall(call[c]) /\ Opened(c)

(* A call goes on, and the tree with it. *)
LEMMA FilesKept ==
  ASSUME FilesInv, NEW c \in Caller, NEW new, call' = [call EXCEPT ![c] = new], IsCall(new),
         IsTree(tree'), IsSession',
         seen' = [d \in Caller |-> seen'[d]], handle' = [d \in Caller |-> handle'[d]],
         \A d \in Caller : handle'[d] # NOWHERE =>
           Is("file", tree', handle'[d]) /\ call'[d].at = "fill"
  PROVE  FilesInv'
<1>1. /\ call' = [d \in Caller |-> call'[d]] /\ call'[c] = new
      /\ \A d \in Caller : d # c => call'[d] = call[d]
  BY DEF FilesInv, EachHas
<1>2. \A d \in Caller : IsCall(call'[d])
  <2> TAKE d \in Caller
  <2>1. CASE d = c
    BY <1>1, <2>1
  <2>2. CASE d # c
    BY <1>1, <2>2 DEF FilesInv
  <2> QED
    BY <2>1, <2>2
<1>3. EachHas'
  BY <1>1 DEF EachHas
<1> QED
  BY <1>2, <1>3 DEF FilesInv, Opened

(* A call that has no file open goes on, and leaves the tree as it is. *)
LEMMA TreeKept ==
  ASSUME FilesInv, NEW c \in Caller, NEW new, call' = [call EXCEPT ![c] = new], IsCall(new),
         call[c].at # "fill", UNCHANGED <<tree, handle>>, IsSession',
         seen' = [d \in Caller |-> seen'[d]]
  PROVE  FilesInv'
<1>1. \A d \in Caller : d # c => call'[d] = call[d]
  BY DEF FilesInv, EachHas
<1>2. handle[c] = NOWHERE
  BY DEF FilesInv, Opened
<1>3. \A d \in Caller : handle[d] # NOWHERE => Is("file", tree, handle[d]) /\ call'[d].at = "fill"
  <2> TAKE d \in Caller
  <2>1. CASE d = c
    BY <1>2, <2>1
  <2>2. CASE d # c
    BY <1>1, <2>2 DEF FilesInv, Opened
  <2> QED
    BY <2>1, <2>2
<1>4. IsTree(tree') /\ handle' = [d \in Caller |-> handle'[d]]
  BY DEF FilesInv, EachHas
<1> QED
  BY <1>3, <1>4, FilesKept

(* The same for a step that leaves the session as it is, too. *)
LEMMA QuietlyKept ==
  ASSUME FilesInv, NEW c \in Caller, NEW changed, Goes(c, changed),
         IsCall(With(call[c], changed)), call[c].at # "fill",
         UNCHANGED <<tree, session, calls, handle, seen>>
  PROVE  FilesInv'
<1>1. call' = [call EXCEPT ![c] = With(call[c], changed)]
  BY DEF Goes
<1>2. IsSession' /\ seen' = [d \in Caller |-> seen'[d]]
  BY DEF FilesInv, EachHas, IsSession, session
<1> QED
  BY <1>1, <1>2, TreeKept

(* A call that ends as it is. *)
LEMMA EndsAsCall ==
  ASSUME NEW r, IsCall(r), NEW result
  PROVE  IsCall(With(r, [at |-> "done", ok |-> result]))
<1>1. PICK changed : changed = [at |-> "done", ok |-> result]
  OBVIOUS
<1>2. DOMAIN changed = {"at", "ok"} /\ changed.at = "done"
  BY <1>1
<1>3. IsCall(With(r, changed))
  BY <1>2, DoneRecord
<1> QED
  BY <1>1, <1>3

(* A call comes, *)
LEMMA ArrivesFiles ==
  ASSUME FilesInv, NEW c \in Caller, NEW request \in Request, Arrives(c, request)
  PROVE  FilesInv'
<1>1. /\ call[c] = IDLE /\ calls < MaxCalls /\ calls' = calls + 1
      /\ call' = [call EXCEPT ![c] = With(With(IDLE, request), [at |-> "context"])]
      /\ UNCHANGED <<tree, session, handle, seen>>
  BY DEF Arrives
<1>2. PICK new : new = With(With(IDLE, request), [at |-> "context"])
  OBVIOUS
<1>3. IsCall(new)
  BY <1>2, RequestIs DEF IsCall
<1>4. call[c].at # "fill"
  BY <1>1, IdleHas
<1>5. IsSession'
  <2>1. calls \in 0..MaxCalls /\ MaxCalls \in Nat
    BY FileToolsAssumption DEF FilesInv, IsSession
  <2>2. calls' \in 0..MaxCalls
    BY <1>1, <2>1
  <2> QED
    BY <1>1, <2>2 DEF FilesInv, IsSession, session
<1>6. seen' = [d \in Caller |-> seen'[d]]
  BY <1>1 DEF FilesInv, EachHas
<1> QED
  BY <1>1, <1>2, <1>3, <1>4, <1>5, <1>6, TreeKept

(* and goes. *)
LEMMA ReturnsFiles ==
  ASSUME FilesInv, NEW c \in Caller, Returns(c)
  PROVE  FilesInv'
<1>1. /\ call[c].at = "done" /\ call' = [call EXCEPT ![c] = IDLE]
      /\ seen' = [seen EXCEPT ![c] = {}] /\ UNCHANGED <<tree, session, calls, handle>>
  BY DEF Returns
<1>2. IsCall(IDLE)
  BY IdleIs DEF IsCall
<1>3. IsSession'
  BY <1>1 DEF FilesInv, IsSession, session
<1>4. seen' = [d \in Caller |-> seen'[d]]
  BY <1>1 DEF FilesInv, EachHas
<1> QED
  BY <1>1, <1>2, <1>3, <1>4, TreeKept

(* It takes the context there is, *)
LEMMA TakesFiles ==
  ASSUME FilesInv, NEW c \in Caller, TakesContext(c)
  PROVE  FilesInv'
<1>1. PICK context : context = cell
  OBVIOUS
<1>2. PICK changed : changed = [at |-> "resolve", context |-> context]
  OBVIOUS
<1>3. /\ call[c].at = "context" /\ cell # NOWHERE /\ Goes(c, changed)
      /\ UNCHANGED <<tree, session, calls, handle, seen>>
  BY <1>1, <1>2 DEF TakesContext, HasContext
<1>4. IsCall(call[c]) /\ context.root \in Path
  BY <1>1, <1>3 DEF FilesInv, IsSession
<1>5. IsCall(With(call[c], changed))
  BY <1>2, <1>3, <1>4, ContextRecord
<1> QED
  BY <1>3, <1>5, QuietlyKept

(* builds one, *)
LEMMA BuildsFiles ==
  ASSUME FilesInv, NEW c \in Caller, call[c].at \in {"context", "roots"},
         NEW root \in Path, Walk(tree, root) # NOWHERE, Builds(c, root),
         UNCHANGED <<tree, header, calls, handle, seen>>
  PROVE  FilesInv'
<1>1. PICK context : context = Context(tree, Walk(tree, root))
  OBVIOUS
<1>2. PICK changed : changed = [at |-> "resolve", context |-> context]
  OBVIOUS
<1>3. Goes(c, changed) /\ cell' = context
  BY <1>1, <1>2 DEF Builds, HasContext
<1>4. Walk(tree, root) \in Path
  BY WalkIsEntry DEF FilesInv, IsTree
<1>5. context.root \in Path
  BY <1>1, <1>4 DEF Context
<1>6. IsCall(With(call[c], changed))
  BY <1>2, <1>5, ContextRecord DEF FilesInv
<1>7. IsSession'
  BY <1>3, <1>5 DEF FilesInv, IsSession
<1>8. seen' = [d \in Caller |-> seen'[d]]
  BY DEF FilesInv, EachHas
<1>9. call' = [call EXCEPT ![c] = With(call[c], changed)] /\ call[c].at # "fill"
  BY <1>3 DEF Goes
<1> QED
  BY <1>6, <1>7, <1>8, <1>9, TreeKept

(* or asks the client for the roots. *)
LEMMA AsksFiles ==
  ASSUME FilesInv, NEW c \in Caller, AsksRoots(c)
  PROVE  FilesInv'
<1>1. PICK changed : changed = [at |-> "roots"]
  OBVIOUS
<1>2. /\ call[c].at = "context" /\ Goes(c, changed)
      /\ UNCHANGED <<tree, header, cell, calls, handle, seen>>
  BY <1>1 DEF AsksRoots, NeedsRoots
<1>3. IsCall(With(call[c], changed))
  BY <1>1, <1>2, RootsRecord DEF FilesInv
<1>4. IsSession' /\ seen' = [d \in Caller |-> seen'[d]]
  BY <1>2 DEF FilesInv, EachHas, IsSession
<1>5. call' = [call EXCEPT ![c] = With(call[c], changed)] /\ call[c].at # "fill"
  BY <1>2 DEF Goes
<1> QED
  BY <1>2, <1>3, <1>4, <1>5, TreeKept

(* So it gets its context, or ends. *)
LEMMA ContextFiles ==
  ASSUME FilesInv, NEW c \in Caller, ContextNext(c)
  PROVE  FilesInv'
<1>1. CASE TakesContext(c)
  BY <1>1, TakesFiles
<1>2. CASE BuildsFromHeader(c)
  <2>1. /\ call[c].at = "context" /\ header # NOWHERE /\ Walk(tree, header) # NOWHERE
        /\ Builds(c, header) /\ UNCHANGED <<tree, header, calls, handle, seen>>
    BY <1>2 DEF BuildsFromHeader, HeaderWorks
  <2>2. header \in Path
    BY <2>1 DEF FilesInv, IsSession
  <2> QED
    BY <2>1, <2>2, BuildsFiles
<1>3. CASE AsksRoots(c)
  BY <1>3, AsksFiles
<1>4. ASSUME NEW root \in RootAnswer, RootsArrive(c, root) PROVE FilesInv'
  <2>1. call[c].at = "roots" /\ UNCHANGED <<tree, header, calls, handle, seen>>
    BY <1>4 DEF RootsArrive
  <2>2. CASE root # NOWHERE /\ Walk(tree, root) # NOWHERE
    <3>1. root \in Path
      BY <2>2, FileToolsAssumption
    <3>2. Builds(c, root)
      BY <1>4, <2>2 DEF RootsArrive
    <3> QED
      BY <2>1, <2>2, <3>1, <3>2, BuildsFiles
  <2>3. CASE ~(root # NOWHERE /\ Walk(tree, root) # NOWHERE)
    <3>1. Ends(c, FALSE) /\ UNCHANGED cell
      BY <1>4, <2>3 DEF RootsArrive
    <3>2. PICK new : new = With(call[c], [at |-> "done", ok |-> FALSE])
      OBVIOUS
    <3>3. IsCall(new)
      BY <3>2, EndsAsCall DEF FilesInv
    <3>4. call' = [call EXCEPT ![c] = new]
      BY <3>1, <3>2 DEF Ends, Goes
    <3>5. IsSession' /\ seen' = [d \in Caller |-> seen'[d]]
      BY <2>1, <3>1 DEF FilesInv, EachHas, IsSession
    <3> QED
      BY <2>1, <3>3, <3>4, <3>5, TreeKept
  <2> QED
    BY <2>2, <2>3
<1> QED
  BY <1>1, <1>2, <1>3, <1>4 DEF ContextNext

(* A call that ends without having changed anything. *)
LEMMA EndsFiles ==
  ASSUME FilesInv, NEW c \in Caller, NEW result, Ends(c, result), call[c].at # "fill",
         UNCHANGED <<tree, session, calls, handle, seen>>
  PROVE  FilesInv'
<1>1. PICK changed : changed = [at |-> "done", ok |-> result]
  OBVIOUS
<1>2. Goes(c, changed) /\ IsCall(With(call[c], changed))
  BY <1>1, EndsAsCall DEF Ends, FilesInv
<1> QED
  BY <1>2, QuietlyKept

(* Its paths are resolved and checked. *)
LEMMA ResolvesFiles ==
  ASSUME FilesInv, NEW c \in Caller, Resolves(c)
  PROVE  FilesInv'
<1>1. IsCall(call[c]) /\ WellFormed(tree) /\ call[c].at = "resolve"
  BY DEF FilesInv, IsTree, Resolves
<1>2. PICK root \in Path, raw \in Path, other \in Path :
        root = call[c].context.root /\ raw = call[c].path /\ other = call[c].target
  BY <1>1 DEF IsCall, Typed, Placed
<1>3. MakeAbsolute(root, raw) \in Path /\ MakeAbsolute(root, other) \in Path
  BY MakeAbsoluteIs
<1>4. PICK path \in Path, target \in Path :
        /\ path = Resolve(tree, MakeAbsolute(root, raw)) /\ Plain(path)
        /\ target = Resolve(tree, MakeAbsolute(root, other)) /\ Plain(target)
  BY <1>1, <1>3, ResolveLemma
<1>5. PICK changed : changed = [at |-> "check", path |-> path, target |-> target]
  OBVIOUS
<1>6. Goes(c, changed) /\ UNCHANGED <<tree, session, calls, handle, seen>>
  BY <1>2, <1>4, <1>5 DEF Resolves
<1>7. IsCall(With(call[c], changed))
  BY <1>1, <1>4, <1>5, ResolvedRecord
<1> QED
  BY <1>1, <1>6, <1>7, QuietlyKept

(* The same for the check. *)
LEMMA ChecksFiles ==
  ASSUME FilesInv, NEW c \in Caller, Checks(c)
  PROVE  FilesInv'
<1>1. IsCall(call[c]) /\ call[c].at = "check" /\ UNCHANGED <<tree, session, calls, handle, seen>>
  BY DEF FilesInv, Checks
<1>2. CASE Ends(c, FALSE)
  BY <1>1, <1>2, EndsFiles
<1>3. CASE Goes(c, [at |-> call[c].tool])
  <2>1. PICK changed : changed = [at |-> call[c].tool]
    OBVIOUS
  <2>2. DOMAIN changed = {"at"} /\ changed.at = call[c].tool
    BY <2>1
  <2>3. IsCall(With(call[c], changed))
    BY <1>1, <2>2, PlaceRecord
  <2> QED
    BY <1>1, <1>3, <2>1, <2>3, QuietlyKept
<1> QED
  BY <1>2, <1>3 DEF Checks

(* A file is read, or a folder listed. *)
LEMMA LooksFiles ==
  ASSUME FilesInv, NEW c \in Caller, Reads(c) \/ Lists(c)
  PROVE  FilesInv'
<1>1. /\ IsCall(call[c]) /\ call[c].at \in {"read", "list"}
      /\ UNCHANGED <<tree, session, calls, handle, seen>>
  BY DEF FilesInv, Reads, Lists
<1>2. CASE \E result : Ends(c, result)
  BY <1>1, <1>2, EndsFiles
<1>3. CASE call[c].at = "read" /\ \E hits : Goes(c, [at |-> "done", ok |-> TRUE, hits |-> hits])
  <2>1. PICK hits : Goes(c, [at |-> "done", ok |-> TRUE, hits |-> hits])
    BY <1>3
  <2>2. PICK changed : changed = [at |-> "done", ok |-> TRUE, hits |-> hits]
    OBVIOUS
  <2>3. DOMAIN changed = {"at", "ok", "hits"} /\ changed.at = "done"
    BY <2>2
  <2>4. call[c].tool = "read"
    BY <1>1, <1>3 DEF IsCall, Placed, Tools
  <2>5. IsCall(With(call[c], changed))
    BY <1>1, <2>3, <2>4, DoneRecord
  <2> QED
    BY <1>1, <2>1, <2>2, <2>5, QuietlyKept
<1> QED
  BY <1>2, <1>3 DEF Reads, Lists

(* An edit reads the text it is made of. *)
LEMMA EditReadsFiles ==
  ASSUME FilesInv, NEW c \in Caller, EditReads(c)
  PROVE  FilesInv'
<1>1. IsCall(call[c]) /\ call[c].at = "edit" /\ UNCHANGED <<session, calls, handle>>
  BY DEF FilesInv, EditReads
<1>2. CASE Ends(c, FALSE) /\ UNCHANGED <<tree, seen>>
  BY <1>1, <1>2, EndsFiles
<1>3. ASSUME ~(Ends(c, FALSE) /\ UNCHANGED <<tree, seen>>)
      PROVE  FilesInv'
  <2>1. PICK p : p = Walk(tree, call[c].path)
    OBVIOUS
  <2>2. PICK data : data = Edited(tree[p].text, call[c].start, call[c].stop, call[c].text)
    OBVIOUS
  <2>3. /\ call[c].stop >= call[c].start /\ Is("file", tree, p)
        /\ Goes(c, [at |-> "write", data |-> data]) /\ Sees(c, {p})
    BY <1>3, <2>1, <2>2 DEF EditReads
  <2>4. PICK text \in Text : text = tree[p].text
    BY <2>3 DEF FilesInv, IsTree, Is
  <2>5. PICK start \in Nat \ {0}, stop \in Nat \ {0}, new \in Text :
          start = call[c].start /\ stop = call[c].stop /\ new = call[c].text
    BY <1>1 DEF IsCall, Typed
  <2>6. start <= stop
    BY <2>3, <2>5
  <2>7. data \in Text
    BY <2>2, <2>4, <2>5, <2>6, EditedIs
  <2>8. PICK changed : changed = [at |-> "write", data |-> data]
    OBVIOUS
  <2>9. DOMAIN changed = {"at", "data"} /\ changed.at = "write" /\ changed.data = data
    BY <2>8
  <2>10. IsCall(With(call[c], changed))
    BY <1>1, <2>7, <2>9, PlaceRecord
  <2>11. call' = [call EXCEPT ![c] = With(call[c], changed)]
    BY <2>3, <2>8 DEF Goes
  <2>12. IsSession'
    BY <1>1 DEF FilesInv, IsSession, session
  <2>13. UNCHANGED <<tree, handle>> /\ seen' = [d \in Caller |-> seen'[d]]
    BY <1>1, <2>3 DEF Sees, FilesInv, EachHas
  <2> QED
    BY <1>1, <2>10, <2>11, <2>12, <2>13, TreeKept
<1> QED
  BY <1>2, <1>3

(* A file is opened, and emptied or made. *)
LEMMA OpensFiles ==
  ASSUME FilesInv, NEW c \in Caller, Opens(c)
  PROVE  FilesInv'
<1>1. IsCall(call[c]) /\ call[c].at = "write" /\ UNCHANGED <<session, calls>>
  BY DEF FilesInv, Opens
<1>2. PICK p : p = OpenPlace(tree, call[c].path)
  OBVIOUS
<1>3. CASE p # NOWHERE /\ (p \in DOMAIN tree => Is("file", tree, p))
  <2>1. PICK changed : changed = [at |-> "fill"]
    OBVIOUS
  <2>2. /\ Goes(c, changed) /\ handle' = [handle EXCEPT ![c] = p]
        /\ Changes(c, p, Put(tree, p, File(<<>>)))
    BY <1>2, <1>3, <2>1 DEF Opens
  <2>3. Slot(tree, p) /\ IsTree(tree)
    BY <1>1, <1>2, <1>3, OpenPlaceIs DEF FilesInv, IsTree, IsCall, Typed, Placed, Tools
  <2>4. ~Is("dir", tree, p)
    BY <1>3 DEF Is
  <2>5. PICK u : u = Put(tree, p, File(<<>>))
    OBVIOUS
  <2>6. <<>> \in Text
    BY DEF Text
  <2>7. IsTree(u) /\ Is("file", u, p) /\ \A q : Is("file", tree, q) => Is("file", u, q)
    BY <2>3, <2>4, <2>5, <2>6, PutTree
  <2>8. tree' = u /\ seen' = [d \in Caller |-> seen'[d]]
    BY <2>2, <2>5 DEF Changes
  <2>9. DOMAIN changed = {"at"} /\ changed.at = "fill"
    BY <2>1
  <2>10. PICK new : new = With(call[c], changed)
    OBVIOUS
  <2>11. IsCall(new) /\ new.at = "fill"
    BY <1>1, <2>9, <2>10, PlaceRecord, AfterIs DEF IsCall, Typed, After
  <2>12. call' = [call EXCEPT ![c] = new]
    BY <2>2, <2>10 DEF Goes
  <2>13. /\ call'[c] = new /\ \A d \in Caller : d # c => call'[d] = call[d]
    BY <2>12 DEF FilesInv, EachHas
  <2>14. /\ handle' = [d \in Caller |-> handle'[d]] /\ handle'[c] = p
         /\ \A d \in Caller : d # c => handle'[d] = handle[d]
    BY <2>2 DEF FilesInv, EachHas
  <2>15. \A d \in Caller : handle'[d] # NOWHERE => Is("file", u, handle'[d]) /\ call'[d].at = "fill"
    <3> TAKE d \in Caller
    <3>1. CASE d = c
      BY <2>7, <2>11, <2>13, <2>14, <3>1
    <3>2. CASE d # c
      BY <2>7, <2>13, <2>14, <3>2 DEF FilesInv, Opened
    <3> QED
      BY <3>1, <3>2
  <2>16. IsSession'
    BY <1>1 DEF FilesInv, IsSession, session
  <2> QED
    BY <2>7, <2>8, <2>11, <2>12, <2>14, <2>15, <2>16, FilesKept
<1>4. CASE ~(p # NOWHERE /\ (p \in DOMAIN tree => Is("file", tree, p)))
  <2>1. Ends(c, FALSE) /\ UNCHANGED <<tree, seen, handle>>
    BY <1>2, <1>4 DEF Opens
  <2> QED
    BY <1>1, <2>1, EndsFiles
<1> QED
  BY <1>3, <1>4

(* An open file is filled, unless it is gone. *)
LEMMA FillsFiles ==
  ASSUME FilesInv, NEW c \in Caller, Fills(c)
  PROVE  FilesInv'
<1>1. /\ IsCall(call[c]) /\ call[c].at = "fill" /\ UNCHANGED <<session, calls>>
      /\ handle' = [handle EXCEPT ![c] = NOWHERE] /\ Ends(c, TRUE)
  BY DEF FilesInv, Fills
<1>2. PICK data \in Text : data = IF call[c].tool = "edit" THEN call[c].data ELSE call[c].text
  BY <1>1 DEF IsCall, Typed
<1>3. PICK p : p = handle[c]
  OBVIOUS
<1>4. PICK u : u = IF p = NOWHERE THEN tree ELSE Put(tree, p, File(data \o From(tree[p].text, data)))
  OBVIOUS
<1>5. tree' = u /\ seen' = [d \in Caller |-> seen'[d]]
  BY <1>2, <1>3, <1>4 DEF Fills, Changes
<1>6. IsTree(u) /\ \A q : Is("file", tree, q) => Is("file", u, q)
  <2>1. CASE p = NOWHERE
    BY <1>4, <2>1 DEF FilesInv
  <2>2. CASE p # NOWHERE
    <3>1. Is("file", tree, p) /\ IsTree(tree)
      BY <1>3, <2>2 DEF FilesInv, Opened
    <3>2. Slot(tree, p) /\ ~Is("dir", tree, p) /\ tree[p].text \in Text
      BY <3>1, FileIsSlot DEF IsTree, Is
    <3>3. PICK text \in Text : text = data \o From(tree[p].text, data)
      BY <3>2, TextFromIs
    <3>4. u = Put(tree, p, File(text))
      BY <1>4, <2>2, <3>3
    <3> QED
      BY <3>1, <3>2, <3>4, PutTree
  <2> QED
    BY <2>1, <2>2
<1>7. PICK new : new = With(call[c], [at |-> "done", ok |-> TRUE])
  OBVIOUS
<1>8. IsCall(new)
  BY <1>1, <1>7, EndsAsCall
<1>9. call' = [call EXCEPT ![c] = new]
  BY <1>1, <1>7 DEF Ends, Goes
<1>10. \A d \in Caller : d # c => call'[d] = call[d]
  BY <1>9 DEF FilesInv, EachHas
<1>11. /\ handle' = [d \in Caller |-> handle'[d]] /\ handle'[c] = NOWHERE
       /\ \A d \in Caller : d # c => handle'[d] = handle[d]
  BY <1>1 DEF FilesInv, EachHas
<1>12. \A d \in Caller : handle'[d] # NOWHERE => Is("file", u, handle'[d]) /\ call'[d].at = "fill"
  BY <1>6, <1>10, <1>11 DEF FilesInv, Opened
<1>13. IsSession'
  BY <1>1 DEF FilesInv, IsSession, session
<1> QED
  BY <1>5, <1>6, <1>8, <1>9, <1>11, <1>12, <1>13, FilesKept

(* An entry is moved, and the open files that are in it. *)
LEMMA MovesFiles ==
  ASSUME FilesInv, NEW c \in Caller, Moves(c)
  PROVE  FilesInv'
<1>1. IsCall(call[c]) /\ call[c].at = "move" /\ UNCHANGED <<session, calls>>
  BY DEF FilesInv, Moves
<1>2. PICK source, target : source = Place(tree, call[c].path) /\ target = Place(tree, call[c].target)
  OBVIOUS
<1>3. CASE source # NOWHERE /\ MayRename(tree, source, target)
  <2>1. PICK u : u = Renamed(tree, source, target)
    OBVIOUS
  <2>2. /\ Changes(c, target, u) /\ Ends(c, TRUE)
        /\ handle' = [d \in Caller |->
             IF handle[d] = NOWHERE \/ (handle[d] = target /\ source # target) THEN NOWHERE
             ELSE Moved(source, target, handle[d])]
    BY <1>2, <1>3, <2>1 DEF Moves
  <2>3. Slot(tree, source) /\ Slot(tree, target) /\ IsTree(tree)
    <3>1. target # NOWHERE
      BY <1>3 DEF MayRename
    <3>2. /\ call[c].path \in Path /\ Plain(call[c].path)
          /\ call[c].target \in Path /\ Plain(call[c].target)
      BY <1>1 DEF IsCall, Typed, Placed, Tools
    <3> QED
      BY <1>2, <1>3, <3>1, <3>2, PlaceIs DEF FilesInv, IsTree
  <2>4. /\ IsTree(u)
        /\ \A h : Is("file", tree, h) /\ ~(h = target /\ source # target) =>
             Is("file", u, Moved(source, target, h))
    BY <1>3, <2>1, <2>3, RenamedTree
  <2>5. tree' = u /\ seen' = [d \in Caller |-> seen'[d]]
    BY <2>2 DEF Changes
  <2>6. PICK new : new = With(call[c], [at |-> "done", ok |-> TRUE])
    OBVIOUS
  <2>7. IsCall(new) /\ call' = [call EXCEPT ![c] = new]
    BY <1>1, <2>2, <2>6, EndsAsCall DEF Ends, Goes
  <2>8. \A d \in Caller : d # c => call'[d] = call[d]
    BY <2>7 DEF FilesInv, EachHas
  <2>9. /\ handle' = [d \in Caller |-> handle'[d]]
        /\ \A d \in Caller : handle'[d] =
             IF handle[d] = NOWHERE \/ (handle[d] = target /\ source # target) THEN NOWHERE
             ELSE Moved(source, target, handle[d])
    BY <2>2
  <2>10. ASSUME NEW d \in Caller, handle'[d] # NOWHERE
         PROVE  Is("file", u, handle'[d]) /\ call'[d].at = "fill"
    <3>1. /\ handle[d] # NOWHERE /\ ~(handle[d] = target /\ source # target)
          /\ handle'[d] = Moved(source, target, handle[d])
      BY <2>9, <2>10
    <3>2. Is("file", tree, handle[d]) /\ call[d].at = "fill"
      BY <3>1 DEF FilesInv, Opened
    <3>3. d # c
      BY <1>1, <3>2
    <3> QED
      BY <2>4, <2>8, <3>1, <3>2, <3>3
  <2>11. IsSession'
    BY <1>1 DEF FilesInv, IsSession, session
  <2> QED
    BY <2>4, <2>5, <2>7, <2>9, <2>10, <2>11, FilesKept
<1>4. CASE ~(source # NOWHERE /\ MayRename(tree, source, target))
  <2>1. Ends(c, FALSE) /\ UNCHANGED <<tree, seen, handle>>
    BY <1>2, <1>4 DEF Moves
  <2> QED
    BY <1>1, <2>1, EndsFiles
<1> QED
  BY <1>3, <1>4

(* Folders are made. *)
LEMMA MakesFiles ==
  ASSUME FilesInv, NEW c \in Caller, Makes(c)
  PROVE  FilesInv'
<1>1. IsCall(call[c]) /\ call[c].at = "make" /\ UNCHANGED <<session, calls, handle>>
  BY DEF FilesInv, Makes
<1>2. CASE MayMake(tree, call[c].path)
  <2>1. PICK u : u = Made(tree, call[c].path)
    OBVIOUS
  <2>2. Changes(c, call[c].path, u) /\ Ends(c, TRUE)
    BY <1>2, <2>1 DEF Makes
  <2>3. IsTree(u) /\ \A q : Is("file", tree, q) => Is("file", u, q)
    BY <1>1, <1>2, <2>1, MadeTree DEF FilesInv, IsCall, Typed, Placed, Tools
  <2>4. tree' = u /\ seen' = [d \in Caller |-> seen'[d]]
    BY <2>2 DEF Changes
  <2>5. PICK new : new = With(call[c], [at |-> "done", ok |-> TRUE])
    OBVIOUS
  <2>6. IsCall(new) /\ call' = [call EXCEPT ![c] = new]
    BY <1>1, <2>2, <2>5, EndsAsCall DEF Ends, Goes
  <2>7. \A d \in Caller : d # c => call'[d] = call[d]
    BY <2>6 DEF FilesInv, EachHas
  <2>8. handle[c] = NOWHERE
    BY <1>1 DEF FilesInv, Opened
  <2>9. ASSUME NEW d \in Caller, handle'[d] # NOWHERE
        PROVE  Is("file", u, handle'[d]) /\ call'[d].at = "fill"
    <3>1. handle'[d] = handle[d] /\ d # c
      BY <1>1, <2>8, <2>9
    <3> QED
      BY <2>3, <2>7, <2>9, <3>1 DEF FilesInv, Opened
  <2>10. IsSession' /\ handle' = [d \in Caller |-> handle'[d]]
    BY <1>1 DEF FilesInv, IsSession, EachHas, session
  <2> QED
    BY <2>3, <2>4, <2>6, <2>9, <2>10, FilesKept
<1>3. CASE ~MayMake(tree, call[c].path)
  <2>1. Ends(c, FALSE) /\ UNCHANGED <<tree, seen>>
    BY <1>3 DEF Makes
  <2> QED
    BY <1>1, <2>1, EndsFiles
<1> QED
  BY <1>2, <1>3

-----------------------------------------------------------------------------
(* The searches *)

(* The entries of a folder are finitely many paths. *)
LEMMA EntriesAre ==
  ASSUME IsTree(tree), NEW d \in Path, NEW kind
  PROVE  Entries(d, kind) \subseteq Path /\ IsFiniteSet(Entries(d, kind))
<1>1. PICK at : at = Walk(tree, d)
  OBVIOUS
<1> DEFINE Q == {q \in DOMAIN tree : Parent(q) = at /\ q # at
                                       /\ ~Hidden(Last(q)) /\ tree[q].kind = kind}
           f == [q \in Q |-> Append(d, Last(q))]
<1>2. Entries(d, kind) = {f[q] : q \in Q}
  BY <1>1 DEF Entries
<1>3. IsFiniteSet(Q)
  BY FS_Subset DEF IsTree
<1>4. ASSUME NEW q \in Q PROVE f[q] \in Path
  <2>1. q \in DOMAIN tree /\ Parent(q) = at /\ q # at /\ f[q] = Append(d, Last(q))
    OBVIOUS
  <2>2. q # <<>>
    BY <2>1 DEF Parent
  <2>3. PICK b \in Path, name \in STRING : q = Append(b, name)
    BY <2>1, <2>2, EntryIs DEF IsTree
  <2>4. Last(q) = name
    BY <2>3, AppendIs DEF Path
  <2>5. Append(d, name) \in Path
    BY AppendIs DEF Path
  <2> QED
    BY <2>1, <2>4, <2>5
<1>5. DOMAIN f = Q
  OBVIOUS
<1> HIDE DEF f, Q
<1>6. IsFiniteSet({f[q] : q \in Q})
  BY <1>3, <1>5, ImageIsFinite
<1> QED
  BY <1>2, <1>4, <1>6

(* A search begins, *)
LEMMA WalkStartsFiles ==
  ASSUME FilesInv, NEW c \in Caller, WalkStarts(c)
  PROVE  FilesInv'
<1>1. IsCall(call[c]) /\ call[c].at \in {"glob", "grep"}
      /\ UNCHANGED <<session, calls, handle>> /\ Sees(c, DOMAIN tree)
  BY DEF FilesInv, WalkStarts
<1>2. PICK files, dirs : /\ files \in {{}, {call[c].path}} /\ dirs \in {{}, {call[c].path}}
                         /\ Goes(c, [at |-> "walk", files |-> files, dirs |-> dirs])
  BY DEF WalkStarts
<1>3. PICK changed : changed = [at |-> "walk", files |-> files, dirs |-> dirs]
  OBVIOUS
<1>4. /\ DOMAIN changed = {"at", "files", "dirs"} /\ changed.at = "walk"
      /\ changed.files = files /\ changed.dirs = dirs
  BY <1>3
<1>5. call[c].path \in Path
  BY <1>1 DEF IsCall, Typed
<1>6. files \subseteq Path /\ IsFiniteSet(files) /\ dirs \subseteq Path
  <2>1. IsFiniteSet({}) /\ IsFiniteSet({call[c].path})
    BY FS_EmptySet, FS_Singleton
  <2> QED
    BY <1>2, <1>5, <2>1
<1>7. IsCall(With(call[c], changed))
  BY <1>1, <1>4, <1>6, WalkRecord
<1>8. call' = [call EXCEPT ![c] = With(call[c], changed)]
  BY <1>2, <1>3 DEF Goes
<1>9. IsSession' /\ UNCHANGED <<tree, handle>> /\ seen' = [d \in Caller |-> seen'[d]]
  BY <1>1 DEF FilesInv, IsSession, EachHas, session, Sees
<1>10. call[c].at # "fill"
  BY <1>1
<1> QED
  BY <1>7, <1>8, <1>9, <1>10, TreeKept

(* lists folders, *)
LEMMA ListsFiles ==
  ASSUME FilesInv, NEW c \in Caller, NEW d, ListsFolder(c, d)
  PROVE  FilesInv'
<1>1. /\ IsCall(call[c]) /\ call[c].at = "walk" /\ d \in call[c].dirs
      /\ UNCHANGED <<tree, session, calls, handle, seen>>
  BY DEF FilesInv, ListsFolder, Listing
<1>2. PICK files, dirs : /\ files = call[c].files \union Entries(d, "file")
                         /\ dirs = (call[c].dirs \ {d}) \union Entries(d, "dir")
  OBVIOUS
<1>3. PICK changed : changed = [dirs |-> dirs, files |-> files]
  OBVIOUS
<1>4. Goes(c, changed)
  BY <1>2, <1>3 DEF ListsFolder, Listing
<1>5. DOMAIN changed = {"dirs", "files"} /\ changed.files = files /\ changed.dirs = dirs
  BY <1>3
<1>6. call[c].files \subseteq Path /\ IsFiniteSet(call[c].files) /\ call[c].dirs \subseteq Path
  BY <1>1 DEF IsCall, Typed
<1>7. d \in Path /\ IsTree(tree)
  BY <1>1, <1>6 DEF FilesInv
<1>8. /\ Entries(d, "file") \subseteq Path /\ IsFiniteSet(Entries(d, "file"))
      /\ Entries(d, "dir") \subseteq Path
  BY <1>7, EntriesAre
<1>9. files \subseteq Path /\ IsFiniteSet(files) /\ dirs \subseteq Path
  BY <1>2, <1>6, <1>8, FS_Union
<1>10. IsCall(With(call[c], changed))
  BY <1>1, <1>5, <1>9, WalkRecord
<1> QED
  BY <1>1, <1>4, <1>10, QuietlyKept

(* has them all, *)
LEMMA WalkEndsFiles ==
  ASSUME FilesInv, NEW c \in Caller, WalkEnds(c)
  PROVE  FilesInv'
<1>1. /\ IsCall(call[c]) /\ call[c].at = "walk"
      /\ UNCHANGED <<tree, session, calls, handle, seen>>
  BY DEF FilesInv, WalkEnds
<1>2. PICK files : files = {p \in call[c].files : Included(c, p)}
  OBVIOUS
<1>3. files \in SUBSET call[c].files /\ IsFiniteSet(files)
  <2>1. files \in SUBSET call[c].files /\ IsFiniteSet(call[c].files)
    BY <1>1, <1>2 DEF IsCall, Typed
  <2> QED
    BY <2>1, FS_Subset
<1>4. CASE call[c].tool = "glob"
  <2>1. PICK some : some = SomeOf(files, MaxResults)
    OBVIOUS
  <2>2. MaxResults \in Nat
    BY FileToolsAssumption
  <2>3. IsFiniteSet(some) /\ Cardinality(some) <= MaxResults
    BY <1>3, <2>1, <2>2, SomeOfIs
  <2>4. PICK hits : hits = {<<p, 0>> : p \in some}
    OBVIOUS
  <2>5. IsFiniteSet(hits) /\ Cardinality(hits) <= MaxResults
    <3> DEFINE f == [p \in some |-> <<p, 0>>]
    <3>1. DOMAIN f = some /\ hits = {f[p] : p \in some}
      BY <2>4
    <3> HIDE DEF f
    <3>2. IsFiniteSet(hits) /\ Cardinality(hits) <= Cardinality(some)
      BY <2>3, <3>1, ImageIsFinite
    <3>3. Cardinality(hits) \in Nat /\ Cardinality(some) \in Nat
      BY <2>3, <3>2, FS_CardinalityType
    <3> QED
      BY <2>2, <2>3, <3>2, <3>3
  <2>6. PICK cut : cut = (Cardinality(files) > MaxResults)
    OBVIOUS
  <2>7. PICK changed : changed = [at |-> "done", ok |-> TRUE, cut |-> cut, hits |-> hits]
    OBVIOUS
  <2>8. Goes(c, changed)
    BY <1>2, <1>4, <2>1, <2>4, <2>6, <2>7 DEF WalkEnds
  <2>9. DOMAIN changed = {"at", "ok", "cut", "hits"} /\ changed.at = "done" /\ changed.hits = hits
    BY <2>7
  <2>10. IsCall(With(call[c], changed))
    BY <1>1, <2>5, <2>9, DoneRecord
  <2> QED
    BY <1>1, <2>8, <2>10, QuietlyKept
<1>5. CASE call[c].tool # "glob"
  <2>1. PICK changed : changed = [at |-> "scan", files |-> files]
    OBVIOUS
  <2>2. Goes(c, changed)
    BY <1>2, <1>5, <2>1 DEF WalkEnds
  <2>3. DOMAIN changed = {"at", "files"} /\ changed.at = "scan" /\ changed.files = files
    BY <2>1
  <2>4. IsCall(With(call[c], changed))
    BY <1>1, <1>3, <1>5, <2>3, ScanRecord
  <2> QED
    BY <1>1, <2>2, <2>4, QuietlyKept
<1> QED
  BY <1>4, <1>5

(* What a file is found to have adds to what others had. *)
Found(c, p) ==
  LET at == Walk(tree, p)
  IN  IF Is("file", tree, at) /\ Check(tree, call[c].context, "read", p)
        THEN Matching(tree[at].text) ELSE {}

(* It is so much of it as there is room for, ... *)
LEMMA FileHitsAre ==
  ASSUME NEW c \in Caller, NEW p
  PROVE  FileHits(c, p) =
           {<<p, n>> : n \in First(Found(c, p), MaxResults - Cardinality(call[c].hits))}
BY DEF FileHits, Found, First, Lesser

(* ... and there are finitely many. *)
LEMMA FoundAre ==
  ASSUME IsTree(tree), NEW c \in Caller, NEW p \in Path
  PROVE  Found(c, p) \subseteq Nat /\ IsFiniteSet(Found(c, p))
<1>1. PICK at : at = Walk(tree, p)
  OBVIOUS
<1>2. CASE Is("file", tree, at) /\ Check(tree, call[c].context, "read", p)
  <2>1. PICK text \in Text : text = tree[at].text
    BY <1>2 DEF IsTree, Is
  <2>2. Found(c, p) = Matching(text)
    BY <1>1, <1>2, <2>1 DEF Found
  <2> QED
    BY <2>2, MatchingIs
<1>3. CASE ~(Is("file", tree, at) /\ Check(tree, call[c].context, "read", p))
  <2>1. Found(c, p) = {}
    BY <1>1, <1>3 DEF Found
  <2> QED
    BY <2>1, FS_EmptySet
<1> QED
  BY <1>2, <1>3

(* reads them, *)
LEMMA ScansFiles ==
  ASSUME FilesInv, NEW c \in Caller, NEW p, Scans(c, p)
  PROVE  FilesInv'
<1>1. /\ IsCall(call[c]) /\ call[c].at = "scan" /\ p \in call[c].files
      /\ Cardinality(call[c].hits) < MaxResults
      /\ UNCHANGED <<tree, session, calls, handle, seen>>
  BY DEF FilesInv, Scans
<1>2. PICK old : old = call[c].hits
  OBVIOUS
<1>3. /\ IsFiniteSet(old) /\ p \in Path
      /\ \A hit \in old : hit[1] # p /\ hit[1] \notin call[c].files
  BY <1>1, <1>2 DEF IsCall, Typed, Placed
<1>4. PICK found : found = Found(c, p)
  OBVIOUS
<1>5. found \subseteq Nat /\ IsFiniteSet(found)
  BY <1>3, <1>4, FoundAre DEF FilesInv
<1>6. PICK more : more = {<<p, n>> : n \in First(found, MaxResults - Cardinality(old))}
  OBVIOUS
<1>7. more = FileHits(c, p)
  BY <1>2, <1>4, <1>6, FileHitsAre
<1>8. IsFiniteSet(old \union more) /\ Cardinality(old \union more) <= MaxResults
  <2>1. Grown(old, p, found, old \union more)
    <3>1. Cardinality(old) < MaxResults /\ IsFiniteSet(old) /\ \A hit \in old : hit[1] # p
      BY <1>1, <1>2, <1>3
    <3>2. Grown(old, p, found,
                old \union {<<p, n>> : n \in First(found, MaxResults - Cardinality(old))})
      BY <1>5, <3>1, HitsGrow
    <3> QED
      BY <1>6, <3>2
  <2> QED
    BY <2>1 DEF Grown
<1>9. PICK changed : changed = [files |-> call[c].files \ {p}, hits |-> old \union more]
  OBVIOUS
<1>10. /\ DOMAIN changed = {"files", "hits"} /\ changed.files = call[c].files \ {p}
       /\ changed.hits = old \union more
  BY <1>9
<1>11. \A hit \in changed.hits : hit[1] \notin changed.files
  BY <1>3, <1>6, <1>10
<1>12. IsCall(With(call[c], changed))
  BY <1>1, <1>8, <1>10, <1>11, ScanRecord
<1>13. Goes(c, changed)
  BY <1>2, <1>7, <1>9 DEF Scans
<1> QED
  BY <1>1, <1>12, <1>13, QuietlyKept

(* and has enough or no more to read. *)
LEMMA ScanEndsFiles ==
  ASSUME FilesInv, NEW c \in Caller, ScanEnds(c)
  PROVE  FilesInv'
<1>1. /\ IsCall(call[c]) /\ call[c].at = "scan"
      /\ UNCHANGED <<tree, session, calls, handle, seen>>
  BY DEF FilesInv, ScanEnds
<1>2. PICK cut : Goes(c, [at |-> "done", ok |-> TRUE, cut |-> cut])
  BY DEF ScanEnds
<1>3. PICK changed : changed = [at |-> "done", ok |-> TRUE, cut |-> cut]
  OBVIOUS
<1>4. DOMAIN changed = {"at", "ok", "cut"} /\ changed.at = "done"
  BY <1>3
<1>5. IsCall(With(call[c], changed))
  BY <1>1, <1>4, DoneRecord
<1> QED
  BY <1>1, <1>2, <1>3, <1>5, QuietlyKept

-----------------------------------------------------------------------------
(* At first there is the tree the session finds, and nobody has called. *)
LEMMA FilesInit ==
  ASSUME Init
  PROVE  FilesInv
<1>1. /\ tree = InitialTree /\ header \in Header /\ cell = NOWHERE /\ calls = 0
      /\ call = [c \in Caller |-> IDLE] /\ handle = [c \in Caller |-> NOWHERE]
      /\ seen = [c \in Caller |-> {}]
  BY DEF Init
<1>2. IsTree(tree) /\ IsSession
  BY <1>1, FileToolsAssumption DEF IsTree, IsSession
<1>3. EachHas
  BY <1>1 DEF EachHas
<1>4. \A c \in Caller : IsCall(call[c]) /\ Opened(c)
  BY <1>1, IdleIs DEF IsCall, Opened
<1> QED
  BY <1>2, <1>3, <1>4 DEF FilesInv

(* Every step keeps the tree, the session and the calls. *)
LEMMA FilesNextKeeps ==
  ASSUME FilesInv, [Next]_vars
  PROVE  FilesInv'
<1>1. CASE UNCHANGED vars
  <2>1. UNCHANGED <<tree, header, cell, call, calls, handle, seen>>
    BY <1>1 DEF vars, session
  <2> QED
    BY <2>1 DEF FilesInv, IsSession, EachHas, Opened
<1>2. ASSUME NEW c \in Caller, CallNext(c)
      PROVE  FilesInv'
  <2>1. CASE ContextNext(c)
    BY <2>1, ContextFiles
  <2>2. CASE Resolves(c) \/ Checks(c) \/ Returns(c)
    BY <2>2, ResolvesFiles, ChecksFiles, ReturnsFiles
  <2>3. CASE Reads(c) \/ Lists(c) \/ EditReads(c)
    BY <2>3, LooksFiles, EditReadsFiles
  <2>4. CASE Opens(c) \/ Fills(c) \/ Moves(c) \/ Makes(c)
    BY <2>4, OpensFiles, FillsFiles, MovesFiles, MakesFiles
  <2>5. CASE SearchNext(c)
    BY <2>5, WalkStartsFiles, WalkEndsFiles, ScanEndsFiles, ListsFiles, ScansFiles DEF SearchNext
  <2> QED
    BY <1>2, <2>1, <2>2, <2>3, <2>4, <2>5 DEF CallNext
<1>3. ASSUME NEW c \in Caller, NEW request \in Request, Arrives(c, request)
      PROVE  FilesInv'
  BY <1>3, ArrivesFiles
<1> QED
  BY <1>1, <1>2, <1>3 DEF Next

(* The invariant says that the state is well formed. *)
LEMMA FilesTyped ==
  ASSUME FilesInv
  PROVE  TypeOK
<1>1. WellFormed(tree) /\ calls \in 0..MaxCalls
  BY DEF FilesInv, IsTree, IsSession
<1>2. ASSUME NEW c \in Caller
      PROVE  /\ DOMAIN call[c] = DOMAIN IDLE
             /\ handle[c] # NOWHERE => Is("file", tree, handle[c]) /\ call[c].at = "fill"
             /\ call[c].tool \in {"glob", "grep"} => Cardinality(call[c].hits) <= MaxResults
  BY DEF FilesInv, IsCall, Typed, Placed, Opened
<1> QED
  BY <1>1, <1>2 DEF TypeOK

(* Whatever the calls make of the files, and whatever they interrupt each  *)
(* other in, the tree is a tree, a file that is open is one of its files,  *)
(* and no search has more than MAX_RESULTS hits.                           *)
THEOREM TypeCorrect == FairSpec => []TypeOK
<1>1. Init => FilesInv
  BY FilesInit
<1>2. FilesInv /\ [Next]_vars => FilesInv'
  BY FilesNextKeeps
<1>3. FilesInv => TypeOK
  BY FilesTyped
<1> QED
  BY <1>1, <1>2, <1>3, PTL DEF FairSpec

(* resolve_symlinks: in every tree that calls leave behind, the path that  *)
(* is checked is the one the kernel comes to, whatever links and .. are on *)
(* the way, and to resolve it again changes nothing.                       *)
THEOREM ResolveIsWalkHolds == FairSpec => []ResolveIsWalk
<1>1. Init => FilesInv
  BY FilesInit
<1>2. FilesInv /\ [Next]_vars => FilesInv'
  BY FilesNextKeeps
<1>3. FilesInv => ResolveIsWalk
  <2> SUFFICES ASSUME FilesInv
               PROVE  ResolveIsWalk
    OBVIOUS
  <2>1. WellFormed(tree) /\ (cell # NOWHERE => cell.root \in Path)
    BY DEF FilesInv, IsTree, IsSession
  <2>2. ASSUME cell # NOWHERE, \A c \in Caller : call[c] = IDLE, NEW request \in Request
        PROVE  LET p == MakeAbsolute(cell.root, request.path) IN
               /\ Walk(tree, p) # NOWHERE => Resolve(tree, p) = Walk(tree, p)
               /\ Resolve(tree, Resolve(tree, p)) = Resolve(tree, p)
    <3>1. request.path \in Path
      BY FileToolsAssumption DEF Types
    <3>2. PICK p \in Path : p = MakeAbsolute(cell.root, request.path)
      BY <2>1, <2>2, <3>1, MakeAbsoluteIs
    <3> QED
      BY <2>1, <3>2, ResolveLemma
  <2> QED
    BY <2>2, FilesTyped DEF ResolveIsWalk
<1> QED
  BY <1>1, <1>2, <1>3, PTL DEF FairSpec

-----------------------------------------------------------------------------
(* What a call has seen, and nobody else has changed *)

(* The file is there, and has the text. *)
Still(t, p, text) == Is("file", t, p) /\ t[p].text = text

(* What the call e writes is the edit it was asked for, of this text. *)
IsEdit(e, text) ==
  text \in Text /\ e.start <= e.stop /\ e.data = Edited(text, e.start, e.stop, e.text)

(* An edit finds its file as it has read it, then empty, then as it made it. *)
EditHolds(t, e, h, p, text) ==
  e.tool = "edit" =>
    /\ e.at = "write" => IsEdit(e, text) /\ Still(t, p, text)
    /\ e.at = "fill" => IsEdit(e, text) /\ Still(t, p, <<>>) /\ h \in {NOWHERE, p}
    /\ e.at = "done" /\ e.ok => IsEdit(e, text) /\ Still(t, p, e.data)

(* What the search e is to find and may read. *)
Inside(e, p) ==
  /\ IsPrefix(e.path, p)
  /\ e.include = ANY \/ (From(p, e.path) # <<>> /\ Last(From(p, e.path)) = e.include)
  /\ e.tool = "grep" => ~Denied(e.context, p) /\ Allowed(e.context, "read", p)
  /\ \A i \in Len(e.path) + 1..Len(p) : ~Hidden(p[i])

(* All there is to be found in the file. *)
AllHits(e, p, text) ==
  \A n \in IF e.tool = "glob" THEN {0} ELSE Matching(text) : <<p, n>> \in e.hits

(* A search has found it, or has still to look where it is. *)
SearchHolds(t, e, p, text) ==
  e.tool \in {"glob", "grep"} =>
    /\ e.at \in {"walk", "scan"} \/ (e.at = "done" /\ e.ok) => Still(t, p, text)
    /\ Inside(e, p) =>
         /\ e.at = "walk" => \/ p \in e.files
                             \/ \E d \in e.dirs : IsPrefix(e.path, d) /\ IsStrictPrefix(d, p)
         /\ e.at = "scan" => \/ p \in e.files \/ AllHits(e, p, text)
                             \/ Cardinality(e.hits) >= MaxResults
         /\ e.at = "done" /\ e.ok /\ ~e.cut => AllHits(e, p, text)

SeenHolds(t, e, h, p, text) == EditHolds(t, e, h, p, text) /\ SearchHolds(t, e, p, text)

(* Of all that a call has seen and nobody else has changed, both hold. *)
SeenInv == \A c \in Caller : \A x \in seen[c] : SeenHolds(tree, call[c], handle[c], x[1], x[2])

(* It holds as long as the file does not change. *)
LEMMA SeenKept ==
  ASSUME NEW t, NEW e, NEW h, NEW p, NEW text, SeenHolds(t, e, h, p, text),
         NEW u, p \in DOMAIN t => p \in DOMAIN u /\ u[p] = t[p],
         NEW k, h \in {NOWHERE, p} => k \in {NOWHERE, p}
  PROVE  SeenHolds(u, e, k, p, text)
<1>1. \A as : Still(t, p, as) => Still(u, p, as)
  BY DEF Still, Is
<1>2. EditHolds(u, e, k, p, text)
  BY <1>1 DEF SeenHolds, EditHolds
<1>3. SearchHolds(u, e, p, text)
  BY <1>1 DEF SeenHolds, SearchHolds
<1> QED
  BY <1>2, <1>3 DEF SeenHolds

(* A call that is not in the midst of it, and has not done it, owes nothing. *)
Idles(e) ==
  /\ e.tool = "edit" => e.at \notin {"write", "fill"} /\ ~(e.at = "done" /\ e.ok)
  /\ e.tool \in {"glob", "grep"} => e.at \notin {"walk", "scan"} /\ ~(e.at = "done" /\ e.ok)

(* Whatever it has seen. *)
LEMMA IdlesHolds ==
  ASSUME NEW e, Idles(e), NEW t, NEW h, NEW p, NEW text
  PROVE  SeenHolds(t, e, h, p, text)
BY DEF Idles, SeenHolds, EditHolds, SearchHolds

(* A call goes on, the others have seen what they had. *)
LEMMA SeenStep ==
  ASSUME FilesInv, SeenInv, NEW c \in Caller, NEW new, call' = [call EXCEPT ![c] = new],
         \A x \in seen'[c] : SeenHolds(tree', new, handle'[c], x[1], x[2]),
         \A d \in Caller \ {c} : \A x \in seen'[d] :
           /\ x \in seen[d]
           /\ x[1] \in DOMAIN tree => x[1] \in DOMAIN tree' /\ tree'[x[1]] = tree[x[1]]
           /\ handle[d] \in {NOWHERE, x[1]} => handle'[d] \in {NOWHERE, x[1]}
  PROVE  SeenInv'
<1>1. call'[c] = new /\ \A d \in Caller : d # c => call'[d] = call[d]
  BY DEF FilesInv, EachHas
<1>2. ASSUME NEW d \in Caller, NEW x \in seen'[d]
      PROVE  SeenHolds(tree', call'[d], handle'[d], x[1], x[2])
  <2>1. CASE d = c
    BY <1>1, <1>2, <2>1
  <2>2. CASE d # c
    <3>1. /\ d \in Caller \ {c} /\ x \in seen[d] /\ call'[d] = call[d]
      BY <1>1, <1>2, <2>2
    <3>2. PICK p, text : p = x[1] /\ text = x[2]
      OBVIOUS
    <3>3. SeenHolds(tree, call[d], handle[d], p, text)
      BY <3>1, <3>2 DEF SeenInv
    <3>4. /\ p \in DOMAIN tree => p \in DOMAIN tree' /\ tree'[p] = tree[p]
          /\ handle[d] \in {NOWHERE, p} => handle'[d] \in {NOWHERE, p}
      BY <1>2, <3>1, <3>2
    <3>5. SeenHolds(tree', call[d], handle'[d], p, text)
      BY <3>3, <3>4, SeenKept
    <3> QED
      BY <3>1, <3>2, <3>5
  <2> QED
    BY <2>1, <2>2
<1> QED
  BY <1>2 DEF SeenInv

(* A call goes on in a tree that stays. *)
LEMMA SeenQuietly ==
  ASSUME FilesInv, SeenInv, NEW c \in Caller, NEW new, call' = [call EXCEPT ![c] = new],
         UNCHANGED <<tree, handle>>, \A d \in Caller \ {c} : seen'[d] \subseteq seen[d],
         \A x \in seen'[c] : SeenHolds(tree, new, handle[c], x[1], x[2])
  PROVE  SeenInv'
<1>1. \A x \in seen'[c] : SeenHolds(tree', new, handle'[c], x[1], x[2])
  OBVIOUS
<1>2. \A d \in Caller \ {c} : \A x \in seen'[d] :
        /\ x \in seen[d]
        /\ x[1] \in DOMAIN tree => x[1] \in DOMAIN tree' /\ tree'[x[1]] = tree[x[1]]
        /\ handle[d] \in {NOWHERE, x[1]} => handle'[d] \in {NOWHERE, x[1]}
  OBVIOUS
<1> QED
  BY <1>1, <1>2, SeenStep

(* A call that is not in the midst of anything goes on. *)
LEMMA SeenIdly ==
  ASSUME FilesInv, SeenInv, NEW c \in Caller, NEW new, call' = [call EXCEPT ![c] = new],
         Idles(new), UNCHANGED <<tree, handle>>, \A d \in Caller \ {c} : seen'[d] \subseteq seen[d]
  PROVE  SeenInv'
<1>1. \A x \in seen'[c] : SeenHolds(tree, new, handle[c], x[1], x[2])
  BY IdlesHolds
<1> QED
  BY <1>1, SeenQuietly

(* What a call that goes on has then. *)
LEMMA GoesOn ==
  ASSUME FilesInv, NEW c \in Caller, NEW changed, Goes(c, changed)
  PROVE  /\ call' = [call EXCEPT ![c] = With(call[c], changed)]
         /\ After(call[c], changed, With(call[c], changed))
BY AfterIs DEF FilesInv, IsCall, Typed, Goes

(* A call that ends without success. *)
LEMMA SeenEnds ==
  ASSUME FilesInv, SeenInv, NEW c \in Caller, Ends(c, FALSE), UNCHANGED <<tree, handle, seen>>
  PROVE  SeenInv'
<1>1. PICK changed : changed = [at |-> "done", ok |-> FALSE]
  OBVIOUS
<1>2. Goes(c, changed) /\ DOMAIN changed = {"at", "ok"} /\ changed.at = "done" /\ ~changed.ok
  BY <1>1 DEF Ends
<1>3. PICK new : new = With(call[c], changed)
  OBVIOUS
<1>4. call' = [call EXCEPT ![c] = new] /\ After(call[c], changed, new)
  BY <1>2, <1>3, GoesOn
<1>5. Idles(new)
  BY <1>2, <1>4 DEF After, Idles
<1> QED
  BY <1>4, <1>5, SeenIdly

(* A call comes, or goes. *)
LEMMA ArrivesSeen ==
  ASSUME FilesInv, SeenInv, NEW c \in Caller, NEW request \in Request, Arrives(c, request)
  PROVE  SeenInv'
<1>1. /\ call[c] = IDLE /\ UNCHANGED <<tree, handle, seen>>
      /\ call' = [call EXCEPT ![c] = With(With(IDLE, request), [at |-> "context"])]
  BY DEF Arrives
<1>2. PICK new : new = With(With(IDLE, request), [at |-> "context"])
  OBVIOUS
<1>3. new.at = "context"
  BY <1>2, RequestIs
<1>4. Idles(new)
  BY <1>3 DEF Idles
<1> QED
  BY <1>1, <1>2, <1>4, SeenIdly

(* The same for one that returns. *)
LEMMA ReturnsSeen ==
  ASSUME FilesInv, SeenInv, NEW c \in Caller, Returns(c)
  PROVE  SeenInv'
<1>1. /\ call' = [call EXCEPT ![c] = IDLE] /\ UNCHANGED <<tree, handle>>
      /\ seen' = [seen EXCEPT ![c] = {}]
  BY DEF Returns
<1>2. \A d \in Caller \ {c} : seen'[d] = seen[d]
  BY <1>1 DEF FilesInv, EachHas
<1>3. Idles(IDLE)
  BY IdleHas DEF Idles
<1> QED
  BY <1>1, <1>2, <1>3, SeenIdly

(* It gets its context, *)
LEMMA ContextSeen ==
  ASSUME FilesInv, SeenInv, NEW c \in Caller, ContextNext(c)
  PROVE  SeenInv'
<1>1. UNCHANGED <<tree, handle, seen>>
  BY DEF ContextNext, TakesContext, BuildsFromHeader, AsksRoots, NeedsRoots, RootsArrive
<1>2. CASE Ends(c, FALSE)
  BY <1>1, <1>2, SeenEnds
<1>3. ASSUME NEW changed, Goes(c, changed), "at" \in DOMAIN changed, changed.at \in {"resolve", "roots"}
      PROVE  SeenInv'
  <2>1. PICK new : new = With(call[c], changed)
    OBVIOUS
  <2>2. call' = [call EXCEPT ![c] = new] /\ After(call[c], changed, new)
    BY <1>3, <2>1, GoesOn
  <2>3. Idles(new)
    BY <1>3, <2>2 DEF After, Idles
  <2> QED
    BY <1>1, <2>2, <2>3, SeenIdly
<1>4. ASSUME NEW context, HasContext(c, context) PROVE SeenInv'
  <2>1. PICK changed : changed = [at |-> "resolve", context |-> context]
    OBVIOUS
  <2>2. Goes(c, changed) /\ DOMAIN changed = {"at", "context"} /\ changed.at = "resolve"
    BY <1>4, <2>1 DEF HasContext
  <2> QED
    BY <1>3, <2>2
<1>5. CASE Goes(c, [at |-> "roots"])
  <2>1. PICK changed : changed = [at |-> "roots"]
    OBVIOUS
  <2>2. Goes(c, changed) /\ DOMAIN changed = {"at"} /\ changed.at = "roots"
    BY <1>5, <2>1
  <2> QED
    BY <1>3, <2>2
<1>6. Ends(c, FALSE) \/ (\E context : HasContext(c, context)) \/ Goes(c, [at |-> "roots"])
  BY DEF ContextNext, TakesContext, BuildsFromHeader, AsksRoots, NeedsRoots, RootsArrive, Builds
<1> QED
  BY <1>2, <1>4, <1>5, <1>6

(* has its paths resolved and checked, *)
LEMMA ResolvesSeen ==
  ASSUME FilesInv, SeenInv, NEW c \in Caller, Resolves(c)
  PROVE  SeenInv'
<1>1. PICK path, target : /\ Goes(c, [at |-> "check", path |-> path, target |-> target])
                          /\ UNCHANGED <<tree, handle, seen>>
  BY DEF Resolves
<1>2. PICK changed : changed = [at |-> "check", path |-> path, target |-> target]
  OBVIOUS
<1>3. DOMAIN changed = {"at", "path", "target"} /\ changed.at = "check"
  BY <1>2
<1>4. PICK new : new = With(call[c], changed)
  OBVIOUS
<1>5. call' = [call EXCEPT ![c] = new] /\ After(call[c], changed, new)
  BY <1>1, <1>2, <1>4, GoesOn
<1>6. Idles(new)
  BY <1>3, <1>5 DEF After, Idles
<1> QED
  BY <1>1, <1>5, <1>6, SeenIdly

(* and may do what it was asked for. *)
LEMMA ChecksSeen ==
  ASSUME FilesInv, SeenInv, NEW c \in Caller, Checks(c)
  PROVE  SeenInv'
<1>1. UNCHANGED <<tree, handle, seen>>
  BY DEF Checks
<1>2. CASE Ends(c, FALSE)
  BY <1>1, <1>2, SeenEnds
<1>3. CASE Goes(c, [at |-> call[c].tool])
  <2>1. PICK changed : changed = [at |-> call[c].tool]
    OBVIOUS
  <2>2. DOMAIN changed = {"at"} /\ changed.at = call[c].tool
    BY <2>1
  <2>3. PICK new : new = With(call[c], changed)
    OBVIOUS
  <2>4. call' = [call EXCEPT ![c] = new] /\ After(call[c], changed, new)
    BY <1>3, <2>1, <2>3, GoesOn
  <2>5. new.at = call[c].tool /\ new.tool = call[c].tool
    BY <2>2, <2>4 DEF After
  <2>6. Idles(new)
    BY <2>5 DEF Idles
  <2> QED
    BY <1>1, <2>4, <2>6, SeenIdly
<1> QED
  BY <1>2, <1>3 DEF Checks

(* A file is read, or a folder listed. *)
LEMMA LooksSeen ==
  ASSUME FilesInv, SeenInv, NEW c \in Caller, Reads(c) \/ Lists(c)
  PROVE  SeenInv'
<1>1. /\ IsCall(call[c]) /\ call[c].at \in {"read", "list"}
      /\ UNCHANGED <<tree, handle, seen>>
  BY DEF FilesInv, Reads, Lists
<1>2. call[c].tool \in {"read", "list"}
  BY <1>1 DEF IsCall, Placed, Tools
<1>3. ASSUME NEW changed, Goes(c, changed), DOMAIN changed \subseteq {"at", "ok", "hits"}
      PROVE  SeenInv'
  <2>1. PICK new : new = With(call[c], changed)
    OBVIOUS
  <2>2. call' = [call EXCEPT ![c] = new] /\ After(call[c], changed, new)
    BY <1>3, <2>1, GoesOn
  <2>3. Idles(new)
    BY <1>2, <1>3, <2>2 DEF After, Idles
  <2> QED
    BY <1>1, <2>2, <2>3, SeenIdly
<1>4. CASE \E result : Ends(c, result)
  <2>1. PICK result : Ends(c, result)
    BY <1>4
  <2>2. PICK changed : changed = [at |-> "done", ok |-> result]
    OBVIOUS
  <2>3. Goes(c, changed) /\ DOMAIN changed = {"at", "ok"}
    BY <2>1, <2>2 DEF Ends
  <2> QED
    BY <1>3, <2>3
<1>5. CASE \E hits : Goes(c, [at |-> "done", ok |-> TRUE, hits |-> hits])
  <2>1. PICK hits : Goes(c, [at |-> "done", ok |-> TRUE, hits |-> hits])
    BY <1>5
  <2>2. PICK changed : changed = [at |-> "done", ok |-> TRUE, hits |-> hits]
    OBVIOUS
  <2>3. Goes(c, changed) /\ DOMAIN changed = {"at", "ok", "hits"}
    BY <2>1, <2>2
  <2> QED
    BY <1>3, <2>3
<1> QED
  BY <1>4, <1>5 DEF Reads, Lists

(* What others have seen stays when it is not touched. *)
LEMMA ChangesKeep ==
  ASSUME NEW c \in Caller, NEW p, NEW new, Changes(c, p, new)
  PROVE  /\ tree' = new /\ \A x \in seen'[c] : x \in seen[c] /\ x[1] = p
         /\ \A d \in Caller \ {c} : \A x \in seen'[d] :
              x \in seen[d] /\ x[1] \in DOMAIN tree' /\ tree'[x[1]] = tree[x[1]]
<1>1. /\ tree' = new
      /\ seen' = [d \in Caller |-> {x \in seen[d] :
                    IF d = c THEN x[1] = p ELSE x[1] \in DOMAIN tree' /\ tree'[x[1]] = tree[x[1]]}]
  BY DEF Changes
<1>2. seen'[c] = {x \in seen[c] : x[1] = p}
  BY <1>1
<1>3. \A d \in Caller \ {c} :
        seen'[d] = {x \in seen[d] : x[1] \in DOMAIN tree' /\ tree'[x[1]] = tree[x[1]]}
  BY <1>1
<1> QED
  BY <1>1, <1>2, <1>3

(* An edit has read the text it is made of, ... *)
LEMMA EditReadsSeen ==
  ASSUME FilesInv, SeenInv, NEW c \in Caller, EditReads(c)
  PROVE  SeenInv'
<1>1. IsCall(call[c]) /\ call[c].at = "edit" /\ UNCHANGED handle
  BY DEF FilesInv, EditReads
<1>2. CASE Ends(c, FALSE) /\ UNCHANGED <<tree, seen>>
  BY <1>1, <1>2, SeenEnds
<1>3. ASSUME ~(Ends(c, FALSE) /\ UNCHANGED <<tree, seen>>)
      PROVE  SeenInv'
  <2>1. PICK p : p = Walk(tree, call[c].path)
    OBVIOUS
  <2>2. PICK data : data = Edited(tree[p].text, call[c].start, call[c].stop, call[c].text)
    OBVIOUS
  <2>3. /\ call[c].stop >= call[c].start /\ Is("file", tree, p)
        /\ Goes(c, [at |-> "write", data |-> data]) /\ Sees(c, {p})
    BY <1>3, <2>1, <2>2 DEF EditReads
  <2>4. PICK text \in Text : text = tree[p].text
    BY <2>3 DEF FilesInv, IsTree, Is
  <2>5. PICK changed : changed = [at |-> "write", data |-> data]
    OBVIOUS
  <2>6. DOMAIN changed = {"at", "data"} /\ changed.at = "write" /\ changed.data = data
    BY <2>5
  <2>7. PICK new : new = With(call[c], changed)
    OBVIOUS
  <2>8. call' = [call EXCEPT ![c] = new] /\ After(call[c], changed, new)
    BY <2>3, <2>5, <2>7, GoesOn
  <2>9. /\ new.at = "write" /\ new.tool = "edit" /\ new.data = data
        /\ new.start = call[c].start /\ new.stop = call[c].stop /\ new.text = call[c].text
    BY <1>1, <2>6, <2>8 DEF After, IsCall, Placed, Tools
  <2>10. new.start <= new.stop
    BY <1>1, <2>3, <2>9 DEF IsCall, Typed
  <2>11. IsEdit(new, text)
    BY <2>2, <2>4, <2>9, <2>10 DEF IsEdit
  <2>12. /\ UNCHANGED tree /\ \A d \in Caller \ {c} : seen'[d] = seen[d]
         /\ \A x \in seen'[c] : x = <<p, text>>
    BY <2>3, <2>4 DEF Sees, FilesInv, EachHas
  <2>13. SeenHolds(tree, new, handle[c], p, text)
    BY <2>3, <2>4, <2>9, <2>11 DEF SeenHolds, EditHolds, SearchHolds, Still
  <2>14. \A x \in seen'[c] : SeenHolds(tree, new, handle[c], x[1], x[2])
    BY <2>12, <2>13
  <2> QED
    BY <1>1, <2>8, <2>12, <2>14, SeenQuietly
<1> QED
  BY <1>2, <1>3

(* ... opens and empties the file, ... *)
LEMMA OpensSeen ==
  ASSUME FilesInv, SeenInv, NEW c \in Caller, Opens(c)
  PROVE  SeenInv'
<1>1. IsCall(call[c]) /\ call[c].at = "write"
  BY DEF FilesInv, Opens
<1>2. PICK p : p = OpenPlace(tree, call[c].path)
  OBVIOUS
<1>3. CASE p # NOWHERE /\ (p \in DOMAIN tree => Is("file", tree, p))
  <2>1. PICK changed : changed = [at |-> "fill"]
    OBVIOUS
  <2>2. PICK u : u = Put(tree, p, File(<<>>))
    OBVIOUS
  <2>3. Goes(c, changed) /\ handle' = [handle EXCEPT ![c] = p] /\ Changes(c, p, u)
    BY <1>2, <1>3, <2>1, <2>2 DEF Opens
  <2>4. Slot(tree, p) /\ IsTree(tree)
    BY <1>1, <1>2, <1>3, OpenPlaceIs DEF FilesInv, IsTree, IsCall, Typed, Placed, Tools
  <2>5. ~Is("dir", tree, p)
    BY <1>3 DEF Is
  <2>6. <<>> \in Text
    BY DEF Text
  <2>7. Still(u, p, <<>>)
    BY <2>2, <2>4, <2>5, <2>6, PutTree DEF Still
  <2>8. DOMAIN changed = {"at"} /\ changed.at = "fill"
    BY <2>1
  <2>9. PICK new : new = With(call[c], changed)
    OBVIOUS
  <2>10. call' = [call EXCEPT ![c] = new] /\ After(call[c], changed, new)
    BY <2>3, <2>9, GoesOn
  <2>11. /\ new.at = "fill" /\ new.tool = call[c].tool /\ new.tool \in {"write", "edit"}
         /\ new.start = call[c].start /\ new.stop = call[c].stop /\ new.text = call[c].text
         /\ new.data = call[c].data
    BY <1>1, <2>8, <2>10 DEF After, IsCall, Placed, Tools
  <2>12. handle'[c] = p /\ \A d \in Caller \ {c} : handle'[d] = handle[d]
    BY <2>3 DEF FilesInv, EachHas
  <2>13. ASSUME NEW x \in seen'[c]
         PROVE  SeenHolds(tree', new, handle'[c], x[1], x[2])
    <3>1. tree' = u /\ x \in seen[c] /\ x[1] = p
      BY <2>3, <2>13, ChangesKeep
    <3>2. PICK text : text = x[2]
      OBVIOUS
    <3>3. SeenHolds(tree, call[c], handle[c], p, text)
      BY <3>1, <3>2 DEF SeenInv
    <3>4. new.tool = "edit" => IsEdit(new, text)
      BY <1>1, <2>11, <3>3 DEF SeenHolds, EditHolds, IsEdit
    <3>5. SeenHolds(u, new, p, p, text)
      BY <2>7, <2>11, <3>4 DEF SeenHolds, EditHolds, SearchHolds
    <3> QED
      BY <2>12, <3>1, <3>2, <3>5
  <2>14. \A d \in Caller \ {c} : \A x \in seen'[d] :
           /\ x \in seen[d]
           /\ x[1] \in DOMAIN tree => x[1] \in DOMAIN tree' /\ tree'[x[1]] = tree[x[1]]
           /\ handle[d] \in {NOWHERE, x[1]} => handle'[d] \in {NOWHERE, x[1]}
    BY <2>3, <2>12, ChangesKeep
  <2> QED
    BY <2>10, <2>13, <2>14, SeenStep
<1>4. CASE ~(p # NOWHERE /\ (p \in DOMAIN tree => Is("file", tree, p)))
  <2>1. Ends(c, FALSE) /\ UNCHANGED <<tree, seen, handle>>
    BY <1>2, <1>4 DEF Opens
  <2> QED
    BY <2>1, SeenEnds
<1> QED
  BY <1>3, <1>4

(* ... and writes what it has made of it. *)
LEMMA FillsSeen ==
  ASSUME FilesInv, SeenInv, NEW c \in Caller, Fills(c)
  PROVE  SeenInv'
<1>1. /\ IsCall(call[c]) /\ call[c].at = "fill"
      /\ handle' = [handle EXCEPT ![c] = NOWHERE] /\ Ends(c, TRUE)
  BY DEF FilesInv, Fills
<1>2. PICK data \in Text : data = IF call[c].tool = "edit" THEN call[c].data ELSE call[c].text
  BY <1>1 DEF IsCall, Typed
<1>3. PICK p : p = handle[c]
  OBVIOUS
<1>4. PICK u : u = IF p = NOWHERE THEN tree ELSE Put(tree, p, File(data \o From(tree[p].text, data)))
  OBVIOUS
<1>5. Changes(c, p, u)
  BY <1>2, <1>3, <1>4 DEF Fills
<1>6. PICK changed : changed = [at |-> "done", ok |-> TRUE]
  OBVIOUS
<1>7. Goes(c, changed) /\ DOMAIN changed = {"at", "ok"} /\ changed.at = "done"
  BY <1>1, <1>6 DEF Ends
<1>8. PICK new : new = With(call[c], changed)
  OBVIOUS
<1>9. call' = [call EXCEPT ![c] = new] /\ After(call[c], changed, new)
  BY <1>7, <1>8, GoesOn
<1>10. /\ new.at = "done" /\ new.tool = call[c].tool /\ new.tool \in {"write", "edit"}
       /\ new.start = call[c].start /\ new.stop = call[c].stop /\ new.text = call[c].text
       /\ new.data = call[c].data
  BY <1>1, <1>7, <1>9 DEF After, IsCall, Placed, Tools
<1>11. handle'[c] = NOWHERE /\ \A d \in Caller \ {c} : handle'[d] = handle[d]
  BY <1>1 DEF FilesInv, EachHas
<1>12. ASSUME NEW x \in seen'[c]
       PROVE  SeenHolds(tree', new, handle'[c], x[1], x[2])
  <2>1. tree' = u /\ x \in seen[c] /\ x[1] = p
    BY <1>5, <1>12, ChangesKeep
  <2>2. PICK text : text = x[2]
    OBVIOUS
  <2>3. SeenHolds(tree, call[c], handle[c], p, text)
    BY <2>1, <2>2 DEF SeenInv
  <2>4. CASE new.tool = "edit"
    <3>1. IsEdit(call[c], text) /\ Still(tree, p, <<>>)
      BY <1>1, <1>10, <2>3, <2>4 DEF SeenHolds, EditHolds
    <3>2. IsEdit(new, text)
      BY <1>10, <3>1 DEF IsEdit
    <3>3. Is("file", tree, p) /\ p \in DOMAIN tree /\ tree[p].text = <<>> /\ WellFormed(tree)
      BY <3>1 DEF Still, Is, FilesInv, IsTree
    <3>4. p # NOWHERE
      <4>1. p \in Path
        BY <3>3, EntryIs
      <4> QED
        BY <4>1, SomewhereIs
    <3>5. PICK old \in Text : old = tree[p].text
      BY <3>3 DEF FilesInv, IsTree
    <3>6. data \o From(old, data) = data
      BY <3>3, <3>5, TextFromIs
    <3>7. u = Put(tree, p, File(data))
      BY <1>4, <3>4, <3>5, <3>6
    <3>8. Slot(tree, p) /\ ~Is("dir", tree, p) /\ IsTree(tree)
      BY <3>3, FileIsSlot DEF FilesInv, Is
    <3>9. Still(u, p, data)
      BY <3>7, <3>8, PutTree DEF Still
    <3>10. data = new.data
      BY <1>2, <1>10, <2>4
    <3>11. SeenHolds(u, new, NOWHERE, p, text)
      BY <1>10, <2>4, <3>2, <3>9, <3>10 DEF SeenHolds, EditHolds, SearchHolds
    <3> QED
      BY <1>11, <2>1, <2>2, <3>11
  <2>5. CASE new.tool # "edit"
    BY <1>10, <2>5, IdlesHolds DEF Idles
  <2> QED
    BY <2>4, <2>5
<1>13. \A d \in Caller \ {c} : \A x \in seen'[d] :
         /\ x \in seen[d]
         /\ x[1] \in DOMAIN tree => x[1] \in DOMAIN tree' /\ tree'[x[1]] = tree[x[1]]
         /\ handle[d] \in {NOWHERE, x[1]} => handle'[d] \in {NOWHERE, x[1]}
  BY <1>5, <1>11, ChangesKeep
<1> QED
  BY <1>9, <1>12, <1>13, SeenStep

(* An open file that is moved is not where a call has seen it. *)
LEMMA MovesSeen ==
  ASSUME FilesInv, SeenInv, NEW c \in Caller, Moves(c)
  PROVE  SeenInv'
<1>1. IsCall(call[c]) /\ call[c].at = "move"
  BY DEF FilesInv, Moves
<1>2. PICK source, target : source = Place(tree, call[c].path) /\ target = Place(tree, call[c].target)
  OBVIOUS
<1>3. CASE source # NOWHERE /\ MayRename(tree, source, target)
  <2>1. PICK u : u = Renamed(tree, source, target)
    OBVIOUS
  <2>2. /\ Changes(c, target, u) /\ Ends(c, TRUE)
        /\ handle' = [d \in Caller |->
             IF handle[d] = NOWHERE \/ (handle[d] = target /\ source # target) THEN NOWHERE
             ELSE Moved(source, target, handle[d])]
    BY <1>2, <1>3, <2>1 DEF Moves
  <2>3. Slot(tree, source) /\ Slot(tree, target) /\ IsTree(tree)
    <3>1. target # NOWHERE
      BY <1>3 DEF MayRename
    <3>2. /\ call[c].path \in Path /\ Plain(call[c].path)
          /\ call[c].target \in Path /\ Plain(call[c].target)
      BY <1>1 DEF IsCall, Typed, Placed, Tools
    <3> QED
      BY <1>2, <1>3, <3>1, <3>2, PlaceIs DEF FilesInv, IsTree
  <2>4. \A h : Is("file", tree, h) /\ ~(h = target /\ source # target) =>
          (h \in DOMAIN u => Moved(source, target, h) = h)
    BY <1>3, <2>1, <2>3, RenamedTree
  <2>5. PICK changed : changed = [at |-> "done", ok |-> TRUE]
    OBVIOUS
  <2>6. Goes(c, changed) /\ DOMAIN changed = {"at", "ok"}
    BY <2>2, <2>5 DEF Ends
  <2>7. PICK new : new = With(call[c], changed)
    OBVIOUS
  <2>8. call' = [call EXCEPT ![c] = new] /\ After(call[c], changed, new)
    BY <2>6, <2>7, GoesOn
  <2>9. new.tool = "move"
    BY <1>1, <2>6, <2>8 DEF After, IsCall, Placed, Tools
  <2>10. \A x \in seen'[c] : SeenHolds(tree', new, handle'[c], x[1], x[2])
    BY <2>9, IdlesHolds DEF Idles
  <2>11. ASSUME NEW d \in Caller \ {c}, NEW x \in seen'[d]
         PROVE  /\ x \in seen[d]
                /\ x[1] \in DOMAIN tree => x[1] \in DOMAIN tree' /\ tree'[x[1]] = tree[x[1]]
                /\ handle[d] \in {NOWHERE, x[1]} => handle'[d] \in {NOWHERE, x[1]}
    <3>1. tree' = u /\ x \in seen[d] /\ x[1] \in DOMAIN u /\ tree'[x[1]] = tree[x[1]]
      BY <2>2, <2>11, ChangesKeep
    <3>2. PICK h : h = handle[d]
      OBVIOUS
    <3>3. handle'[d] = IF h = NOWHERE \/ (h = target /\ source # target) THEN NOWHERE
                       ELSE Moved(source, target, h)
      BY <2>2, <3>2
    <3>4. h # NOWHERE => Is("file", tree, h)
      BY <3>2 DEF FilesInv, Opened
    <3>5. h = x[1] => handle'[d] \in {NOWHERE, x[1]}
      BY <2>4, <3>1, <3>3, <3>4
    <3>6. h = NOWHERE => handle'[d] = NOWHERE
      BY <3>3
    <3> QED
      BY <3>1, <3>2, <3>5, <3>6
  <2> QED
    BY <2>8, <2>10, <2>11, SeenStep
<1>4. CASE ~(source # NOWHERE /\ MayRename(tree, source, target))
  <2>1. Ends(c, FALSE) /\ UNCHANGED <<tree, seen, handle>>
    BY <1>2, <1>4 DEF Moves
  <2> QED
    BY <2>1, SeenEnds
<1> QED
  BY <1>3, <1>4

(* Folders that are made are in nobody's way. *)
LEMMA MakesSeen ==
  ASSUME FilesInv, SeenInv, NEW c \in Caller, Makes(c)
  PROVE  SeenInv'
<1>1. IsCall(call[c]) /\ call[c].at = "make" /\ UNCHANGED handle
  BY DEF FilesInv, Makes
<1>2. CASE MayMake(tree, call[c].path)
  <2>1. PICK p, u : p = call[c].path /\ u = Made(tree, p)
    OBVIOUS
  <2>2. Changes(c, p, u) /\ Ends(c, TRUE)
    BY <1>2, <2>1 DEF Makes
  <2>3. PICK changed : changed = [at |-> "done", ok |-> TRUE]
    OBVIOUS
  <2>4. Goes(c, changed) /\ DOMAIN changed = {"at", "ok"}
    BY <2>2, <2>3 DEF Ends
  <2>5. PICK new : new = With(call[c], changed)
    OBVIOUS
  <2>6. call' = [call EXCEPT ![c] = new] /\ After(call[c], changed, new)
    BY <2>4, <2>5, GoesOn
  <2>7. new.tool = "make"
    BY <1>1, <2>4, <2>6 DEF After, IsCall, Placed, Tools
  <2>8. \A x \in seen'[c] : SeenHolds(tree', new, handle'[c], x[1], x[2])
    BY <2>7, IdlesHolds DEF Idles
  <2>9. \A d \in Caller \ {c} : \A x \in seen'[d] :
          /\ x \in seen[d]
          /\ x[1] \in DOMAIN tree => x[1] \in DOMAIN tree' /\ tree'[x[1]] = tree[x[1]]
          /\ handle[d] \in {NOWHERE, x[1]} => handle'[d] \in {NOWHERE, x[1]}
    BY <1>1, <2>2, ChangesKeep
  <2> QED
    BY <2>6, <2>8, <2>9, SeenStep
<1>3. CASE ~MayMake(tree, call[c].path)
  <2>1. Ends(c, FALSE) /\ UNCHANGED <<tree, seen>>
    BY <1>3 DEF Makes
  <2> QED
    BY <1>1, <2>1, SeenEnds
<1> QED
  BY <1>2, <1>3

(* What a file is found by is what is checked, ... *)
LEMMA MayRead ==
  ASSUME WellFormed(tree), NEW p, Is("file", tree, p), NEW context
  PROVE  Check(tree, context, "read", p) <=> ~Denied(context, p) /\ Allowed(context, "read", p)
<1>1. Resolve(tree, p) = p
  BY EntryIsFixed, FixedResolves
<1> QED
  BY <1>1 DEF Check

(* ... and what a search looks for stays the same. *)
LEMMA InsideSame ==
  ASSUME NEW old, NEW new, new.path = old.path, new.include = old.include,
         new.tool = old.tool, new.context = old.context, NEW p
  PROVE  Inside(new, p) <=> Inside(old, p)
BY DEF Inside

(* A file that is below a folder is in it, or below one that is in it. *)
LEMMA Deeper ==
  ASSUME IsTree(tree), NEW path \in Path, NEW d \in Path, IsPrefix(path, d),
         NEW p, Is("file", tree, p), IsStrictPrefix(d, p),
         \A i \in Len(path) + 1..Len(p) : ~Hidden(p[i])
  PROVE  \/ p \in Entries(d, "file")
         \/ \E e \in Entries(d, "dir") : IsPrefix(path, e) /\ IsStrictPrefix(e, p)
<1>1. WellFormed(tree) /\ p \in DOMAIN tree /\ p \in Path
  <2>1. WellFormed(tree) /\ p \in DOMAIN tree
    BY DEF IsTree, Is
  <2> QED
    BY <2>1, EntryIs
<1>2. /\ path \in Seq(STRING) /\ d \in Seq(STRING) /\ p \in Seq(STRING)
      /\ Len(path) \in Nat /\ Len(d) \in Nat /\ Len(p) \in Nat
  BY <1>1, LenProperties DEF Path
<1>3. Len(d) < Len(p) /\ d = Pre(p, Len(d))
  <2>1. IsPrefix(d, p) /\ d # p
    BY DEF IsStrictPrefix
  <2> QED
    BY <1>2, <2>1, PrefixIs
<1>4. Len(path) <= Len(d)
  BY <1>2, PrefixIs
<1>5. PICK k : k = Len(d) + 1
  OBVIOUS
<1>6. k \in 1..Len(p) /\ k - 1 = Len(d) /\ k \in Len(path) + 1..Len(p) /\ k \in 0..Len(p)
  BY <1>2, <1>3, <1>4, <1>5
<1>7. PICK q : q = Pre(p, k)
  OBVIOUS
<1>8. /\ p[k] \in STRING /\ q = Append(d, p[k]) /\ Parent(q) = d /\ Last(q) = p[k]
  BY <1>2, <1>3, <1>6, <1>7, PreStep
<1>9. q \in Seq(STRING) /\ Len(q) = k
  BY <1>2, <1>6, <1>7, PreIs
<1>10. q # d
  BY <1>2, <1>5, <1>9
<1>11. Walk(tree, d) = d
  <2>1. Is("dir", tree, d)
    BY <1>1, AboveIsEntry
  <2> QED
    BY <1>1, <2>1, WalkOfEntry
<1>12. ~Hidden(Last(q))
  BY <1>6, <1>8
<1>13. ASSUME NEW kind, Is(kind, tree, q) PROVE q \in Entries(d, kind)
  <2>1. /\ q \in DOMAIN tree /\ Parent(q) = Walk(tree, d) /\ q # Walk(tree, d)
        /\ ~Hidden(Last(q)) /\ tree[q].kind = kind
    BY <1>8, <1>10, <1>11, <1>12, <1>13 DEF Is
  <2>2. Append(d, Last(q)) \in Entries(d, kind)
    BY <2>1 DEF Entries
  <2> QED
    BY <1>8, <2>2
<1>14. CASE k = Len(p)
  <2>1. q = p
    BY <1>2, <1>7, <1>14, PreEnds
  <2> QED
    BY <1>13, <2>1
<1>15. CASE k # Len(p)
  <2>1. Is("dir", tree, q)
    BY <1>1, <1>6, <1>7, <1>15, Ancestors
  <2>2. IsPrefix(path, q)
    BY <1>8, PrefixOfAppend
  <2>3. IsStrictPrefix(q, p)
    <3>1. Len(q) \in 0..Len(p) /\ q = Pre(p, Len(q)) /\ Len(q) # Len(p)
      BY <1>6, <1>7, <1>9, <1>15
    <3>2. IsPrefix(q, p) /\ q # p
      BY <1>2, <1>9, <3>1, PrefixIs
    <3> QED
      BY <3>2 DEF IsStrictPrefix
  <2> QED
    BY <1>13, <2>1, <2>2, <2>3
<1> QED
  BY <1>14, <1>15

(* A search begins with the files there are then. *)
LEMMA WalkStartsSeen ==
  ASSUME FilesInv, SeenInv, NEW c \in Caller, WalkStarts(c)
  PROVE  SeenInv'
<1>1. /\ IsCall(call[c]) /\ call[c].at \in {"glob", "grep"}
      /\ UNCHANGED handle /\ Sees(c, DOMAIN tree)
  BY DEF FilesInv, WalkStarts
<1>2. PICK path \in Path : path = call[c].path
  BY <1>1 DEF IsCall, Typed
<1>3. PICK one : one = Is("file", tree, Walk(tree, path))
  OBVIOUS
<1>4. PICK files, dirs : /\ files = IF one THEN {path} ELSE {}
                         /\ dirs = IF one THEN {} ELSE {path}
  OBVIOUS
<1>5. PICK changed : changed = [at |-> "walk", files |-> files, dirs |-> dirs]
  OBVIOUS
<1>6. Goes(c, changed)
  BY <1>2, <1>3, <1>4, <1>5 DEF WalkStarts
<1>7. /\ DOMAIN changed = {"at", "files", "dirs"} /\ changed.at = "walk"
      /\ changed.files = files /\ changed.dirs = dirs
  BY <1>5
<1>8. PICK new : new = With(call[c], changed)
  OBVIOUS
<1>9. call' = [call EXCEPT ![c] = new] /\ After(call[c], changed, new)
  BY <1>6, <1>8, GoesOn
<1>10. new.at = "walk" /\ new.path = path /\ new.files = files /\ new.dirs = dirs
  BY <1>2, <1>7, <1>9 DEF After
<1>11. WellFormed(tree)
  BY DEF FilesInv, IsTree
<1>12. /\ UNCHANGED tree /\ \A d \in Caller \ {c} : seen'[d] = seen[d]
       /\ seen'[c] = {<<p, tree[p].text>> : p \in {q \in DOMAIN tree : Is("file", tree, q)}}
  BY <1>1 DEF Sees, FilesInv, EachHas
<1>13. ASSUME NEW p, Is("file", tree, p), IsPrefix(path, p)
       PROVE  p \in files \/ \E d \in dirs : IsPrefix(path, d) /\ IsStrictPrefix(d, p)
  <2>1. p \in DOMAIN tree /\ Walk(tree, p) = p
    BY <1>11, <1>13, WalkOfEntry DEF Is
  <2>2. CASE path = p
    BY <1>3, <1>4, <1>13, <2>1, <2>2
  <2>3. CASE path # p
    <3>1. IsStrictPrefix(path, p)
      BY <1>13, <2>3 DEF IsStrictPrefix
    <3>2. Is("dir", tree, path)
      BY <1>11, <2>1, <3>1, AboveIsEntry
    <3>3. ~one
      BY <1>3, <1>11, <3>2, WalkOfEntry DEF Is
    <3>4. IsPrefix(path, path)
      BY PrefixEnds
    <3> QED
      BY <1>4, <3>1, <3>3, <3>4
  <2> QED
    BY <2>2, <2>3
<1>14. ASSUME NEW x \in seen'[c]
       PROVE  SeenHolds(tree, new, handle[c], x[1], x[2])
  <2>1. PICK p : Is("file", tree, p) /\ x = <<p, tree[p].text>>
    BY <1>12, <1>14
  <2>2. PICK text : text = tree[p].text
    OBVIOUS
  <2>3. Still(tree, p, text)
    BY <2>1, <2>2 DEF Still
  <2>4. Inside(new, p) =>
          p \in new.files \/ \E d \in new.dirs : IsPrefix(new.path, d) /\ IsStrictPrefix(d, p)
    BY <1>10, <1>13, <2>1 DEF Inside
  <2>5. SeenHolds(tree, new, handle[c], p, text)
    BY <1>10, <2>3, <2>4 DEF SeenHolds, EditHolds, SearchHolds
  <2> QED
    BY <2>1, <2>2, <2>5
<1> QED
  BY <1>1, <1>9, <1>12, <1>14, SeenQuietly

(* It goes down from each folder to what is in it. *)
LEMMA ListsSeen ==
  ASSUME FilesInv, SeenInv, NEW c \in Caller, NEW d, ListsFolder(c, d)
  PROVE  SeenInv'
<1>1. /\ IsCall(call[c]) /\ call[c].at = "walk" /\ d \in call[c].dirs
      /\ UNCHANGED <<tree, handle, seen>>
  BY DEF FilesInv, ListsFolder, Listing
<1>2. PICK files, dirs : /\ files = call[c].files \union Entries(d, "file")
                         /\ dirs = (call[c].dirs \ {d}) \union Entries(d, "dir")
  OBVIOUS
<1>3. PICK changed : changed = [dirs |-> dirs, files |-> files]
  OBVIOUS
<1>4. Goes(c, changed)
  BY <1>2, <1>3 DEF ListsFolder, Listing
<1>5. DOMAIN changed = {"dirs", "files"} /\ changed.files = files /\ changed.dirs = dirs
  BY <1>3
<1>6. PICK new : new = With(call[c], changed)
  OBVIOUS
<1>7. call' = [call EXCEPT ![c] = new] /\ After(call[c], changed, new)
  BY <1>4, <1>6, GoesOn
<1>8. /\ new.at = "walk" /\ new.files = files /\ new.dirs = dirs /\ new.path = call[c].path
      /\ new.include = call[c].include /\ new.tool = call[c].tool /\ new.context = call[c].context
  BY <1>1, <1>5, <1>7 DEF After
<1>9. PICK path \in Path : path = call[c].path
  BY <1>1 DEF IsCall, Typed
<1>10. d \in Path /\ IsTree(tree) /\ call[c].tool \in {"glob", "grep"}
  BY <1>1 DEF FilesInv, IsCall, Typed, Placed
<1>11. ASSUME NEW x \in seen'[c]
       PROVE  SeenHolds(tree, new, handle[c], x[1], x[2])
  <2>1. PICK p, text : p = x[1] /\ text = x[2]
    OBVIOUS
  <2>2. SeenHolds(tree, call[c], handle[c], p, text)
    BY <1>1, <1>11, <2>1 DEF SeenInv
  <2>3. Still(tree, p, text)
    BY <1>1, <1>10, <2>2 DEF SeenHolds, SearchHolds
  <2>4. ASSUME Inside(new, p)
        PROVE  p \in files \/ \E e \in dirs : IsPrefix(path, e) /\ IsStrictPrefix(e, p)
    <3>1. Inside(call[c], p)
      BY <1>8, <2>4, InsideSame
    <3>2. \/ p \in call[c].files
          \/ \E e \in call[c].dirs : IsPrefix(path, e) /\ IsStrictPrefix(e, p)
      BY <1>1, <1>9, <1>10, <2>2, <3>1 DEF SeenHolds, SearchHolds
    <3>3. CASE IsPrefix(path, d) /\ IsStrictPrefix(d, p)
      <4>1. Is("file", tree, p) /\ \A i \in Len(path) + 1..Len(p) : ~Hidden(p[i])
        BY <1>9, <2>3, <3>1 DEF Still, Inside
      <4>2. \/ p \in Entries(d, "file")
            \/ \E e \in Entries(d, "dir") : IsPrefix(path, e) /\ IsStrictPrefix(e, p)
        BY <1>10, <3>3, <4>1, Deeper
      <4> QED
        BY <1>2, <4>2
    <3> QED
      BY <1>2, <3>2, <3>3
  <2>5. SeenHolds(tree, new, handle[c], p, text)
    BY <1>8, <1>9, <2>3, <2>4 DEF SeenHolds, EditHolds, SearchHolds
  <2> QED
    BY <2>1, <2>5
<1> QED
  BY <1>1, <1>7, <1>11, SeenQuietly

(* When no folder is left it has found all the files. *)
LEMMA WalkEndsSeen ==
  ASSUME FilesInv, SeenInv, NEW c \in Caller, WalkEnds(c)
  PROVE  SeenInv'
<1>1. /\ IsCall(call[c]) /\ call[c].at = "walk" /\ call[c].dirs = {}
      /\ UNCHANGED <<tree, handle, seen>>
  BY DEF FilesInv, WalkEnds
<1>2. PICK files : files = {p \in call[c].files : Included(c, p)}
  OBVIOUS
<1>3. IsFiniteSet(files) /\ call[c].tool \in {"glob", "grep"}
  <2>1. /\ files \in SUBSET call[c].files /\ IsFiniteSet(call[c].files)
        /\ call[c].tool \in {"glob", "grep"}
    BY <1>1, <1>2 DEF IsCall, Typed, Placed
  <2> QED
    BY <2>1, FS_Subset
<1>4. ASSUME NEW x \in seen'[c]
      PROVE  Still(tree, x[1], x[2]) /\ (Inside(call[c], x[1]) => x[1] \in files)
  <2>1. PICK p, text : p = x[1] /\ text = x[2]
    OBVIOUS
  <2>2. SeenHolds(tree, call[c], handle[c], p, text)
    BY <1>1, <1>4, <2>1 DEF SeenInv
  <2>3. Still(tree, p, text) /\ (Inside(call[c], p) => p \in call[c].files)
    BY <1>1, <1>3, <2>2 DEF SeenHolds, SearchHolds
  <2>4. Inside(call[c], p) => Included(c, p)
    BY DEF Inside, Included
  <2> QED
    BY <1>2, <2>1, <2>3, <2>4
<1>5. CASE call[c].tool = "glob"
  <2>1. PICK some : some = SomeOf(files, MaxResults)
    OBVIOUS
  <2>2. MaxResults \in Nat /\ Cardinality(files) \in Nat
    BY <1>3, FileToolsAssumption, FS_CardinalityType
  <2>3. Cardinality(files) <= MaxResults => some = files
    BY <1>3, <2>1, <2>2, SomeOfIs
  <2>4. PICK hits : hits = {<<p, 0>> : p \in some}
    OBVIOUS
  <2>5. PICK cut : cut = (Cardinality(files) > MaxResults)
    OBVIOUS
  <2>6. PICK changed : changed = [at |-> "done", ok |-> TRUE, cut |-> cut, hits |-> hits]
    OBVIOUS
  <2>7. Goes(c, changed)
    BY <1>2, <1>5, <2>1, <2>4, <2>5, <2>6 DEF WalkEnds
  <2>8. /\ DOMAIN changed = {"at", "ok", "cut", "hits"} /\ changed.at = "done"
        /\ changed.hits = hits /\ changed.cut = cut
    BY <2>6
  <2>9. PICK new : new = With(call[c], changed)
    OBVIOUS
  <2>10. call' = [call EXCEPT ![c] = new] /\ After(call[c], changed, new)
    BY <2>7, <2>9, GoesOn
  <2>11. /\ new.at = "done" /\ new.hits = hits /\ new.cut = cut /\ new.path = call[c].path
         /\ new.include = call[c].include /\ new.tool = call[c].tool
         /\ new.context = call[c].context
    BY <2>8, <2>10 DEF After
  <2>12. ASSUME NEW x \in seen'[c]
         PROVE  SeenHolds(tree, new, handle[c], x[1], x[2])
    <3>1. PICK p, text : p = x[1] /\ text = x[2]
      OBVIOUS
    <3>2. Still(tree, p, text) /\ (Inside(call[c], p) => p \in files)
      BY <1>4, <2>12, <3>1
    <3>3. Inside(new, p) => Inside(call[c], p)
      BY <2>11, InsideSame
    <3>4. ~cut => some = files
      <4>1. ~(Cardinality(files) > MaxResults) => Cardinality(files) <= MaxResults
        BY <2>2
      <4>2. ~cut => ~(Cardinality(files) > MaxResults)
        BY <2>5, Zenon
      <4> QED
        BY <2>3, <4>1, <4>2
    <3>5. ~cut /\ Inside(new, p) => AllHits(new, p, text)
      BY <1>5, <2>4, <2>11, <3>2, <3>3, <3>4 DEF AllHits
    <3>6. SeenHolds(tree, new, handle[c], p, text)
      BY <1>5, <2>11, <3>2, <3>5 DEF SeenHolds, EditHolds, SearchHolds
    <3> QED
      BY <3>1, <3>6
  <2> QED
    BY <1>1, <2>10, <2>12, SeenQuietly
<1>6. CASE call[c].tool # "glob"
  <2>1. PICK changed : changed = [at |-> "scan", files |-> files]
    OBVIOUS
  <2>2. Goes(c, changed)
    BY <1>2, <1>6, <2>1 DEF WalkEnds
  <2>3. DOMAIN changed = {"at", "files"} /\ changed.at = "scan" /\ changed.files = files
    BY <2>1
  <2>4. PICK new : new = With(call[c], changed)
    OBVIOUS
  <2>5. call' = [call EXCEPT ![c] = new] /\ After(call[c], changed, new)
    BY <2>2, <2>4, GoesOn
  <2>6. /\ new.at = "scan" /\ new.files = files /\ new.path = call[c].path
        /\ new.include = call[c].include /\ new.tool = call[c].tool
        /\ new.context = call[c].context
    BY <2>3, <2>5 DEF After
  <2>7. ASSUME NEW x \in seen'[c]
        PROVE  SeenHolds(tree, new, handle[c], x[1], x[2])
    <3>1. PICK p, text : p = x[1] /\ text = x[2]
      OBVIOUS
    <3>2. Still(tree, p, text) /\ (Inside(call[c], p) => p \in files)
      BY <1>4, <2>7, <3>1
    <3>3. Inside(new, p) => Inside(call[c], p)
      BY <2>6, InsideSame
    <3>4. SeenHolds(tree, new, handle[c], p, text)
      BY <2>6, <3>2, <3>3 DEF SeenHolds, EditHolds, SearchHolds
    <3> QED
      BY <3>1, <3>4
  <2> QED
    BY <1>1, <2>5, <2>7, SeenQuietly
<1> QED
  BY <1>5, <1>6

(* It reads one of them, *)
LEMMA ScansSeen ==
  ASSUME FilesInv, SeenInv, NEW c \in Caller, NEW q, Scans(c, q)
  PROVE  SeenInv'
<1>1. /\ IsCall(call[c]) /\ call[c].at = "scan" /\ q \in call[c].files
      /\ Cardinality(call[c].hits) < MaxResults /\ UNCHANGED <<tree, handle, seen>>
  BY DEF FilesInv, Scans
<1>2. PICK old : old = call[c].hits
  OBVIOUS
<1>3. /\ IsFiniteSet(old) /\ q \in Path /\ call[c].tool = "grep"
      /\ \A hit \in old : hit[1] # q
  BY <1>1, <1>2 DEF IsCall, Typed, Placed
<1>4. PICK found : found = Found(c, q)
  OBVIOUS
<1>5. found \subseteq Nat /\ IsFiniteSet(found)
  BY <1>3, <1>4, FoundAre DEF FilesInv
<1>6. PICK all : all = old \union FileHits(c, q)
  OBVIOUS
<1>7. Grown(old, q, found, all)
  <2>1. Cardinality(old) < MaxResults /\ IsFiniteSet(old) /\ \A hit \in old : hit[1] # q
    BY <1>1, <1>2, <1>3
  <2>2. Grown(old, q, found,
              old \union {<<q, n>> : n \in First(found, MaxResults - Cardinality(old))})
    BY <1>5, <2>1, HitsGrow
  <2>3. FileHits(c, q) = {<<q, n>> : n \in First(found, MaxResults - Cardinality(old))}
    BY <1>2, <1>4, FileHitsAre
  <2> QED
    BY <1>6, <2>2, <2>3
<1>8. PICK changed : changed = [files |-> call[c].files \ {q}, hits |-> all]
  OBVIOUS
<1>9. Goes(c, changed)
  BY <1>2, <1>6, <1>8 DEF Scans
<1>10. /\ DOMAIN changed = {"files", "hits"} /\ changed.files = call[c].files \ {q}
       /\ changed.hits = all
  BY <1>8
<1>11. PICK new : new = With(call[c], changed)
  OBVIOUS
<1>12. call' = [call EXCEPT ![c] = new] /\ After(call[c], changed, new)
  BY <1>9, <1>11, GoesOn
<1>13. /\ new.at = "scan" /\ new.files = call[c].files \ {q} /\ new.hits = all
       /\ new.path = call[c].path /\ new.include = call[c].include
       /\ new.tool = "grep" /\ new.context = call[c].context
  BY <1>1, <1>3, <1>10, <1>12 DEF After
<1>14. ASSUME NEW x \in seen'[c]
       PROVE  SeenHolds(tree, new, handle[c], x[1], x[2])
  <2>1. PICK p, text : p = x[1] /\ text = x[2]
    OBVIOUS
  <2>2. SeenHolds(tree, call[c], handle[c], p, text)
    BY <1>1, <1>14, <2>1 DEF SeenInv
  <2>3. Still(tree, p, text)
    BY <1>1, <1>3, <2>2 DEF SeenHolds, SearchHolds
  <2>4. ASSUME Inside(new, p)
        PROVE  p \in new.files \/ AllHits(new, p, text) \/ Cardinality(all) >= MaxResults
    <3>1. Inside(call[c], p)
      BY <1>3, <1>13, <2>4, InsideSame
    <3>2. ~(Cardinality(call[c].hits) >= MaxResults)
      <4>1. Cardinality(old) \in Nat /\ MaxResults \in Nat
        BY <1>3, FS_CardinalityType, FileToolsAssumption
      <4> QED
        BY <1>1, <1>2, <4>1
    <3>3. p \in call[c].files \/ AllHits(call[c], p, text)
      BY <1>1, <1>3, <2>2, <3>1, <3>2 DEF SeenHolds, SearchHolds
    <3>4. CASE AllHits(call[c], p, text)
      <4>1. AllHits(new, p, text)
        BY <1>2, <1>3, <1>6, <1>13, <3>4 DEF AllHits
      <4> QED
        BY <4>1
    <3>5. CASE p \in call[c].files /\ p # q
      BY <1>13, <3>5
    <3>6. CASE p = q
      <4>1. WellFormed(tree) /\ Is("file", tree, p) /\ tree[p].text = text
        BY <2>3 DEF FilesInv, IsTree, Still
      <4>2. Walk(tree, p) = p
        BY <4>1, WalkOfEntry
      <4>3. ~Denied(call[c].context, p) /\ Allowed(call[c].context, "read", p)
        BY <1>3, <3>1 DEF Inside
      <4>4. Check(tree, call[c].context, "read", p)
        BY <4>1, <4>3, MayRead
      <4>5. found = Matching(text)
        BY <1>4, <3>6, <4>1, <4>2, <4>4 DEF Found
      <4>6. (\A n \in found : <<p, n>> \in all) => AllHits(new, p, text)
        BY <1>13, <4>5 DEF AllHits
      <4> QED
        BY <1>7, <3>6, <4>6 DEF Grown
    <3> QED
      BY <3>3, <3>4, <3>5, <3>6
  <2>5. SeenHolds(tree, new, handle[c], p, text)
    BY <1>13, <2>3, <2>4 DEF SeenHolds, EditHolds, SearchHolds
  <2> QED
    BY <2>1, <2>5
<1> QED
  BY <1>1, <1>12, <1>14, SeenQuietly

(* and has all there is, or as much as it may have. *)
LEMMA ScanEndsSeen ==
  ASSUME FilesInv, SeenInv, NEW c \in Caller, ScanEnds(c)
  PROVE  SeenInv'
<1>1. /\ IsCall(call[c]) /\ call[c].at = "scan"
      /\ call[c].files = {} \/ Cardinality(call[c].hits) >= MaxResults
      /\ UNCHANGED <<tree, handle, seen>>
  BY DEF FilesInv, ScanEnds
<1>2. PICK cut : cut = (Cardinality(call[c].hits) >= MaxResults)
  OBVIOUS
<1>3. PICK changed : changed = [at |-> "done", ok |-> TRUE, cut |-> cut]
  OBVIOUS
<1>4. Goes(c, changed)
  BY <1>2, <1>3 DEF ScanEnds
<1>5. DOMAIN changed = {"at", "ok", "cut"} /\ changed.at = "done" /\ changed.cut = cut
  BY <1>3
<1>6. PICK new : new = With(call[c], changed)
  OBVIOUS
<1>7. call' = [call EXCEPT ![c] = new] /\ After(call[c], changed, new)
  BY <1>4, <1>6, GoesOn
<1>8. /\ new.at = "done" /\ new.cut = cut /\ new.hits = call[c].hits
      /\ new.path = call[c].path /\ new.include = call[c].include
      /\ new.tool = call[c].tool /\ new.context = call[c].context
  BY <1>5, <1>7 DEF After
<1>9. call[c].tool = "grep"
  BY <1>1 DEF IsCall, Placed
<1>10. ~cut => ~(Cardinality(call[c].hits) >= MaxResults)
  BY <1>2, Zenon
<1>11. ASSUME NEW x \in seen'[c]
       PROVE  SeenHolds(tree, new, handle[c], x[1], x[2])
  <2>1. PICK p, text : p = x[1] /\ text = x[2]
    OBVIOUS
  <2>2. SeenHolds(tree, call[c], handle[c], p, text)
    BY <1>1, <1>11, <2>1 DEF SeenInv
  <2>3. Still(tree, p, text)
    BY <1>1, <1>9, <2>2 DEF SeenHolds, SearchHolds
  <2>4. ASSUME Inside(new, p), ~new.cut PROVE AllHits(new, p, text)
    <3>1. Inside(call[c], p)
      BY <1>8, <2>4, InsideSame
    <3>2. ~(Cardinality(call[c].hits) >= MaxResults) /\ call[c].files = {}
      BY <1>1, <1>8, <1>10, <2>4
    <3>3. AllHits(call[c], p, text)
      BY <1>1, <1>9, <2>2, <3>1, <3>2 DEF SeenHolds, SearchHolds
    <3> QED
      BY <1>8, <3>3 DEF AllHits
  <2>5. SeenHolds(tree, new, handle[c], p, text)
    BY <1>8, <1>9, <2>3, <2>4 DEF SeenHolds, EditHolds, SearchHolds
  <2> QED
    BY <2>1, <2>5
<1> QED
  BY <1>1, <1>7, <1>11, SeenQuietly

-----------------------------------------------------------------------------
(* Every step keeps what was seen. *)
LEMMA SeenNextKeeps ==
  ASSUME FilesInv, SeenInv, [Next]_vars
  PROVE  SeenInv'
<1>1. CASE UNCHANGED vars
  <2>1. UNCHANGED <<tree, call, handle, seen>>
    BY <1>1 DEF vars
  <2> QED
    BY <2>1 DEF SeenInv
<1>2. ASSUME NEW c \in Caller, CallNext(c)
      PROVE  SeenInv'
  <2>1. CASE ContextNext(c)
    BY <2>1, ContextSeen
  <2>2. CASE Resolves(c) \/ Checks(c) \/ Returns(c)
    BY <2>2, ResolvesSeen, ChecksSeen, ReturnsSeen
  <2>3. CASE Reads(c) \/ Lists(c) \/ EditReads(c)
    BY <2>3, LooksSeen, EditReadsSeen
  <2>4. CASE Opens(c) \/ Fills(c) \/ Moves(c) \/ Makes(c)
    BY <2>4, OpensSeen, FillsSeen, MovesSeen, MakesSeen
  <2>5. CASE SearchNext(c)
    BY <2>5, WalkStartsSeen, WalkEndsSeen, ScanEndsSeen, ListsSeen, ScansSeen DEF SearchNext
  <2> QED
    BY <1>2, <2>1, <2>2, <2>3, <2>4, <2>5 DEF CallNext
<1>3. ASSUME NEW c \in Caller, NEW request \in Request, Arrives(c, request)
      PROVE  SeenInv'
  BY <1>3, ArrivesSeen
<1> QED
  BY <1>1, <1>2, <1>3 DEF Next

(* Nobody has seen anything at first, so it holds of all that is seen. *)
LEMMA SeenAlways == FairSpec => [](FilesInv /\ SeenInv)
<1>1. Init => FilesInv
  BY FilesInit
<1>2. Init => SeenInv
  BY DEF Init, SeenInv
<1>3. FilesInv /\ [Next]_vars => FilesInv'
  BY FilesNextKeeps
<1>4. FilesInv /\ SeenInv /\ [Next]_vars => SeenInv'
  BY SeenNextKeeps
<1> QED
  BY <1>1, <1>2, <1>3, <1>4, PTL DEF FairSpec

(* The other lines of a text, as they are shown when start to stop are new. *)
ShowsOthers(made, text, start, stop, new) ==
  LET before == Lines(text)
      added == Len(Lines(Terminated(new))) - (stop - start)
  IN  \A n \in DOMAIN before :
        /\ n < start /\ Last(before[n]) = NL => Numbered(made, n, 1) = {<<n, before[n]>>}
        /\ n >= stop => Numbered(made, n + added, 1) = {<<n + added, before[n]>>}

(* So they are after an edit. *)
LEMMA EditIsLocal ==
  ASSUME NEW text \in Text, NEW start \in Nat \ {0}, NEW stop \in Nat \ {0}, start <= stop,
         NEW new \in Text, NEW made, made = Edited(text, start, stop, new)
  PROVE  ShowsOthers(made, text, start, stop, new)
<1>1. PICK before : before = Lines(text)
  OBVIOUS
<1>2. PICK added : added = Len(Lines(Terminated(new))) - (stop - start)
  OBVIOUS
<1>3. /\ made \in Text
      /\ \A n \in DOMAIN before :
           /\ n < start /\ Last(before[n]) = NL =>
                n \in DOMAIN Lines(made) /\ Lines(made)[n] = before[n]
           /\ n >= stop => n + added \in DOMAIN Lines(made) /\ Lines(made)[n + added] = before[n]
  BY <1>1, <1>2, EditedIs
<1>4. \A n \in DOMAIN Lines(made) : Numbered(made, n, 1) = {<<n, Lines(made)[n]>>}
  BY <1>3, ShownIs
<1>5. \A n \in DOMAIN before :
        /\ n < start /\ Last(before[n]) = NL => Numbered(made, n, 1) = {<<n, before[n]>>}
        /\ n >= stop => Numbered(made, n + added, 1) = {<<n + added, before[n]>>}
  BY <1>3, <1>4
<1> QED
  BY <1>1, <1>2, <1>5 DEF ShowsOthers

(* edit_file: whatever else happens, as long as no other call touches the  *)
(* file an edit leaves every other line as it was, under its number or     *)
(* under that moved by what the edit added.                                *)
THEOREM EditsAreLocalHolds == FairSpec => []EditsAreLocal
<1>1. FilesInv /\ SeenInv => EditsAreLocal
  <2> SUFFICES ASSUME FilesInv, SeenInv, NEW c \in Caller,
                      call[c].at = "done", call[c].tool = "edit", call[c].ok, NEW x \in seen[c]
               PROVE  LET before == Lines(x[2])
                          e == call[c]
                          added == Len(Lines(Terminated(e.text))) - (e.stop - e.start)
                          shown(n) == Numbered(tree[x[1]].text, n, 1)
                      IN  \A n \in DOMAIN before :
                            /\ n < e.start /\ Last(before[n]) = NL => shown(n) = {<<n, before[n]>>}
                            /\ n >= e.stop => shown(n + added) = {<<n + added, before[n]>>}
    BY DEF EditsAreLocal
  <2>1. PICK text, made : text = x[2] /\ made = tree[x[1]].text
    OBVIOUS
  <2>2. PICK start \in Nat \ {0}, stop \in Nat \ {0}, new \in Text :
          start = call[c].start /\ stop = call[c].stop /\ new = call[c].text
    BY DEF FilesInv, IsCall, Typed
  <2>3. text \in Text /\ start <= stop /\ made = Edited(text, start, stop, new)
    <3>1. EditHolds(tree, call[c], handle[c], x[1], x[2])
      BY DEF SeenInv, SeenHolds
    <3>2. IsEdit(call[c], text) /\ Still(tree, x[1], call[c].data)
      BY <2>1, <3>1 DEF EditHolds
    <3> QED
      BY <2>1, <2>2, <3>2 DEF IsEdit, Still
  <2>4. ShowsOthers(made, text, start, stop, new)
    BY <2>3, EditIsLocal
  <2> QED
    BY <2>1, <2>2, <2>4 DEF ShowsOthers
<1> QED
  BY <1>1, SeenAlways, PTL

(* glob, grep: whatever the other calls do meanwhile, a search that does   *)
(* not say it was cut short has found all there is in the files that       *)
(* stayed as they were since it began, of those it may read.               *)
THEOREM SearchIsCompleteHolds == FairSpec => []SearchIsComplete
<1>1. FilesInv /\ SeenInv => SearchIsComplete
  <2> SUFFICES ASSUME FilesInv, SeenInv, NEW c \in Caller, call[c].at = "done",
                      call[c].tool \in {"glob", "grep"}, call[c].ok, ~call[c].cut,
                      NEW x \in seen[c],
                      IsPrefix(call[c].path, x[1]), Included(c, x[1]),
                      call[c].tool = "grep" => Check(tree, call[c].context, "read", x[1]),
                      \A i \in Len(call[c].path) + 1..Len(x[1]) : ~Hidden(x[1][i]),
                      NEW n \in IF call[c].tool = "glob" THEN {0} ELSE Matching(x[2])
               PROVE  <<x[1], n>> \in call[c].hits
    BY DEF SearchIsComplete
  <2>1. PICK p, text : p = x[1] /\ text = x[2]
    OBVIOUS
  <2>2. SearchHolds(tree, call[c], p, text)
    BY <2>1 DEF SeenInv, SeenHolds
  <2>3. WellFormed(tree) /\ Is("file", tree, p)
    BY <2>2 DEF SearchHolds, Still, FilesInv, IsTree
  <2>4. call[c].tool = "grep" =>
          ~Denied(call[c].context, p) /\ Allowed(call[c].context, "read", p)
    BY <2>1, <2>3, MayRead
  <2>5. Inside(call[c], p)
    BY <2>1, <2>4 DEF Inside, Included
  <2>6. AllHits(call[c], p, text)
    BY <2>2, <2>5 DEF SearchHolds
  <2> QED
    BY <2>1, <2>6 DEF AllHits
<1> QED
  BY <1>1, SeenAlways, PTL
=============================================================================
