----------------------------- MODULE SumTheorems -----------------------------
(***************************************************************************)
(* Facts about sums over finite sets, for the books of the money           *)
(* components.  Induction over the finite set is used in the form "a       *)
(* collection of subsets that is closed under adding an element has the    *)
(* whole set", which speaks of sets only.                                  *)
(***************************************************************************)
EXTENDS Functions, FiniteSets, FiniteSetTheorems, WellFoundedInduction, TLAPS

\* A collection Q of subsets of a finite set S that contains a set whenever it
\* contains all its proper subsets contains S.
LEMMA SubsetInduction ==
  ASSUME NEW S, IsFiniteSet(S), NEW Q,
         \A s \in SUBSET S :
           (\A r \in SUBSET s : r # s => r \in Q) => s \in Q
  PROVE  \A s \in SUBSET S : s \in Q
<1> DEFINE D == SUBSET S
           Below == StrictSubsetOrdering(S)
           Out == D \ Q
<1>1. SUFFICES ASSUME Out # {} PROVE FALSE
  OBVIOUS
<1>2. IsWellFoundedOn(Below, D)
  BY FS_FiniteSubsetsOfFinite, FS_StrictSubsetOrderingWellFounded
<1>3. Out \subseteq D
  OBVIOUS
<1>4. \E s \in Out : \A r \in Out : ~ (<<r, s>> \in Below)
  <2> HIDE DEF D, Below, Out
  <2> QED BY <1>1, <1>2, <1>3, WFMin
<1>5. PICK s \in Out : \A r \in Out : ~ (<<r, s>> \in Below)
  BY <1>4
<1>6. ASSUME NEW r \in SUBSET s, r # s PROVE r \in Q
  <2>1. r \in SUBSET S
    OBVIOUS
  <2>2. <<r, s>> \in StrictSubsetOrdering(S)
    BY <1>6, <2>1 DEF StrictSubsetOrdering
  <2> QED
    BY <2>1, <2>2, <1>5
<1> QED
  BY <1>5, <1>6

-----------------------------------------------------------------------------
(* The recursive function behind a sum *)

Pick(s) == CHOOSE x \in s : TRUE

Adds(h, f, S) ==
  h = [s \in SUBSET S |-> IF s = {} THEN 0
                          ELSE f[Pick(s)] + h[s \ {Pick(s)}]]

\* A set that is not empty has the element its sum starts with.
LEMMA PickIn == ASSUME NEW s, s # {} PROVE Pick(s) \in s
  BY DEF Pick

\* The sum of the community modules is the value of that function.
LEMMA SumIsValue ==
  ASSUME NEW f, NEW S
  PROVE  SumFunctionOnSet(f, S) = (CHOOSE h : Adds(h, f, S))[S]
  BY DEF SumFunctionOnSet, FoldFunctionOnSet, MapThenFoldSet, Adds, Pick

\* Two such functions agree wherever both are defined.
LEMMA AddsAgree ==
  ASSUME NEW f, NEW A, NEW B, IsFiniteSet(A), NEW h, NEW g,
         Adds(h, f, A), Adds(g, f, B)
  PROVE  \A s \in SUBSET A : s \in SUBSET B => h[s] = g[s]
<1> DEFINE Q == {s \in SUBSET A : s \in SUBSET B => h[s] = g[s]}
<1>1. ASSUME NEW s \in SUBSET A, \A r \in SUBSET s : r # s => r \in Q
      PROVE  s \in Q
  <2>1. SUFFICES ASSUME s \in SUBSET B PROVE h[s] = g[s]
    OBVIOUS
  <2>2. CASE s = {}
    BY <2>1, <2>2 DEF Adds
  <2>3. CASE s # {}
    <3> DEFINE r == s \ {Pick(s)}
    <3>1. Pick(s) \in s
      BY <2>3, PickIn
    <3>2. r \in SUBSET s /\ r # s
      BY <3>1
    <3>3. h[r] = g[r]
      BY <3>2, <1>1, <2>1
    <3>4. h[s] = f[Pick(s)] + h[r] /\ g[s] = f[Pick(s)] + g[r]
      BY <2>1, <2>3 DEF Adds
    <3> QED BY <3>3, <3>4
  <2> QED BY <2>2, <2>3
<1>2. \A s \in SUBSET A : s \in Q
  <2> HIDE DEF Q
  <2> QED BY <1>1, SubsetInduction
<1> QED
  BY <1>2

\* Over a finite set the function exists.
LEMMA AddsExists ==
  ASSUME NEW f, NEW S, IsFiniteSet(S)
  PROVE  \E h : Adds(h, f, S)
<1> DEFINE Q == {s \in SUBSET S : \E h : Adds(h, f, s)}
<1>1. ASSUME NEW s \in SUBSET S, \A r \in SUBSET s : r # s => r \in Q
      PROVE  s \in Q
  <2> DEFINE W == [r \in SUBSET s |-> CHOOSE g : Adds(g, f, r)]
  <2>1. \A r \in SUBSET s : r # s => Adds(W[r], f, r)
    <3>1. SUFFICES ASSUME NEW r \in SUBSET s, r # s PROVE Adds(W[r], f, r)
      OBVIOUS
    <3>2. \E g : Adds(g, f, r)
      BY <1>1, <3>1
    <3>3. Adds(CHOOSE g : Adds(g, f, r), f, r)
      BY <3>2
    <3>4. W[r] = CHOOSE g : Adds(g, f, r)
      OBVIOUS
    <3> QED BY <3>3, <3>4
  <2> HIDE DEF W
  <2> DEFINE Left(r) == r \ {Pick(r)}
             h == [r \in SUBSET s |-> IF r = {} THEN 0
                                      ELSE f[Pick(r)] + W[Left(r)][Left(r)]]
  <2>2. ASSUME NEW r \in SUBSET s, r # {} PROVE h[Left(r)] = W[Left(r)][Left(r)]
    <3> DEFINE q == Left(r)
    <3>1. Pick(r) \in r
      BY <2>2, PickIn
    <3>2. q \in SUBSET s /\ q # s
      BY <3>1
    <3>3. Adds(W[q], f, q)
      BY <2>1, <3>2
    <3>4. CASE q = {}
      <4>1. W[q][q] = 0
        BY <3>3, <3>4 DEF Adds
      <4>2. h[q] = 0
        BY <3>2, <3>4
      <4> QED BY <4>1, <4>2
    <3>5. CASE q # {}
      <4> DEFINE p == Left(q)
      <4>1. Pick(q) \in q
        BY <3>5, PickIn
      <4>2. p \in SUBSET s /\ p # s /\ p \in SUBSET q
        BY <4>1, <3>2
      <4>3. Adds(W[p], f, p)
        BY <2>1, <4>2
      <4>4. IsFiniteSet(p)
        BY <4>2, FS_Subset
      <4>5. W[p][p] = W[q][p]
        <5> DEFINE hp == W[p]
                   hq == W[q]
        <5>1. Adds(hp, f, p) /\ Adds(hq, f, q)
          BY <4>3, <3>3
        <5>2. \A t \in SUBSET p : t \in SUBSET q => hp[t] = hq[t]
          <6> HIDE DEF p, q, hp, hq
          <6> QED BY <5>1, <4>4, AddsAgree
        <5> QED BY <5>2, <4>2
      <4>6. W[q][q] = f[Pick(q)] + W[q][p]
        BY <3>3, <3>5 DEF Adds
      <4>7. h[q] = f[Pick(q)] + W[p][p]
        BY <3>2, <3>5
      <4> QED BY <4>5, <4>6, <4>7
    <3> QED BY <3>4, <3>5
  <2>3. Adds(h, f, s)
    BY <2>2 DEF Adds
  <2> QED BY <2>3
<1>2. \A s \in SUBSET S : s \in Q
  <2> HIDE DEF Q
  <2> QED BY <1>1, SubsetInduction
<1>3. S \in Q
  BY <1>2
<1> QED
  BY <1>3

\* h holds the sums of f over the subsets of S.
Sums(h, f, S) ==
  /\ h \in [SUBSET S -> Int]
  /\ SumFunctionOnSet(f, S) = h[S]
  /\ \A s \in SUBSET S :
       h[s] = IF s = {} THEN 0 ELSE f[Pick(s)] + h[s \ {Pick(s)}]

\* What a sum is: the equation of its recursive function, with integer terms.
LEMMA SumEquation ==
  ASSUME NEW S, IsFiniteSet(S), NEW f, \A x \in S : f[x] \in Int
  PROVE  \E h : Sums(h, f, S)
<1> DEFINE h == CHOOSE h : Adds(h, f, S)
<1>1. Adds(h, f, S)
  BY AddsExists
<1>2. SumFunctionOnSet(f, S) = h[S]
  BY SumIsValue
<1> HIDE DEF h
<1>3. \A s \in SUBSET S :
        h[s] = IF s = {} THEN 0 ELSE f[Pick(s)] + h[s \ {Pick(s)}]
  BY <1>1 DEF Adds
<1>4. \A s \in SUBSET S : h[s] \in Int
  <2> DEFINE Q == {s \in SUBSET S : h[s] \in Int}
  <2>1. ASSUME NEW s \in SUBSET S, \A r \in SUBSET s : r # s => r \in Q
        PROVE  s \in Q
    <3>1. CASE s = {}
      <4>1. h[s] = 0
        BY <1>3, <3>1
      <4> QED BY <4>1
    <3>2. CASE s # {}
      <4> DEFINE r == s \ {Pick(s)}
      <4>1. Pick(s) \in s
        BY <3>2, PickIn
      <4>2. r \in SUBSET s /\ r # s
        BY <4>1
      <4>3. h[r] \in Int /\ f[Pick(s)] \in Int
        BY <4>1, <4>2, <2>1
      <4>4. h[s] = f[Pick(s)] + h[r]
        BY <1>3, <3>2
      <4>5. h[s] \in Int
        <5> HIDE DEF r
        <5> QED BY <4>3, <4>4
      <4> QED BY <4>5
    <3> QED BY <3>1, <3>2
  <2>2. \A s \in SUBSET S : s \in Q
    <3> HIDE DEF Q
    <3> QED BY <2>1, SubsetInduction
  <2> QED BY <2>2
<1>5. h \in [SUBSET S -> Int]
  <2>1. h = [s \in SUBSET S |-> h[s]]
    BY <1>1 DEF Adds
  <2> QED BY <2>1, <1>4
<1>6. Sums(h, f, S)
  BY <1>2, <1>3, <1>5 DEF Sums
<1> QED
  BY <1>6

-----------------------------------------------------------------------------
(* What the proofs use *)

\* A sum of integers is an integer.
LEMMA SumInt ==
  ASSUME NEW S, IsFiniteSet(S), NEW f, \A x \in S : f[x] \in Int
  PROVE  SumFunctionOnSet(f, S) \in Int
<1>1. PICK h : Sums(h, f, S)
  BY SumEquation
<1> QED
  BY <1>1 DEF Sums

\* When one term changes, the sum changes by the difference.
LEMMA SumChange ==
  ASSUME NEW S, IsFiniteSet(S), NEW f, NEW g, NEW x \in S,
         \A y \in S : f[y] \in Int /\ g[y] \in Int,
         \A y \in S : y # x => g[y] = f[y]
  PROVE  SumFunctionOnSet(g, S) = SumFunctionOnSet(f, S) + g[x] - f[x]
<1>1. PICK a : Sums(a, f, S)
  BY SumEquation
<1>2. PICK b : Sums(b, g, S)
  <2>1. \A y \in S : g[y] \in Int
    OBVIOUS
  <2> QED BY <2>1, SumEquation
<1> DEFINE Q == {s \in SUBSET S :
                   b[s] = a[s] + (IF x \in s THEN g[x] - f[x] ELSE 0)}
<1>3. ASSUME NEW s \in SUBSET S, \A r \in SUBSET s : r # s => r \in Q
      PROVE  s \in Q
  <2>1. CASE s = {}
    <3>1. a[s] = 0 /\ b[s] = 0
      BY <1>1, <1>2, <2>1 DEF Sums
    <3> QED BY <3>1, <2>1
  <2>2. CASE s # {}
    <3> DEFINE c == Pick(s)
               r == s \ {c}
    <3>1. c \in s
      BY <2>2, PickIn
    <3>2. r \in SUBSET s /\ r # s /\ r \in SUBSET S
      BY <3>1
    <3>3. b[r] = a[r] + (IF x \in r THEN g[x] - f[x] ELSE 0)
      BY <3>2, <1>3
    <3>4. a[s] = f[c] + a[r] /\ b[s] = g[c] + b[r]
      BY <1>1, <1>2, <2>2 DEF Sums
    <3>5. c \in S /\ c # x => g[c] = f[c]
      BY <3>1
    <3>6. x \in r <=> (x \in s /\ c # x)
      OBVIOUS
    <3>7. a[r] \in Int /\ b[r] \in Int /\ a[s] \in Int /\ b[s] \in Int
      BY <3>2, <1>1, <1>2 DEF Sums
    <3>8. b[s] = a[s] + (IF x \in s THEN g[x] - f[x] ELSE 0)
      <4>1. /\ c \in S /\ x \in S /\ g[c] \in Int /\ f[c] \in Int
            /\ g[x] \in Int /\ f[x] \in Int
        BY <3>1
      <4> HIDE DEF c, r
      <4>2. CASE c = x
        BY <3>1, <3>3, <3>4, <3>6, <3>7, <4>1, <4>2
      <4>3. CASE c # x
        BY <3>3, <3>4, <3>5, <3>6, <3>7, <4>1, <4>3
      <4> QED BY <4>2, <4>3
    <3> QED BY <3>8
  <2> QED BY <2>1, <2>2
<1>4. \A s \in SUBSET S : s \in Q
  <2> HIDE DEF Q
  <2> QED BY <1>3, SubsetInduction
<1>5. S \in Q
  BY <1>4
<1>6. /\ SumFunctionOnSet(f, S) = a[S] /\ SumFunctionOnSet(g, S) = b[S]
      /\ a[S] \in Int /\ b[S] \in Int
  BY <1>1, <1>2 DEF Sums
<1>7. b[S] = a[S] + (g[x] - f[x])
  BY <1>5
<1>8. g[x] \in Int /\ f[x] \in Int
  OBVIOUS
<1> QED
  BY <1>6, <1>7, <1>8

\* A sum depends on the terms in its set only.
LEMMA SumSame ==
  ASSUME NEW S, IsFiniteSet(S), NEW f, NEW g,
         \A y \in S : f[y] \in Int,
         \A y \in S : g[y] = f[y]
  PROVE  SumFunctionOnSet(g, S) = SumFunctionOnSet(f, S)
<1>1. CASE S = {}
  <2>1. PICK a : Sums(a, f, S)
    BY SumEquation
  <2>2. PICK b : Sums(b, g, S)
    BY SumEquation
  <2> QED BY <2>1, <2>2, <1>1 DEF Sums
<1>2. CASE S # {}
  <2>1. PICK x \in S : TRUE
    BY <1>2
  <2>2. SumFunctionOnSet(g, S) = SumFunctionOnSet(f, S) + g[x] - f[x]
    BY SumChange
  <2>3. SumFunctionOnSet(f, S) \in Int
    BY SumInt
  <2>4. g[x] = f[x] /\ f[x] \in Int
    OBVIOUS
  <2> QED BY <2>2, <2>3, <2>4
<1> QED BY <1>1, <1>2

\* A sum of zeros is zero.
LEMMA SumZero ==
  ASSUME NEW S, IsFiniteSet(S), NEW f, \A x \in S : f[x] = 0
  PROVE  SumFunctionOnSet(f, S) = 0
<1>1. PICK h : Sums(h, f, S)
  BY SumEquation
<1> DEFINE Q == {s \in SUBSET S : h[s] = 0}
<1>2. ASSUME NEW s \in SUBSET S, \A r \in SUBSET s : r # s => r \in Q
      PROVE  s \in Q
  <2>1. CASE s = {}
    <3>1. h[s] = 0
      BY <1>1, <2>1 DEF Sums
    <3> QED BY <3>1, <2>1
  <2>2. CASE s # {}
    <3>1. Pick(s) \in s
      BY <2>2, PickIn
    <3>2. h[s \ {Pick(s)}] = 0 /\ f[Pick(s)] = 0
      BY <3>1, <1>2
    <3>3. h[s] = f[Pick(s)] + h[s \ {Pick(s)}]
      BY <1>1, <2>2 DEF Sums
    <3> QED BY <3>2, <3>3
  <2> QED BY <2>1, <2>2
<1>3. \A s \in SUBSET S : s \in Q
  <2> HIDE DEF Q
  <2> QED BY <1>2, SubsetInduction
<1>4. S \in Q
  BY <1>3
<1> QED
  BY <1>1, <1>4 DEF Sums

\* A sum of natural numbers is one, and none of its terms exceeds it.
LEMMA SumNat ==
  ASSUME NEW S, IsFiniteSet(S), NEW f, \A x \in S : f[x] \in Nat
  PROVE  /\ SumFunctionOnSet(f, S) \in Nat
         /\ \A x \in S : f[x] <= SumFunctionOnSet(f, S)
<1>1. PICK h : Sums(h, f, S)
  <2>1. \A x \in S : f[x] \in Int
    OBVIOUS
  <2> QED BY <2>1, SumEquation
<1> DEFINE Q == {s \in SUBSET S : h[s] \in Nat /\ \A x \in s : f[x] <= h[s]}
<1>2. ASSUME NEW s \in SUBSET S, \A r \in SUBSET s : r # s => r \in Q
      PROVE  s \in Q
  <2>1. CASE s = {}
    <3>1. h[s] = 0
      BY <1>1, <2>1 DEF Sums
    <3> QED BY <3>1, <2>1
  <2>2. CASE s # {}
    <3> DEFINE c == Pick(s)
               r == s \ {c}
    <3>1. c \in s
      BY <2>2, PickIn
    <3>2. r \in SUBSET s /\ r # s
      BY <3>1
    <3>3. h[r] \in Nat /\ (\A x \in r : f[x] <= h[r])
      BY <3>2, <1>2
    <3>4. h[s] = f[c] + h[r]
      BY <1>1, <2>2 DEF Sums
    <3>5. f[c] \in Nat /\ \A x \in s : f[x] \in Nat /\ (x = c \/ x \in r)
      BY <3>1
    <3>6. h[s] \in Nat /\ \A x \in s : f[x] <= h[s]
      <4> HIDE DEF c, r
      <4> QED BY <3>3, <3>4, <3>5
    <3> QED BY <3>6
  <2> QED BY <2>1, <2>2
<1>3. \A s \in SUBSET S : s \in Q
  <2> HIDE DEF Q
  <2> QED BY <1>2, SubsetInduction
<1>4. S \in Q
  BY <1>3
<1> QED
  BY <1>1, <1>4 DEF Sums
=============================================================================
