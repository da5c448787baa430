-------------------------- MODULE StepPlanProofs ---------------------------
(***************************************************************************)
(* TLAPS proofs about StepPlan: a step consumes the same rows at the same  *)
(* rate in every launch, each pass trains on every image once, and the     *)
(* curve keeps its shape, for every folder, configuration and length.      *)
(*                                                                         *)
(* The recursive functions of the model (the generated boxes, the scan,    *)
(* the plans, a power) are unfolded by one lemma, Iteration, and climbed   *)
(* by another, Climb.  From there: a set counted in order holds each of    *)
(* its members once; a scan's entries are the images in order, each in a   *)
(* box that exists; a plan is a chunk of one box's items, and every item   *)
(* is in one chunk.  PlanInv then says of each step seen so far that it    *)
(* is what the plan gives it, whatever launch it ran in.                   *)
(*                                                                         *)
(* FramesFit leans on none of the roundings of f64: a floor may come out   *)
(* one lower than the quotient and a ceiling one higher, and both are on   *)
(* the side that fits.                                                     *)
(***************************************************************************)
EXTENDS StepPlan, SequenceTheorems, FiniteSetTheorems, FunctionTheorems,
        WellFoundedInduction, TLAPS

-----------------------------------------------------------------------------
(* Induction over sets of naturals *)

(* The library's induction theorems take the predicate as a parameter.  The  *)
(* same for a set of naturals, from the well-founded order of finite sets.   *)
Below == {p \in Nat \X Nat : p[1] < p[2]}
LEMMA BelowIff ==
  ASSUME NEW a \in Nat, NEW b \in Nat
  PROVE  <<a, b>> \in Below <=> a < b
BY DEF Below

LEMMA BelowIsWellFounded == IsWellFoundedOn(Below, Nat)
<1> SUFFICES ASSUME NEW f \in [Nat -> Nat], \A n \in Nat : <<f[n + 1], f[n]>> \in Below
             PROVE  FALSE
  BY Zenon DEF IsWellFoundedOn
<1> DEFINE g == [n \in Nat |-> 1 .. f[n]]
<1>1. ASSUME NEW n \in Nat
      PROVE  1 .. f[n] \in FiniteSubsetsOf(Nat)
  <2>1. PICK k \in Nat : k = f[n]
    OBVIOUS
  <2>2. IsFiniteSet(1 .. k) /\ 1 .. k \subseteq Nat
    BY FS_Interval
  <2>3. QED
    BY <2>1, <2>2, Zenon DEF FiniteSubsetsOf
<1>2. g \in [Nat -> FiniteSubsetsOf(Nat)]
  BY <1>1
<1>3. ASSUME NEW n \in Nat
      PROVE  <<g[n + 1], g[n]>> \in StrictSubsetOrdering(Nat)
  <2>1. PICK a \in Nat, b \in Nat : a = f[n + 1] /\ b = f[n]
    OBVIOUS
  <2>2. <<a, b>> \in Below
    BY <2>1
  <2>3. a < b
    BY <2>2 DEF Below
  <2>4. 1 .. a \subseteq 1 .. b /\ b \in 1 .. b /\ b \notin 1 .. a
    BY <2>3
  <2>5. 1 .. a \in SUBSET Nat /\ 1 .. b \in SUBSET Nat /\ 1 .. a # 1 .. b
    BY <2>4
  <2>6. <<1 .. a, 1 .. b>> \in StrictSubsetOrdering(Nat)
    <3> DEFINE x == 1 .. a
               y == 1 .. b
    <3>1. x \in SUBSET Nat /\ y \in SUBSET Nat /\ x # y /\ x \subseteq y
      BY <2>4, <2>5
    <3> HIDE DEF x, y
    <3>2. <<x, y>> \in StrictSubsetOrdering(Nat)
      BY <3>1 DEF StrictSubsetOrdering
    <3>3. QED
      BY <3>2 DEF x, y
  <2>7. g[n + 1] = 1 .. a /\ g[n] = 1 .. b
    BY <2>1
  <2>8. QED
    BY <2>6, <2>7, Zenon
<1>4. QED
  <2> HIDE DEF g
  <2>1. QED
    BY <1>2, <1>3, FS_StrictSubsetOrderingWellFounded, Zenon DEF IsWellFoundedOn

LEMMA LeastNatural ==
  ASSUME NEW T \in SUBSET Nat, T # {}
  PROVE  \E m \in T : \A n \in T : m <= n
<1>1. PICK m \in T : \A n \in T : <<n, m>> \notin Below
  BY BelowIsWellFounded, WFMin, Zenon
<1>2. \A n \in T : ~(n < m)
  BY <1>1, BelowIff
<1>3. QED
  BY <1>2

LEMMA SetInduction ==
  ASSUME NEW T, 0 \in T, \A n \in T : n \in Nat => n + 1 \in T
  PROVE  Nat \subseteq T
<1> SUFFICES ASSUME Nat \ T # {}
             PROVE  FALSE
  BY Zenon
<1>1. PICK m \in Nat \ T : \A n \in Nat \ T : m <= n
  BY LeastNatural, Zenon
<1>2. m # 0 /\ m - 1 \in Nat /\ (m - 1) + 1 = m
  OBVIOUS
<1>3. m - 1 \in T
  BY <1>1, <1>2
<1>4. QED
  BY <1>2, <1>3

(* A recursive function over 0 .. n is there, when each of its steps is a    *)
(* function on one set of values.                                            *)
Iterates(f, V, base, n, next) ==
  f \in [0 .. n -> V] /\ f[0] = base /\ \A i \in 1 .. n : f[i] = next[i][f[i - 1]]

LEMMA Iteration ==
  ASSUME NEW V, NEW base \in V, NEW n \in Nat,
         NEW next, \A i \in 1 .. n : next[i] \in [V -> V]
  PROVE  \E f : Iterates(f, V, base, n, next)
<1> DEFINE Up(f, m) == f[0] = base /\ \A i \in 1 .. m : f[i] = next[i][f[i - 1]]
           T == {m \in Nat : m <= n => \E f \in [0 .. m -> V] : Up(f, m)}
<1>1. 0 \in T
  <2> DEFINE f == [i \in 0 .. 0 |-> base]
  <2>1. f \in [0 .. 0 -> V] /\ f[0] = base
    OBVIOUS
  <2>2. 1 .. 0 = {}
    OBVIOUS
  <2> HIDE DEF f
  <2>3. Up(f, 0)
    BY <2>1, <2>2
  <2>4. QED
    BY <2>1, <2>3
<1>2. ASSUME NEW m \in T, m \in Nat
      PROVE  m + 1 \in T
  <2> SUFFICES ASSUME m + 1 <= n
               PROVE  \E g \in [0 .. m + 1 -> V] : Up(g, m + 1)
    OBVIOUS
  <2>1. m <= n /\ m + 1 \in 1 .. n /\ m \in 0 .. m
    BY <1>2
  <2>2. PICK f \in [0 .. m -> V] : Up(f, m)
    BY <2>1
  <2> DEFINE g == [i \in 0 .. m + 1 |-> IF i <= m THEN f[i] ELSE next[m + 1][f[m]]]
  <2>3. f[m] \in V /\ next[m + 1][f[m]] \in V
    BY <2>1
  <2>4. g \in [0 .. m + 1 -> V]
    BY <1>2, <2>3
  <2>5. \A i \in 0 .. m : g[i] = f[i]
    BY <1>2
  <2>6. g[m + 1] = next[m + 1][f[m]]
    BY <1>2
  <2> HIDE DEF g
  <2>7. ASSUME NEW i \in 1 .. m + 1
        PROVE  g[i] = next[i][g[i - 1]]
    <3>1. CASE i = m + 1
      <4>1. g[i - 1] = f[m]
        BY <1>2, <2>5, <3>1
      <4>2. QED
        BY <2>6, <3>1, <4>1
    <3>2. CASE i # m + 1
      <4>1. i \in 1 .. m /\ i \in 0 .. m /\ i - 1 \in 0 .. m
        BY <1>2, <3>2
      <4>2. QED
        BY <2>2, <2>5, <4>1
    <3>3. QED
      BY <3>1, <3>2
  <2>8. g[0] = base
    BY <1>2, <2>2, <2>5
  <2>9. QED
    BY <2>4, <2>7, <2>8
<1> HIDE DEF T, Up
<1>3. n \in T /\ n <= n
  BY <1>1, <1>2, SetInduction
<1>4. \E f \in [0 .. n -> V] : Up(f, n)
  BY <1>3, Zenon DEF T
<1>5. QED
  BY <1>4, Zenon DEF Up, Iterates

-----------------------------------------------------------------------------
(* Sets of numbers in their order *)

Rank(S, i) == Cardinality({j \in S : j <= i})

LEMMA RankType ==
  ASSUME NEW S \in SUBSET Nat, IsFiniteSet(S), NEW i \in S
  PROVE  Rank(S, i) \in 1 .. Cardinality(S)
<1> DEFINE U == {j \in S : j <= i}
<1>1. U \in SUBSET S /\ i \in U
  OBVIOUS
<1>2. IsFiniteSet(U) /\ Cardinality(U) <= Cardinality(S) /\ Cardinality(U) \in Nat
  BY <1>1, FS_Subset, FS_CardinalityType
<1> HIDE DEF U
<1>3. Cardinality(U) # 0
  BY <1>1, <1>2, FS_EmptySet
<1>4. Cardinality(S) \in Nat
  BY FS_CardinalityType
<1>5. QED
  BY <1>2, <1>3, <1>4 DEF Rank, U

LEMMA RankGrows ==
  ASSUME NEW S \in SUBSET Nat, IsFiniteSet(S), NEW i \in S, NEW k \in S, i < k
  PROVE  Rank(S, i) < Rank(S, k)
<1> DEFINE U == {j \in S : j <= i}
           W == {j \in S : j <= k}
<1>1. \A j \in S : j <= i => j <= k
  OBVIOUS
<1>2. k <= k /\ ~(k <= i)
  OBVIOUS
<1>3. U \in SUBSET W /\ k \in W /\ k \notin U /\ W \in SUBSET S
  BY <1>1, <1>2, Zenon
<1> HIDE DEF U, W
<1>4. IsFiniteSet(W)
  BY <1>3, FS_Subset
<1>5. Cardinality(U) <= Cardinality(W) /\ Cardinality(U) # Cardinality(W)
  BY <1>3, <1>4, FS_Subset
<1>6. IsFiniteSet(U) /\ Cardinality(U) \in Nat /\ Cardinality(W) \in Nat
  BY <1>3, <1>4, FS_Subset, FS_CardinalityType
<1>7. QED
  BY <1>5, <1>6 DEF Rank, U, W

LEMMA RankOnto ==
  ASSUME NEW S \in SUBSET Nat, IsFiniteSet(S), NEW n \in 1 .. Cardinality(S)
  PROVE  \E i \in S : Rank(S, i) = n
<1> DEFINE N == 1 .. Cardinality(S)
           f == [i \in S |-> Rank(S, i)]
<1>1. f \in [S -> N]
  BY RankType
<1>2. ASSUME NEW i \in S, NEW k \in S, f[i] = f[k]
      PROVE  i = k
  <2>1. Rank(S, i) = Rank(S, k) /\ Rank(S, i) \in N
    BY <1>2, RankType
  <2>2. ~(i < k) /\ ~(k < i)
    BY <2>1, RankGrows
  <2>3. QED
    BY <2>2
<1> HIDE DEF f
<1>3. f \in Injection(S, N)
  BY <1>1, <1>2, Zenon DEF Injection, IsInjective
<1>4. IsFiniteSet(N) /\ Cardinality(N) = Cardinality(S)
  BY FS_Interval, FS_CardinalityType
<1>5. f \in Surjection(S, N)
  BY <1>3, <1>4, FS_Injection
<1>6. QED
  BY <1>5, Zenon DEF Surjection, f

(* Ascending(S) counts S: each of its numbers once.                          *)
LEMMA AscendingCounts ==
  ASSUME NEW S \in SUBSET Nat, IsFiniteSet(S)
  PROVE  /\ Ascending(S) \in [1 .. Cardinality(S) -> S]
         /\ Cardinality(S) \in Nat
         /\ \A i \in S : \E n \in 1 .. Cardinality(S) : Ascending(S)[n] = i
         /\ \A m, n \in 1 .. Cardinality(S) : Ascending(S)[m] = Ascending(S)[n] => m = n
<1> DEFINE N == 1 .. Cardinality(S)
<1>1. ASSUME NEW n \in N
      PROVE  Ascending(S)[n] \in S /\ Rank(S, Ascending(S)[n]) = n
  <2>1. Ascending(S)[n] = CHOOSE i \in S : Rank(S, i) = n
    BY Zenon DEF Ascending, Rank
  <2>2. QED
    BY <2>1, RankOnto, Zenon
<1>2. ASSUME NEW i \in S
      PROVE  \E n \in N : Ascending(S)[n] = i
  <2> DEFINE k == Ascending(S)[Rank(S, i)]
  <2>1. Rank(S, i) \in N /\ Rank(S, i) \in Nat
    BY RankType
  <2>2. k \in S /\ Rank(S, k) = Rank(S, i)
    BY <1>1, <2>1, Zenon
  <2> HIDE DEF k
  <2>3. k = i
    <3>1. ~(i < k) /\ ~(k < i)
      BY <2>1, <2>2, RankGrows
    <3>2. QED
      BY <2>2, <3>1
  <2>4. QED
    BY <2>1, <2>3, Zenon DEF k
<1>3. Ascending(S) \in [N -> S]
  BY <1>1, Zenon DEF Ascending
<1>4. \A m, n \in N : Ascending(S)[m] = Ascending(S)[n] => m = n
  BY <1>1, Zenon
<1>5. QED
  BY <1>2, <1>3, <1>4, FS_CardinalityType, Zenon

(* Induction over a bounded index.                                           *)
LEMMA Climb ==
  ASSUME NEW n \in Nat, NEW T, 0 \in T, \A i \in 1 .. n : i - 1 \in T => i \in T
  PROVE  0 .. n \subseteq T
<1> DEFINE U == {m \in Nat : m <= n => m \in T}
<1>1. 0 \in U
  BY Zenon
<1>2. ASSUME NEW m \in U, m \in Nat
      PROVE  m + 1 \in U
  <2>1. m + 1 <= n => m <= n /\ m + 1 \in 1 .. n /\ (m + 1) - 1 = m
    BY <1>2
  <2>2. QED
    BY <1>2, <2>1
<1> HIDE DEF U
<1>3. Nat \subseteq U
  BY <1>1, <1>2, SetInduction
<1>4. QED
  BY <1>3 DEF U

-----------------------------------------------------------------------------
(* The bucket set *)

Boxes == [width : Nat \ {0}, height : Nat \ {0}]

LEMMA BoxType ==
  ASSUME NEW w \in Nat \ {0}, NEW h \in Nat \ {0}
  PROVE  Box(w, h) \in Boxes
BY DEF Box, Boxes

LEMMA AlignDownType ==
  ASSUME NEW v \in Nat
  PROVE  /\ AlignDown(v) \in Nat /\ AlignDown(v) >= Align
         /\ \A m \in Nat : m % Align = 0 /\ m <= v => m <= AlignDown(v)
<1>1. v \div 16 \in Nat
  OBVIOUS
<1>2. AlignDown(v) \in Nat /\ AlignDown(v) >= Align /\ (v \div 16) * 16 <= AlignDown(v)
  BY <1>1 DEF AlignDown, Align, Larger
<1>3. ASSUME NEW m \in Nat, m % 16 = 0, m <= v
      PROVE  m <= (v \div 16) * 16
  BY <1>3
<1>4. QED
  BY <1>2, <1>3 DEF Align

LEMMA AlignDownIs ==
  ASSUME NEW v \in Nat
  PROVE  AlignDown(v) % 16 = 0 /\ (v >= 16 => AlignDown(v) <= v)
<1>1. AlignDown(v) = IF (v \div 16) * 16 > 16 THEN (v \div 16) * 16 ELSE 16
  BY DEF AlignDown, Align, Larger
<1>2. (v \div 16) * 16 <= v /\ ((v \div 16) * 16) % 16 = 0 /\ (v >= 16 => (v \div 16) * 16 >= 16)
  OBVIOUS
<1>3. QED
  BY <1>1, <1>2

LEMMA SquareGrows ==
  ASSUME NEW a \in Nat, NEW b \in Nat, a <= b
  PROVE  a * a <= b * b
<1>1. a * a <= a * b
  BY Z3
<1>2. a * b <= b * b
  BY Z3
<1>3. a * a \in Nat /\ a * b \in Nat /\ b * b \in Nat
  OBVIOUS
<1>4. QED
  BY <1>1, <1>2, <1>3

(* The nearest multiple of the grid to a root is there.                      *)
LEMMA RootExists ==
  ASSUME NEW c \in Nat, NEW p \in Nat, NEW q \in Nat \ {0}, p < 4 * q
  PROVE  \E n \in 0 .. 2 * c + 1 :
           /\ n > 0 => (2 * n - 1) * (2 * n - 1) * q <= 4 * c * c * p
           /\ 4 * c * c * p < (2 * n + 1) * (2 * n + 1) * q
<1> DEFINE X == 4 * c * c * p
           Y(n) == (2 * n + 1) * (2 * n + 1) * q
           T == {n \in Nat : X < Y(n)}
<1>1. X \in Nat /\ \A n \in Nat : Y(n) \in Nat
  <2>1. c * c \in Nat /\ 4 * c * c \in Nat
    OBVIOUS
  <2>2. X \in Nat
    BY <2>1
  <2>3. ASSUME NEW n \in Nat
        PROVE  Y(n) \in Nat
    <3>1. (2 * n + 1) * (2 * n + 1) \in Nat
      OBVIOUS
    <3>2. QED
      BY <3>1
  <2>4. QED
    BY <2>2, <2>3
<1>2. 2 * c \in T
  <2>1. PICK s \in Nat : s = c * c
    OBVIOUS
  <2>2. 4 * c * c * p = 4 * (s * p)
    BY <2>1, Z3
  <2>3. s * p <= s * (4 * q)
    BY Z3
  <2>4. s * (4 * q) = 4 * (s * q)
    BY Z3
  <2>5. (2 * (2 * c) + 1) * (2 * (2 * c) + 1) = 16 * s + 8 * c + 1
    BY <2>1, Z3
  <2>6. (16 * s + 8 * c + 1) * q = 16 * (s * q) + 8 * (c * q) + q
    BY Z3
  <2>7. s * q \in Nat /\ c * q \in Nat /\ s * p \in Nat
    OBVIOUS
  <2>8. Y(2 * c) = 16 * (s * q) + 8 * (c * q) + q
    BY <2>5, <2>6
  <2>9. X < Y(2 * c)
    BY <2>2, <2>3, <2>4, <2>7, <2>8
  <2>10. QED
    BY <2>9
<1> HIDE DEF X, Y
<1>3. PICK n \in T : \A m \in T : n <= m
  BY <1>2, LeastNatural
<1>4. n \in Nat /\ n <= 2 * c /\ X < Y(n)
  BY <1>2, <1>3
<1>5. n > 0 => Y(n - 1) <= X
  <2> SUFFICES ASSUME n > 0
               PROVE  Y(n - 1) <= X
    OBVIOUS
  <2>1. n - 1 \in Nat /\ ~(n <= n - 1)
    BY <1>4
  <2>2. n - 1 \notin T
    BY <1>3, <2>1
  <2>3. ~(X < Y(n - 1))
    BY <2>1, <2>2
  <2>4. Y(n - 1) \in Nat
    BY <1>1, <2>1
  <2>5. QED
    BY <1>1, <2>3, <2>4
<1>6. 2 * (n - 1) + 1 = 2 * n - 1
  BY <1>4
<1>7. n > 0 => (2 * n - 1) * (2 * n - 1) * q <= X
  BY <1>5, <1>6, Zenon DEF Y
<1>8. n \in 0 .. 2 * c + 1
  BY <1>4
<1>9. QED
  BY <1>4, <1>7, <1>8, Zenon DEF X, Y

LEMMA AlignRootType ==
  ASSUME NEW resolution \in Nat, NEW p \in Nat, NEW q \in Nat \ {0}, p < 4 * q
  PROVE  AlignRoot(resolution, p, q) \in Nat \ {0}
<1> DEFINE c == resolution \div Align
           Root(n) == /\ n > 0 => (2 * n - 1) * (2 * n - 1) * q <= 4 * c * c * p
                      /\ 4 * c * c * p < (2 * n + 1) * (2 * n + 1) * q
           r == CHOOSE n \in 0 .. 2 * c + 1 : Root(n)
<1>1. c \in Nat
  BY DEF Align
<1>2. AlignRoot(resolution, p, q) = Larger(r, 1) * Align
  BY Zenon DEF AlignRoot
<1> HIDE DEF c
<1>3. \E n \in 0 .. 2 * c + 1 : Root(n)
  BY <1>1, RootExists
<1> HIDE DEF Root
<1>4. r \in 0 .. 2 * c + 1
  BY <1>3, Zenon
<1> HIDE DEF r
<1>5. r \in Nat
  BY <1>1, <1>4
<1>6. QED
  BY <1>2, <1>5 DEF Larger, Align

LEMMA AlignRootAligned ==
  ASSUME NEW resolution \in Nat, NEW p \in Nat, NEW q \in Nat \ {0}, p < 4 * q
  PROVE  AlignRoot(resolution, p, q) % 16 = 0
<1> DEFINE c == resolution \div Align
           Root(n) == /\ n > 0 => (2 * n - 1) * (2 * n - 1) * q <= 4 * c * c * p
                      /\ 4 * c * c * p < (2 * n + 1) * (2 * n + 1) * q
           r == CHOOSE n \in 0 .. 2 * c + 1 : Root(n)
<1>1. c \in Nat
  BY DEF Align
<1>2. AlignRoot(resolution, p, q) = Larger(r, 1) * Align
  BY Zenon DEF AlignRoot
<1> HIDE DEF c
<1>3. \E n \in 0 .. 2 * c + 1 : Root(n)
  BY <1>1, RootExists
<1> HIDE DEF Root
<1>4. r \in 0 .. 2 * c + 1
  BY <1>3, Zenon
<1> HIDE DEF r
<1>5. Larger(r, 1) \in Nat
  BY <1>1, <1>4 DEF Larger
<1>6. QED
  BY <1>2, <1>5 DEF Align

(* The root of a square is its side.                                         *)
LEMMA AlignRootSquare ==
  ASSUME NEW resolution \in Nat, resolution % 16 = 0
  PROVE  AlignRoot(resolution, 1, 1) = Larger(resolution, Align)
<1> DEFINE c == resolution \div Align
           Root(n) == /\ n > 0 => (2 * n - 1) * (2 * n - 1) * 1 <= 4 * c * c * 1
                      /\ 4 * c * c * 1 < (2 * n + 1) * (2 * n + 1) * 1
           r == CHOOSE n \in 0 .. 2 * c + 1 : Root(n)
<1>1. c \in Nat /\ resolution = 16 * c
  BY DEF Align
<1>2. AlignRoot(resolution, 1, 1) = Larger(r, 1) * Align
  BY Zenon DEF AlignRoot
<1> HIDE DEF c
<1>3. \E n \in 0 .. 2 * c + 1 : Root(n)
  BY <1>1, RootExists
<1>4. r \in 0 .. 2 * c + 1 /\ Root(r)
  <2> HIDE DEF Root
  <2>1. QED
    BY <1>3, Zenon
<1> HIDE DEF r
<1>5. r \in Nat
  BY <1>1, <1>4
<1>6. ~(r < c)
  <2> SUFFICES ASSUME r + 1 <= c
               PROVE  FALSE
    BY <1>1, <1>5
  <2>1. (r + 1) * (r + 1) <= c * c
    BY <1>1, <1>5, SquareGrows
  <2>2. (2 * r + 1) * (2 * r + 1) * 1 = 4 * (r * r) + 4 * r + 1
    BY <1>5, Z3
  <2>3. (r + 1) * (r + 1) = r * r + 2 * r + 1
    BY <1>5, Z3
  <2>4. 4 * c * c * 1 = 4 * (c * c)
    BY <1>1, Z3
  <2>5. r * r \in Nat /\ c * c \in Nat
    BY <1>1, <1>5
  <2>6. 4 * (c * c) < 4 * (r * r) + 4 * r + 1
    BY <1>4, <2>2, <2>4
  <2>7. QED
    BY <1>1, <1>5, <2>1, <2>3, <2>5, <2>6
<1>7. ~(c < r)
  <2> SUFFICES ASSUME c + 1 <= r
               PROVE  FALSE
    BY <1>1, <1>5
  <2>1. (c + 1) * (c + 1) <= r * r
    BY <1>1, <1>5, SquareGrows
  <2>2. (2 * r - 1) * (2 * r - 1) * 1 = 4 * (r * r) - 4 * r + 1
    BY <1>5, Z3
  <2>3. (c + 1) * (c + 1) = c * c + 2 * c + 1
    BY <1>1, Z3
  <2>4. 4 * c * c * 1 = 4 * (c * c)
    BY <1>1, Z3
  <2>5. 4 * (r * r) - 4 * r + 1 <= 4 * (c * c)
    BY <1>1, <1>4, <1>5, <2>2, <2>4
  <2>6. PICK d \in Nat : r = c + 1 + d
    <3>1. r - (c + 1) \in Nat /\ r = c + 1 + (r - (c + 1))
      BY <1>1, <1>5
    <3>2. QED
      BY <3>1
  <2>7. r * r = c * c + 2 * c + 1 + 2 * (c * d) + 2 * d + d * d
    BY <1>1, <2>6, Z3
  <2>8. c * d \in Nat /\ d * d \in Nat /\ c * c \in Nat
    BY <1>1
  <2>9. QED
    BY <1>1, <2>5, <2>6, <2>7, <2>8
<1>8. r = c
  BY <1>1, <1>5, <1>6, <1>7
<1>9. QED
  BY <1>1, <1>2, <1>8 DEF Larger, Align

BoxesIn(boxes) == {boxes[i] : i \in 1 .. Len(boxes)}

LEMMA AppendNewHolds ==
  ASSUME NEW boxes \in Seq(Boxes), NEW box \in Boxes
  PROVE  BoxesIn(AppendNew(boxes, box)) = BoxesIn(boxes) \cup {box}
<1>1. CASE Contains(boxes, box)
  <2>1. \E i \in 1 .. Len(boxes) : boxes[i] = box
    BY <1>1 DEF Contains
  <2>2. box \in BoxesIn(boxes)
    BY <2>1, Zenon DEF BoxesIn
  <2>3. QED
    BY <1>1, <2>2, Zenon DEF AppendNew
<1>2. CASE ~Contains(boxes, box)
  <2> DEFINE n == Len(boxes)
             more == Append(boxes, box)
  <2>1. n \in Nat /\ Len(more) = n + 1 /\ more[n + 1] = box /\ \A i \in 1 .. n : more[i] = boxes[i]
    BY AppendProperties
  <2> HIDE DEF n, more
  <2>2. 1 .. n + 1 = (1 .. n) \cup {n + 1}
    BY <2>1
  <2>3. BoxesIn(more) = {boxes[i] : i \in 1 .. n} \cup {box}
    BY <2>1, <2>2, Zenon DEF BoxesIn
  <2>4. QED
    BY <1>2, <2>3, Zenon DEF AppendNew, BoxesIn, n, more
<1>3. QED
  BY <1>1, <1>2

LEMMA AppendNewType ==
  ASSUME NEW boxes \in Seq(Boxes), NEW box \in Boxes
  PROVE  AppendNew(boxes, box) \in Seq(Boxes) /\ AppendNew(boxes, box) # <<>>
<1>1. Contains(boxes, box) => boxes # <<>>
  BY DEF Contains
<1>2. Append(boxes, box) \in Seq(Boxes) /\ Len(Append(boxes, box)) = Len(boxes) + 1
  BY AppendProperties
<1>3. Append(boxes, box) # <<>>
  <2>1. Len(boxes) \in Nat /\ Len(<<>>) = 0
    OBVIOUS
  <2>2. QED
    BY <1>2, <2>1
<1>4. QED
  BY <1>1, <1>2, <1>3, Zenon DEF AppendNew

LEMMA AspectShape ==
  /\ Len(Aspects) = 7
  /\ \A n \in 1 .. 7 :
       LET p == Aspects[n][1]
           q == Aspects[n][2]
       IN p \in Nat \ {0} /\ q \in Nat \ {0} /\ p < 4 * q /\ q < 4 * p
<1>1. Len(Aspects) = 7
  BY DEF Aspects
<1>2. ASSUME NEW n \in 1 .. 7
      PROVE  LET p == Aspects[n][1]
                 q == Aspects[n][2]
             IN p \in Nat \ {0} /\ q \in Nat \ {0} /\ p < 4 * q /\ q < 4 * p
  <2>1. n = 1 \/ n = 2 \/ n = 3 \/ n = 4 \/ n = 5 \/ n = 6 \/ n = 7
    OBVIOUS
  <2>2. QED
    BY <2>1 DEF Aspects
<1>3. QED
  BY <1>1, <1>2

LEMMA GenerateBucketsType ==
  ASSUME NEW resolution \in Nat
  PROVE  /\ GenerateBuckets(resolution) \in Seq(Boxes) \ {<<>>}
         /\ BoxesIn(GenerateBuckets(resolution)) =
              {Box(AlignRoot(resolution, Aspects[k][1], Aspects[k][2]),
                   AlignRoot(resolution, Aspects[k][2], Aspects[k][1])) : k \in 1 .. 7}
<1> DEFINE N == Len(Aspects)
           Of(aspect) == Box(AlignRoot(resolution, aspect[1], aspect[2]),
                             AlignRoot(resolution, aspect[2], aspect[1]))
           IsFirst(f) == f = [n \in 0 .. N |->
                                IF n = 0 THEN <<>> ELSE AppendNew(f[n - 1], Of(Aspects[n]))]
           h == CHOOSE f : IsFirst(f)
           V == Seq(Boxes)
           next == [i \in 1 .. N |-> [v \in V |-> AppendNew(v, Of(Aspects[i]))]]
<1>1. GenerateBuckets(resolution) = h[N]
  BY Zenon DEF GenerateBuckets
<1>2. N = 7
  BY AspectShape
<1>3. \A n \in 1 .. N : Of(Aspects[n]) \in Boxes
  BY <1>2, AspectShape, AlignRootType, BoxType
<1> HIDE DEF N, Of
<1>4. ASSUME NEW i \in 1 .. N, NEW v \in V
      PROVE  AppendNew(v, Of(Aspects[i])) \in V
  BY <1>3, AppendNewType
<1>5. \A i \in 1 .. N : next[i] \in [V -> V]
  BY <1>4, Zenon
<1>6. \A i \in 1 .. N : \A v \in V : next[i][v] = AppendNew(v, Of(Aspects[i]))
  BY Zenon
<1>7. <<>> \in V
  OBVIOUS
<1> HIDE DEF next, V
<1>8. PICK f : Iterates(f, V, <<>>, N, next)
  <2>1. N \in Nat
    BY <1>2
  <2>2. QED
    BY <1>5, <1>7, <2>1, Iteration, Zenon
<1>9. ASSUME NEW n \in 0 .. N
      PROVE  f[n] = IF n = 0 THEN <<>> ELSE AppendNew(f[n - 1], Of(Aspects[n]))
  <2>1. n # 0 => n \in 1 .. N /\ n - 1 \in 0 .. N
    BY <1>2
  <2>2. QED
    BY <1>6, <1>8, <2>1, Zenon DEF Iterates
<1>10. IsFirst(f)
  BY <1>8, <1>9, Zenon DEF Iterates
<1>11. IsFirst(h)
  BY <1>10, Zenon
<1>12. \A n \in 0 .. N : h[n] = IF n = 0 THEN <<>> ELSE AppendNew(h[n - 1], Of(Aspects[n]))
  BY <1>11, Zenon
<1> HIDE DEF h, IsFirst
<1> DEFINE Upto(n) == {Of(Aspects[k]) : k \in 1 .. n}
           T == {n \in 0 .. N : h[n] \in V /\ (n # 0 => h[n] # <<>>) /\ BoxesIn(h[n]) = Upto(n)}
<1>13. 0 \in T
  <2>1. h[0] = <<>> /\ 0 \in 0 .. N
    BY <1>2, <1>12
  <2>2. 1 .. 0 = {} /\ 1 .. Len(<<>>) = {}
    OBVIOUS
  <2>3. BoxesIn(<<>>) = {} /\ Upto(0) = {}
    BY <2>2, Zenon DEF BoxesIn
  <2>4. QED
    BY <1>7, <2>1, <2>3
<1>14. ASSUME NEW i \in 1 .. N, i - 1 \in T
       PROVE  i \in T
  <2>1. i \in 0 .. N /\ i # 0
    BY <1>2
  <2>2. h[i] = AppendNew(h[i - 1], Of(Aspects[i]))
    BY <1>12, <2>1, Zenon
  <2>3. h[i - 1] \in V
    BY <1>14
  <2>4. h[i] \in V /\ h[i] # <<>>
    BY <1>3, <2>2, <2>3, AppendNewType DEF V
  <2>5. BoxesIn(h[i]) = Upto(i - 1) \cup {Of(Aspects[i])}
    BY <1>3, <1>14, <2>2, <2>3, AppendNewHolds DEF V
  <2>6. 1 .. i = (1 .. i - 1) \cup {i}
    BY <1>2
  <2>7. Upto(i) = Upto(i - 1) \cup {Of(Aspects[i])}
    BY <2>6, Zenon
  <2>8. QED
    BY <2>1, <2>4, <2>5, <2>7
<1> HIDE DEF T
<1>15. 0 .. N \subseteq T
  BY <1>2, <1>13, <1>14, Climb
<1>16. N \in T /\ N # 0
  BY <1>2, <1>15
<1>17. h[N] \in V /\ h[N] # <<>> /\ BoxesIn(h[N]) = Upto(N)
  BY <1>16, Zenon DEF T
<1>18. Upto(N) = {Box(AlignRoot(resolution, Aspects[k][1], Aspects[k][2]),
                      AlignRoot(resolution, Aspects[k][2], Aspects[k][1])) : k \in 1 .. 7}
  BY <1>2, Zenon DEF Of
<1>19. QED
  BY <1>1, <1>17, <1>18 DEF V

LEMMA MinSideType ==
  ASSUME NEW c \in Configs
  PROVE  MinSide(c) \in Nat
<1>1. c.min \in Nat /\ c.resolution \in Nat
  BY StepPlanAssumption
<1>2. c.resolution \div 2 \in Nat
  BY <1>1
<1>3. QED
  BY <1>1, <1>2, AlignDownType DEF MinSide

(* The box of one width and its transpose, unless it is too flat.            *)
GridWidth(minSide, n) == minSide + (n - 1) * Align
GridHeight(resolution, minSide, n) ==
  AlignDown((resolution * resolution) \div GridWidth(minSide, n))
GridSteps(resolution, minSide) ==
  (AlignDown((resolution * resolution) \div minSide) - minSide) \div Align + 1
GridPair(resolution, minSide, n) ==
  IF GridHeight(resolution, minSide, n) < minSide THEN {}
  ELSE {Box(GridWidth(minSide, n), GridHeight(resolution, minSide, n)),
        Box(GridHeight(resolution, minSide, n), GridWidth(minSide, n))}

LEMMA GridBucketsType ==
  ASSUME NEW resolution \in Nat, NEW minSide \in Nat, ~GridRefused(resolution, minSide)
  PROVE  /\ GenerateGridBuckets(resolution, minSide) \in Seq(Boxes) \ {<<>>}
         /\ BoxesIn(GenerateGridBuckets(resolution, minSide)) =
              UNION {GridPair(resolution, minSide, k) : k \in 1 .. GridSteps(resolution, minSide)}
<1> DEFINE area == resolution * resolution
           maxSide == AlignDown(area \div minSide)
           N == (maxSide - minSide) \div Align + 1
           W(n) == minSide + (n - 1) * Align
           Put(v, n) == BothWays(v, W(n), resolution, minSide)
           IsFirst(f) == f = [n \in 0 .. N |-> IF n = 0 THEN <<>> ELSE Put(f[n - 1], n)]
           h == CHOOSE f : IsFirst(f)
           V == Seq(Boxes)
           next == [i \in 1 .. N |-> [v \in V |-> Put(v, i)]]
<1>1. GenerateGridBuckets(resolution, minSide) = h[N]
  BY Zenon DEF GenerateGridBuckets
<1>2. minSide > 0 /\ minSide % Align = 0 /\ minSide < resolution
  BY DEF GridRefused
<1>3. area \div minSide \in Nat /\ minSide <= area \div minSide
  <2>1. area \in Nat /\ minSide * minSide <= area /\ minSide * minSide \in Nat
    BY <1>2, SquareGrows
  <2> HIDE DEF area
  <2>2. area \div minSide \in Nat
    BY <1>2, <2>1
  <2>3. minSide <= area \div minSide
    BY <1>2, <2>1, Z3
  <2>4. QED
    BY <2>2, <2>3
<1>4. maxSide \in Nat /\ minSide <= maxSide
  BY <1>2, <1>3, AlignDownType
<1> HIDE DEF maxSide
<1>5. N \in Nat /\ N >= 1
  BY <1>4 DEF Align
<1>6. W(1) = minSide
  BY DEF Align
<1>7. ASSUME NEW n \in 1 .. N
      PROVE  /\ W(n) \in Nat \ {0}
             /\ AlignDown(area \div W(n)) \in Nat \ {0}
  <2>1. n \in Nat /\ n >= 1
    BY <1>5
  <2>2. W(n) \in Nat \ {0}
    BY <1>2, <2>1 DEF Align
  <2> HIDE DEF W
  <2>3. area \in Nat
    OBVIOUS
  <2> HIDE DEF area
  <2>4. area \div W(n) \in Nat
    BY <2>2, <2>3
  <2>5. AlignDown(area \div W(n)) \in Nat /\ AlignDown(area \div W(n)) >= 16
    BY <2>4, AlignDownType DEF Align
  <2>6. QED
    BY <2>2, <2>5
<1>8. AlignDown(area \div W(1)) = maxSide
  BY <1>6 DEF maxSide
<1> HIDE DEF N, W, area
<1> DEFINE Pair(n) == GridPair(resolution, minSide, n)
<1>9. ASSUME NEW i \in 1 .. N, NEW v \in V
      PROVE  /\ Put(v, i) \in V /\ (v # <<>> => Put(v, i) # <<>>) /\ (i = 1 => Put(v, i) # <<>>)
             /\ BoxesIn(Put(v, i)) = BoxesIn(v) \cup Pair(i)
  <2> DEFINE t == AlignDown(area \div W(i))
  <2>1. Box(W(i), t) \in Boxes /\ Box(t, W(i)) \in Boxes
    BY <1>7, BoxType
  <2>2. i = 1 => ~(t < minSide)
    BY <1>4, <1>8
  <2> HIDE DEF t
  <2>3. AppendNew(AppendNew(v, Box(W(i), t)), Box(t, W(i))) \in V \ {<<>>}
    BY <2>1, AppendNewType
  <2>4. Put(v, i) = IF t < minSide THEN v
                    ELSE AppendNew(AppendNew(v, Box(W(i), t)), Box(t, W(i)))
    BY Zenon DEF BothWays, t, area
  <2>5. Pair(i) = IF t < minSide THEN {} ELSE {Box(W(i), t), Box(t, W(i))}
    BY Zenon DEF GridPair, GridHeight, GridWidth, W, t, area
  <2>6. BoxesIn(AppendNew(AppendNew(v, Box(W(i), t)), Box(t, W(i)))) =
          (BoxesIn(v) \cup {Box(W(i), t)}) \cup {Box(t, W(i))}
    BY <2>1, AppendNewType, AppendNewHolds
  <2>7. BoxesIn(Put(v, i)) = BoxesIn(v) \cup Pair(i)
    <3> HIDE DEF Put, Pair
    <3>1. CASE t < minSide
      BY <2>4, <2>5, <3>1, Zenon
    <3>2. CASE ~(t < minSide)
      BY <2>4, <2>5, <2>6, <3>2, Zenon
    <3>3. QED
      BY <3>1, <3>2
  <2>8. QED
    BY <2>2, <2>3, <2>4, <2>7, Zenon
<1> HIDE DEF Put, Pair
<1>10. \A i \in 1 .. N : next[i] \in [V -> V]
  BY <1>9, Zenon
<1>11. \A i \in 1 .. N : \A v \in V : next[i][v] = Put(v, i)
  BY Zenon
<1>12. <<>> \in V
  OBVIOUS
<1> HIDE DEF next, V
<1>13. PICK f : Iterates(f, V, <<>>, N, next)
  BY <1>5, <1>10, <1>12, Iteration, Zenon
<1>14. ASSUME NEW n \in 0 .. N
       PROVE  f[n] = IF n = 0 THEN <<>> ELSE Put(f[n - 1], n)
  <2>1. n # 0 => n \in 1 .. N /\ n - 1 \in 0 .. N
    BY <1>5
  <2>2. QED
    BY <1>11, <1>13, <2>1, Zenon DEF Iterates
<1>15. IsFirst(f)
  BY <1>13, <1>14, Zenon DEF Iterates
<1>16. IsFirst(h)
  BY <1>15, Zenon
<1>17. \A n \in 0 .. N : h[n] = IF n = 0 THEN <<>> ELSE Put(h[n - 1], n)
  BY <1>16, Zenon
<1> HIDE DEF h, IsFirst
<1> DEFINE Upto(n) == UNION {Pair(k) : k \in 1 .. n}
           T == {n \in 0 .. N : h[n] \in V /\ (n # 0 => h[n] # <<>>) /\ BoxesIn(h[n]) = Upto(n)}
<1>18. 0 \in T
  <2>1. h[0] = <<>> /\ 0 \in 0 .. N
    BY <1>5, <1>17
  <2>2. 1 .. 0 = {} /\ 1 .. Len(<<>>) = {}
    OBVIOUS
  <2>3. BoxesIn(<<>>) = {} /\ Upto(0) = {}
    BY <2>2, Zenon DEF BoxesIn
  <2>4. QED
    BY <1>12, <2>1, <2>3
<1>19. ASSUME NEW i \in 1 .. N, i - 1 \in T
       PROVE  i \in T
  <2>1. i \in 0 .. N /\ i # 0 /\ (i = 1 \/ i - 1 # 0)
    BY <1>5
  <2>2. h[i] = Put(h[i - 1], i)
    BY <1>17, <2>1, Zenon
  <2>3. h[i - 1] \in V /\ (i - 1 # 0 => h[i - 1] # <<>>)
    BY <1>19
  <2>4. h[i] \in V /\ h[i] # <<>>
    BY <1>9, <2>1, <2>2, <2>3, Zenon
  <2>5. BoxesIn(h[i]) = Upto(i - 1) \cup Pair(i)
    BY <1>9, <1>19, <2>2, <2>3
  <2>6. 1 .. i = (1 .. i - 1) \cup {i}
    BY <1>5
  <2>7. Upto(i) = Upto(i - 1) \cup Pair(i)
    BY <2>6, Zenon
  <2>8. QED
    BY <2>1, <2>4, <2>5, <2>7
<1> HIDE DEF T
<1>20. 0 .. N \subseteq T
  BY <1>5, <1>18, <1>19, Climb
<1>21. N \in T /\ N # 0
  BY <1>5, <1>20
<1>22. h[N] \in V /\ h[N] # <<>> /\ BoxesIn(h[N]) = Upto(N)
  BY <1>21, Zenon DEF T
<1>23. N = GridSteps(resolution, minSide)
  BY Zenon DEF N, GridSteps, maxSide, area
<1>24. Upto(N) = UNION {GridPair(resolution, minSide, k) : k \in 1 .. GridSteps(resolution, minSide)}
  BY <1>23, Zenon DEF Pair
<1>25. QED
  BY <1>1, <1>22, <1>24 DEF V

(* A configuration that is not refused generates a box to train at.          *)
LEMMA GeneratedType ==
  ASSUME NEW c \in Configs, ~BucketSetRefused(c)
  PROVE  Generated[c] \in Seq(Boxes) \ {<<>>}
<1>1. Generated[c] = BucketSet(c)
  BY Zenon DEF Generated
<1>2. c.resolution \in Nat /\ c.grid \in BOOLEAN
  BY StepPlanAssumption
<1>3. CASE c.grid
  <2>1. ~GridRefused(c.resolution, MinSide(c))
    BY <1>3, Zenon DEF BucketSetRefused
  <2>2. GenerateGridBuckets(c.resolution, MinSide(c)) \in Seq(Boxes) \ {<<>>}
    BY <1>2, <2>1, MinSideType, GridBucketsType, Zenon
  <2>3. QED
    BY <1>1, <1>3, <2>2, Zenon DEF BucketSet
<1>4. CASE ~c.grid
  <2>1. GenerateBuckets(c.resolution) \in Seq(Boxes) \ {<<>>}
    BY <1>2, GenerateBucketsType, Zenon
  <2>2. QED
    BY <1>1, <1>4, <2>1, Zenon DEF BucketSet
<1>5. QED
  BY <1>3, <1>4

(* What a generated set serves: the square, each box's transpose, the grid.  *)
Serves(S, side) ==
  /\ Box(side, side) \in S
  /\ \A b \in S : Box(b.height, b.width) \in S /\ b.width % 16 = 0 /\ b.height % 16 = 0

LEMMA BoxSides ==
  ASSUME NEW w, NEW h
  PROVE  Box(w, h).width = w /\ Box(w, h).height = h
BY DEF Box

LEMMA AspectsServe ==
  ASSUME NEW resolution \in Nat, resolution % 16 = 0
  PROVE  Serves(BoxesIn(GenerateBuckets(resolution)), Larger(resolution, Align))
<1> DEFINE R(p, q) == AlignRoot(resolution, p, q)
           Of(k) == Box(R(Aspects[k][1], Aspects[k][2]), R(Aspects[k][2], Aspects[k][1]))
           S == {Of(k) : k \in 1 .. 7}
           back == <<1, 3, 2, 5, 4, 7, 6>>
<1>1. BoxesIn(GenerateBuckets(resolution)) = S
  BY GenerateBucketsType
<1>2. Of(1) = Box(Larger(resolution, Align), Larger(resolution, Align))
  <2>1. Aspects[1][1] = 1 /\ Aspects[1][2] = 1
    BY DEF Aspects
  <2>2. R(1, 1) = Larger(resolution, Align)
    BY AlignRootSquare
  <2>3. QED
    BY <2>1, <2>2, Zenon
<1>3. ASSUME NEW k \in 1 .. 7
      PROVE  \E l \in 1 .. 7 : Aspects[l][1] = Aspects[k][2] /\ Aspects[l][2] = Aspects[k][1]
  <2>1. k = 1 \/ k = 2 \/ k = 3 \/ k = 4 \/ k = 5 \/ k = 6 \/ k = 7
    OBVIOUS
  <2>2. /\ back[k] \in 1 .. 7
        /\ Aspects[back[k]][1] = Aspects[k][2] /\ Aspects[back[k]][2] = Aspects[k][1]
    BY <2>1 DEF Aspects
  <2>3. QED
    BY <2>2
<1>4. ASSUME NEW k \in 1 .. 7
      PROVE  R(Aspects[k][1], Aspects[k][2]) % 16 = 0 /\ R(Aspects[k][2], Aspects[k][1]) % 16 = 0
  BY AspectShape, AlignRootAligned
<1> HIDE DEF R
<1>5. ASSUME NEW b \in S
      PROVE  Box(b.height, b.width) \in S /\ b.width % 16 = 0 /\ b.height % 16 = 0
  <2>1. PICK k \in 1 .. 7 : b = Of(k)
    BY <1>5
  <2>2. b.width = R(Aspects[k][1], Aspects[k][2]) /\ b.height = R(Aspects[k][2], Aspects[k][1])
    BY <2>1, BoxSides
  <2>3. PICK l \in 1 .. 7 : Aspects[l][1] = Aspects[k][2] /\ Aspects[l][2] = Aspects[k][1]
    BY <1>3
  <2>4. Of(l) = Box(b.height, b.width)
    BY <2>2, <2>3, Zenon
  <2>5. Of(l) \in S
    BY Zenon
  <2> HIDE DEF S, Of
  <2>6. Box(b.height, b.width) \in S
    BY <2>4, <2>5, Zenon
  <2>7. b.width % 16 = 0 /\ b.height % 16 = 0
    <3>1. R(Aspects[k][1], Aspects[k][2]) % 16 = 0 /\ R(Aspects[k][2], Aspects[k][1]) % 16 = 0
      BY <1>4
    <3>2. QED
      BY <2>2, <3>1, Zenon
  <2>8. QED
    BY <2>6, <2>7
<1>6. Of(1) \in S
  <2>1. 1 \in 1 .. 7
    OBVIOUS
  <2>2. QED
    BY <2>1, Zenon
<1> HIDE DEF S, Of
<1>7. QED
  BY <1>1, <1>2, <1>5, <1>6, Zenon DEF Serves

(* Quotients of a product, both ways round.                                  *)
LEMMA QuotientAtLeast ==
  ASSUME NEW x \in Nat, NEW w \in Nat \ {0}, NEW m \in Nat, m * w <= x
  PROVE  x \div w >= m
<1>1. x \div w \in Nat /\ x < (x \div w + 1) * w
  BY Z3
<1> DEFINE d == x \div w
<1> HIDE DEF d
<1>2. d \in Nat /\ x < (d + 1) * w
  BY <1>1, Zenon DEF d
<1>3. ~(d + 1 <= m)
  <2> SUFFICES ASSUME d + 1 <= m
               PROVE  FALSE
    OBVIOUS
  <2>1. (d + 1) * w <= m * w
    BY <1>2, Z3
  <2>2. (d + 1) * w \in Nat /\ m * w \in Nat
    BY <1>2
  <2>3. QED
    BY <1>2, <2>1, <2>2
<1>4. QED
  BY <1>2, <1>3 DEF d

LEMMA QuotientTimes ==
  ASSUME NEW x \in Nat, NEW w \in Nat \ {0}
  PROVE  x \div w \in Nat /\ (x \div w) * w <= x
BY Z3

LEMMA AlignDownBetween ==
  ASSUME NEW v \in Nat, NEW m \in Nat, m % 16 = 0, m >= 16, m <= v
  PROVE  AlignDown(v) \in Nat /\ AlignDown(v) % 16 = 0 /\ m <= AlignDown(v) /\ AlignDown(v) <= v
<1>1. v >= 16
  OBVIOUS
<1>2. AlignDown(v) \in Nat /\ AlignDown(v) % 16 = 0 /\ AlignDown(v) <= v
  BY <1>1, AlignDownType, AlignDownIs
<1>3. m <= AlignDown(v)
  BY AlignDownType DEF Align
<1>4. QED
  BY <1>2, <1>3

LEMMA GridServes ==
  ASSUME NEW resolution \in Nat, NEW minSide \in Nat, ~GridRefused(resolution, minSide)
  PROVE  /\ Serves(BoxesIn(GenerateGridBuckets(resolution, minSide)), Larger(resolution, Align))
         /\ \A b \in BoxesIn(GenerateGridBuckets(resolution, minSide)) :
              b.width * b.height <= resolution * resolution /\ b.width >= minSide
<1> DEFINE area == resolution * resolution
           N == GridSteps(resolution, minSide)
           W(n) == GridWidth(minSide, n)
           H(n) == GridHeight(resolution, minSide, n)
           Pair(n) == GridPair(resolution, minSide, n)
           S == UNION {Pair(k) : k \in 1 .. N}
           maxSide == AlignDown(area \div minSide)
<1>1. BoxesIn(GenerateGridBuckets(resolution, minSide)) = S
  BY GridBucketsType
<1>2. /\ minSide > 0 /\ minSide % 16 = 0 /\ minSide < resolution /\ resolution % 16 = 0
      /\ minSide >= 16 /\ resolution >= 16
  BY DEF GridRefused, Align
<1>3. \A n : Pair(n) = IF H(n) < minSide THEN {} ELSE {Box(W(n), H(n)), Box(H(n), W(n))}
  BY Zenon DEF GridPair
<1>4. N = (maxSide - minSide) \div 16 + 1
  BY DEF GridSteps, Align
<1>5. \A n : W(n) = minSide + (n - 1) * 16 /\ H(n) = AlignDown(area \div W(n))
  BY DEF GridWidth, GridHeight, Align
<1>6. area \in Nat /\ minSide * minSide <= resolution * minSide /\ resolution * minSide <= area
  BY <1>2, Z3
<1>7. /\ area \div minSide \in Nat /\ (area \div minSide) * minSide <= area
      /\ area \div minSide >= resolution /\ resolution * resolution = area
  <2>1. minSide \in Nat \ {0} /\ area \in Nat /\ area = resolution * resolution
    BY <1>2, <1>6
  <2> HIDE DEF area
  <2>2. QED
    BY <1>6, <2>1, QuotientTimes, QuotientAtLeast, Zenon
<1> HIDE DEF area, W, H, Pair, N, S
<1>8. /\ maxSide \in Nat /\ maxSide % 16 = 0 /\ maxSide <= area \div minSide /\ resolution <= maxSide
  BY <1>2, <1>7, AlignDownBetween, Zenon
<1> DEFINE quotient == area \div minSide
<1>9. quotient \in Nat /\ quotient * minSide <= area /\ maxSide <= quotient
  BY <1>7, <1>8
<1> HIDE DEF maxSide, quotient
<1>10. ASSUME NEW n \in 1 .. N
       PROVE  /\ W(n) \in Nat \ {0} /\ W(n) >= minSide /\ W(n) % 16 = 0
              /\ H(n) \in Nat /\ H(n) % 16 = 0 /\ H(n) >= minSide
              /\ W(n) * H(n) <= area /\ H(n) * W(n) <= area
  <2>1. W(n) \in Nat /\ W(n) >= minSide /\ W(n) % 16 = 0 /\ W(n) <= maxSide
    BY <1>2, <1>4, <1>5, <1>8
  <2>2. W(n) \in Nat \ {0}
    BY <1>2, <2>1
  <2>3. minSide * W(n) <= area
    <3>1. minSide * W(n) <= minSide * quotient
      BY <1>9, <1>8, <2>1, Z3
    <3>2. minSide * quotient = quotient * minSide
      BY <1>9
    <3>3. minSide * W(n) \in Nat /\ quotient * minSide \in Nat
      BY <1>9, <2>1
    <3>4. QED
      BY <1>6, <1>9, <3>1, <3>2, <3>3
  <2> DEFINE d == area \div W(n)
  <2>4. d \in Nat /\ d >= minSide /\ d * W(n) <= area
    BY <1>6, <2>2, <2>3, QuotientAtLeast, QuotientTimes
  <2>5. H(n) = AlignDown(d)
    BY <1>5
  <2> HIDE DEF d
  <2>6. H(n) \in Nat /\ H(n) % 16 = 0 /\ H(n) <= d /\ H(n) >= minSide
    <3>1. minSide <= d
      BY <2>4
    <3>2. AlignDown(d) \in Nat /\ AlignDown(d) % 16 = 0 /\ minSide <= AlignDown(d) /\ AlignDown(d) <= d
      BY <1>2, <2>4, <3>1, AlignDownBetween, Zenon
    <3>3. QED
      BY <2>5, <3>2
  <2>7. H(n) * W(n) <= d * W(n)
    BY <2>2, <2>4, <2>6, Z3
  <2>8. H(n) * W(n) \in Nat /\ d * W(n) \in Nat /\ W(n) * H(n) = H(n) * W(n)
    BY <2>2, <2>4, <2>6
  <2>9. QED
    BY <1>6, <2>1, <2>2, <2>4, <2>6, <2>7, <2>8
<1>11. ASSUME NEW b \in S
       PROVE  /\ Box(b.height, b.width) \in S /\ b.width % 16 = 0 /\ b.height % 16 = 0
              /\ b.width * b.height <= area /\ b.width >= minSide
  <2>1. PICK n \in 1 .. N : b \in Pair(n)
    BY <1>11, Zenon DEF S
  <2>2. Pair(n) = {Box(W(n), H(n)), Box(H(n), W(n))} /\ Pair(n) \subseteq S
    BY <1>3, <2>1, Zenon DEF S
  <2>3. b = Box(W(n), H(n)) \/ b = Box(H(n), W(n))
    BY <2>1, <2>2, Zenon
  <2>4. \/ b.width = W(n) /\ b.height = H(n)
        \/ b.width = H(n) /\ b.height = W(n)
    <3>1. CASE b = Box(W(n), H(n))
      BY <3>1, BoxSides, Zenon
    <3>2. CASE b = Box(H(n), W(n))
      BY <3>2, BoxSides, Zenon
    <3>3. QED
      BY <2>3, <3>1, <3>2
  <2>5. Box(b.height, b.width) \in S
    BY <2>2, <2>4, Zenon
  <2>6. QED
    BY <1>10, <2>4, <2>5, Zenon
<1>12. Box(resolution, resolution) \in S
  <2>1. PICK n \in 1 .. N : W(n) = resolution
    <3> DEFINE k == (resolution - minSide) \div 16
    <3>1. k \in Nat /\ resolution = minSide + k * 16
      BY <1>2
    <3> HIDE DEF k
    <3>2. k <= (maxSide - minSide) \div 16
      BY <1>2, <1>8, <3>1
    <3>3. k + 1 \in 1 .. N
      BY <1>2, <1>4, <1>8, <3>1, <3>2
    <3>4. W(k + 1) = minSide + ((k + 1) - 1) * 16
      BY <1>5, Zenon
    <3>5. W(k + 1) = resolution
      BY <3>1, <3>4
    <3>6. QED
      BY <3>3, <3>5
  <2>2. area \div resolution = resolution
    <3>1. area = resolution * resolution
      BY <1>7
    <3>2. (resolution * resolution) \div resolution = resolution
      BY <1>2, Z3
    <3>3. QED
      BY <3>1, <3>2
  <2>3. H(n) = resolution
    <3>1. H(n) = AlignDown(resolution)
      BY <1>5, <2>1, <2>2
    <3>2. resolution <= resolution
      OBVIOUS
    <3>3. resolution <= AlignDown(resolution) /\ AlignDown(resolution) <= resolution /\ AlignDown(resolution) \in Nat
      BY <1>2, <3>2, AlignDownBetween, Zenon
    <3>4. QED
      BY <3>1, <3>3
  <2>4. Box(resolution, resolution) \in Pair(n)
    BY <1>2, <1>3, <2>1, <2>3
  <2>5. QED
    BY <2>1, <2>4, Zenon DEF S
<1>13. Larger(resolution, Align) = resolution
  BY <1>2 DEF Larger, Align
<1>14. QED
  BY <1>1, <1>7, <1>11, <1>12, <1>13, Zenon DEF Serves
(* The set of a configuration that is not refused serves every source.       *)
LEMMA GeneratedServes ==
  ASSUME NEW c \in Configs, ~BucketSetRefused(c)
  PROVE  /\ Serves(BoxesIn(Generated[c]), Larger(c.resolution, Align))
         /\ c.grid => \A b \in BoxesIn(Generated[c]) :
                        b.width * b.height <= c.resolution * c.resolution /\ b.width >= MinSide(c)
<1>1. Generated[c] = BucketSet(c)
  BY Zenon DEF Generated
<1>2. c.resolution \in Nat /\ c.grid \in BOOLEAN
  BY StepPlanAssumption
<1>3. CASE c.grid
  <2>1. ~GridRefused(c.resolution, MinSide(c))
    BY <1>3, Zenon DEF BucketSetRefused
  <2>2. MinSide(c) \in Nat
    BY MinSideType
  <2>3. Generated[c] = GenerateGridBuckets(c.resolution, MinSide(c))
    BY <1>1, <1>3, Zenon DEF BucketSet
  <2>4. QED
    BY <1>2, <2>1, <2>2, <2>3, GridServes, Zenon
<1>4. CASE ~c.grid
  <2>1. c.resolution % 16 = 0
    BY <1>2, <1>4 DEF BucketSetRefused, Align
  <2>2. Generated[c] = GenerateBuckets(c.resolution)
    BY <1>1, <1>4, Zenon DEF BucketSet
  <2>3. Serves(BoxesIn(Generated[c]), Larger(c.resolution, Align))
    BY <1>2, <2>1, <2>2, AspectsServe, Zenon
  <2>4. QED
    BY <1>4, <2>3
<1>5. QED
  BY <1>3, <1>4

-----------------------------------------------------------------------------
(* The nearest box *)

LEMMA FractionsTransitive ==
  ASSUME NEW a \in Nat, NEW b \in Nat \ {0}, NEW c \in Nat, NEW d \in Nat \ {0},
         NEW e \in Nat, NEW f \in Nat \ {0},
         a * d < c * b, c * f <= e * d
  PROVE  a * f < e * b
<1>1. (a * d) * f < (c * b) * f
  BY Z3
<1>2. (c * f) * b <= (e * d) * b
  BY Z3
<1>3. (a * d) * f = (a * f) * d /\ (c * b) * f = (c * f) * b /\ (e * d) * b = (e * b) * d
  BY Z3
<1>4. a * f \in Nat /\ e * b \in Nat /\ c * f \in Nat /\ (a * f) * d \in Nat /\ (e * b) * d \in Nat /\ (c * f) * b \in Nat
  OBVIOUS
<1>5. (a * f) * d < (e * b) * d
  BY <1>1, <1>2, <1>3, <1>4
<1>6. PICK x \in Nat, y \in Nat : x = a * f /\ y = e * b
  BY <1>4
<1>7. x * d < y * d
  BY <1>5, <1>6
<1>8. x < y
  BY <1>7, Z3
<1>9. QED
  BY <1>6, <1>8

(* The first of the least of some fractions a[i] / b[i].                     *)
LEMMA LeastFraction ==
  ASSUME NEW N \in Nat \ {0}, NEW a \in [1 .. N -> Nat], NEW b \in [1 .. N -> Nat \ {0}]
  PROVE  \E i \in 1 .. N :
           /\ \A j \in 1 .. N : ~(a[j] * b[i] < a[i] * b[j])
           /\ \A j \in 1 .. i - 1 : a[i] * b[j] < a[j] * b[i]
<1> DEFINE Near(i, j) == a[i] * b[j] < a[j] * b[i]
           First(m, i) == /\ \A j \in 1 .. m : ~Near(j, i)
                          /\ \A j \in 1 .. i - 1 : Near(i, j)
           T == {m \in 0 .. N : m # 0 => \E i \in 1 .. m : First(m, i)}
<1>1. 0 \in T
  OBVIOUS
<1>2. ASSUME NEW m \in 1 .. N, m - 1 \in T
      PROVE  m \in T
  <2>1. m \in 0 .. N /\ m # 0 /\ m \in Nat /\ m \in 1 .. m
    OBVIOUS
  <2>2. \A i \in 1 .. m : ~Near(i, i)
    <3>1. \A i \in 1 .. m : a[i] * b[i] \in Nat
      BY <2>1
    <3>2. QED
      BY <3>1
  <2>3. CASE m = 1
    <3>1. 1 .. 1 - 1 = {} /\ 1 .. 1 = {1}
      OBVIOUS
    <3>2. First(1, 1)
      BY <2>2, <2>3, <3>1
    <3>3. QED
      BY <2>1, <2>3, <3>2
  <2>4. CASE m # 1
    <3>1. PICK i \in 1 .. m - 1 : First(m - 1, i)
      BY <1>2, <2>4
    <3>2. i \in 1 .. m /\ i \in 1 .. N
      BY <3>1
    <3>3. CASE Near(m, i)
      <4>1. ASSUME NEW j \in 1 .. m - 1
            PROVE  Near(m, j)
        <5>1. j \in 1 .. N
          OBVIOUS
        <5>2. /\ a[j] \in Nat /\ b[j] \in Nat \ {0} /\ a[i] \in Nat /\ b[i] \in Nat \ {0}
              /\ a[m] \in Nat /\ b[m] \in Nat \ {0}
          BY <3>2, <5>1
        <5>3. ~(a[j] * b[i] < a[i] * b[j])
          BY <3>1
        <5>4. a[i] * b[j] <= a[j] * b[i]
          <6>1. a[i] * b[j] \in Nat /\ a[j] * b[i] \in Nat
            BY <5>2, SMTT(20)
          <6>2. QED
            BY <5>3, <6>1
        <5>5. QED
          BY <3>3, <5>2, <5>4, FractionsTransitive
      <4>2. ASSUME NEW j \in 1 .. m - 1
            PROVE  ~Near(j, m)
        <5>1. Near(m, j)
          BY <4>1
        <5>2. a[j] \in Nat /\ b[j] \in Nat /\ a[m] \in Nat /\ b[m] \in Nat
          OBVIOUS
        <5>3. a[j] * b[m] \in Nat /\ a[m] * b[j] \in Nat
          BY <5>2
        <5>4. QED
          BY <5>1, <5>3
      <4>3. \A j \in 1 .. m : j = m \/ j \in 1 .. m - 1
        OBVIOUS
      <4> HIDE DEF Near
      <4>4. First(m, m)
        BY <2>1, <2>2, <4>1, <4>2, <4>3
      <4>5. QED
        BY <2>1, <4>4
    <3>4. CASE ~Near(m, i)
      <4>1. \A j \in 1 .. m : j = m \/ j \in 1 .. m - 1
        OBVIOUS
      <4>2. First(m, i)
        <5> HIDE DEF Near
        <5>1. QED
          BY <3>1, <3>4, <4>1
      <4>3. QED
        BY <2>1, <3>2, <4>2
    <3>5. QED
      BY <3>3, <3>4
  <2>5. QED
    BY <2>3, <2>4
<1> HIDE DEF T
<1>3. 0 .. N \subseteq T
  BY <1>1, <1>2, Climb
<1>4. N \in T /\ N # 0
  BY <1>3
<1> HIDE DEF First
<1>5. \E i \in 1 .. N : First(N, i)
  BY <1>4 DEF T
<1>6. QED
  BY <1>5, Zenon DEF First

LEMMA ApartType ==
  ASSUME NEW a \in Boxes, NEW b \in Boxes
  PROVE  Apart(a, b)[1] \in Nat /\ Apart(a, b)[2] \in Nat \ {0}
<1>1. a.width \in Nat \ {0} /\ a.height \in Nat \ {0} /\ b.width \in Nat \ {0} /\ b.height \in Nat \ {0}
  BY DEF Boxes
<1>2. a.width * b.height \in Nat \ {0} /\ b.width * a.height \in Nat \ {0}
  <2>1. ASSUME NEW x \in Nat \ {0}, NEW y \in Nat \ {0}
        PROVE  x * y \in Nat \ {0}
    <3>1. x * y \in Nat /\ x * y > 0
      BY Z3
    <3>2. QED
      BY <3>1
  <2>2. QED
    BY <1>1, <2>1
<1>3. QED
  BY <1>2 DEF Apart, Larger

LEMMA AssignBucketType ==
  ASSUME NEW boxes \in Seq(Boxes), boxes # <<>>, NEW image \in Boxes
  PROVE  AssignBucket(boxes, image) \in 1 .. Len(boxes)
<1> DEFINE N == Len(boxes)
           apart == [i \in DOMAIN boxes |-> Apart(boxes[i], image)]
           Nearer(i, j) == apart[i][1] * apart[j][2] < apart[j][1] * apart[i][2]
           a == [i \in 1 .. N |-> apart[i][1]]
           b == [i \in 1 .. N |-> apart[i][2]]
           Nearest(i) == /\ \A j \in DOMAIN boxes : ~Nearer(j, i)
                         /\ \A j \in 1 .. i - 1 : Nearer(i, j)
<1>1. N \in Nat \ {0} /\ DOMAIN boxes = 1 .. N /\ \A i \in 1 .. N : boxes[i] \in Boxes
  <2>1. N \in Nat \ {0}
    BY EmptySeq
  <2>2. QED
    BY <2>1, LenProperties
<1>2. \A i \in 1 .. N : apart[i] = Apart(boxes[i], image)
  BY <1>1
<1>3. \A i \in 1 .. N : apart[i][1] \in Nat /\ apart[i][2] \in Nat \ {0}
  BY <1>1, <1>2, ApartType
<1>4. AssignBucket(boxes, image) = CHOOSE i \in DOMAIN boxes : Nearest(i)
  BY Zenon DEF AssignBucket
<1> HIDE DEF apart
<1>5. a \in [1 .. N -> Nat] /\ b \in [1 .. N -> Nat \ {0}]
  BY <1>3
<1>6. \A i \in 1 .. N : a[i] = apart[i][1] /\ b[i] = apart[i][2]
  OBVIOUS
<1> HIDE DEF a, b, N
<1>7. PICK i \in 1 .. N : /\ \A j \in 1 .. N : ~(a[j] * b[i] < a[i] * b[j])
                          /\ \A j \in 1 .. i - 1 : a[i] * b[j] < a[j] * b[i]
  BY <1>1, <1>5, LeastFraction
<1>8. \A j \in 1 .. i - 1 : j \in 1 .. N
  BY <1>1
<1>9. Nearest(i)
  BY <1>1, <1>6, <1>7, <1>8, Zenon
<1> HIDE DEF Nearest
<1>10. QED
  BY <1>1, <1>4, <1>9, Zenon DEF N

-----------------------------------------------------------------------------
(* The scan *)

LEMMA ImageBoxes ==
  /\ Images = 1 .. Len(Size) /\ Len(Size) \in Nat
  /\ \A i \in Images : Size[i] \in Boxes
<1>1. Size \in Seq(Boxes)
  BY StepPlanAssumption, Zenon DEF Boxes
<1>2. QED
  BY <1>1 DEF Images

LEMMA FloorOverType ==
  ASSUME NEW side \in Nat, NEW a \in Nat \ {0}, NEW b \in Nat
  PROVE  FloorOver(side, a, b) \in Nat
<1> DEFINE exact == (side * b) \div a
           low == (side * b) % a = 0 /\ exact > 0 /\ Drift(exact, a, b, -Residue(a, b)) < 0
<1>1. side * b \in Nat
  OBVIOUS
<1>2. exact \in Nat
  <2>1. \A x \in Nat : x \div a \in Nat
    OBVIOUS
  <2>2. QED
    BY <1>1, <2>1
<1>3. FloorOver(side, a, b) = IF low THEN exact - 1 ELSE exact
  BY Zenon DEF FloorOver
<1>4. low => exact > 0
  BY Zenon
<1> HIDE DEF exact, low
<1>5. exact > 0 => exact - 1 \in Nat
  BY <1>2
<1>6. QED
  BY <1>2, <1>3, <1>4, <1>5, Zenon

LEMMA FitBucketType ==
  ASSUME NEW box \in Boxes, NEW image \in Boxes
  PROVE  FitBucket(box, image) \in Boxes
<1>1. box.width \in Nat \ {0} /\ box.height \in Nat \ {0} /\ image.width \in Nat \ {0} /\ image.height \in Nat \ {0}
  BY DEF Boxes
<1> DEFINE a == CoverScale(box, image)[1]
           b == CoverScale(box, image)[2]
<1>2. a \in Nat \ {0} /\ b \in Nat \ {0}
  BY <1>1 DEF CoverScale
<1>3. FitBucket(box, image) =
        IF a <= b THEN box
        ELSE Box(AlignDown(FloorOver(box.width, a, b)), AlignDown(FloorOver(box.height, a, b)))
  BY Zenon DEF FitBucket
<1> HIDE DEF a, b
<1>4. FloorOver(box.width, a, b) \in Nat /\ FloorOver(box.height, a, b) \in Nat
  BY <1>1, <1>2, FloorOverType
<1>5. AlignDown(FloorOver(box.width, a, b)) \in Nat \ {0} /\ AlignDown(FloorOver(box.height, a, b)) \in Nat \ {0}
  BY <1>4, AlignDownType DEF Align
<1>6. QED
  BY <1>3, <1>5, BoxType, Zenon

(* The scale of a box and an image is at least both of their ratios.         *)
LEMMA ScaleCovers ==
  ASSUME NEW box \in Boxes, NEW image \in Boxes, NEW a, NEW b, CoverScale(box, image) = <<a, b>>
  PROVE  /\ a \in Nat \ {0} /\ b \in Nat \ {0}
         /\ box.width * b <= image.width * a /\ box.height * b <= image.height * a
<1>1. box.width \in Nat \ {0} /\ box.height \in Nat \ {0} /\ image.width \in Nat \ {0} /\ image.height \in Nat \ {0}
  BY DEF Boxes
<1> DEFINE bw == box.width
           bh == box.height
           iw == image.width
           ih == image.height
<1>2. CoverScale(box, image) = IF bw * ih >= bh * iw THEN <<bw, iw>> ELSE <<bh, ih>>
  BY Zenon DEF CoverScale
<1> HIDE DEF bw, bh, iw, ih
<1>3. bw \in Nat \ {0} /\ bh \in Nat \ {0} /\ iw \in Nat \ {0} /\ ih \in Nat \ {0}
  BY <1>1 DEF bw, bh, iw, ih
<1>4. CASE bw * ih >= bh * iw
  <2>1. a = bw /\ b = iw
    BY <1>2, <1>4
  <2>2. bh * iw <= ih * bw /\ bw * iw <= iw * bw
    BY <1>3, <1>4, Z3
  <2>3. QED
    BY <1>3, <2>1, <2>2 DEF bw, bh, iw, ih
<1>5. CASE ~(bw * ih >= bh * iw)
  <2>1. a = bh /\ b = ih
    BY <1>2, <1>5
  <2>2. bw * ih <= iw * bh /\ bh * ih <= ih * bh
    BY <1>3, <1>5, Z3
  <2>3. QED
    BY <1>3, <2>1, <2>2 DEF bw, bh, iw, ih
<1>6. QED
  BY <1>4, <1>5

LEMMA CeilTimesCovers ==
  ASSUME NEW side \in Nat, NEW a \in Nat, NEW b \in Nat \ {0}, NEW m \in Nat, m * b <= side * a
  PROVE  CeilTimes(side, a, b) \in Nat /\ m <= CeilTimes(side, a, b)
<1> DEFINE x == side * a
           up == x + b - 1
           exact == CeilDiv(x, b)
           high == x % b = 0 /\ Drift(exact, a, b, Residue(a, b)) > 0
<1>1. CeilTimes(side, a, b) = IF high THEN exact + 1 ELSE exact
  BY Zenon DEF CeilTimes
<1>2. exact = up \div b
  BY Zenon DEF CeilDiv
<1>3. x \in Nat /\ m * b \in Nat
  BY Z3
<1>4. m * b <= x
  OBVIOUS
<1> HIDE DEF x, high, exact
<1>5. up \in Nat /\ m * b <= up
  BY <1>3, <1>4
<1> HIDE DEF up
<1>6. up \div b \in Nat /\ m <= up \div b
  BY <1>5, QuotientAtLeast, QuotientTimes
<1>7. exact \in Nat /\ m <= exact
  BY <1>2, <1>6
<1>8. QED
  BY <1>1, <1>7

LEMMA QuotientAtMost ==
  ASSUME NEW x \in Nat, NEW w \in Nat \ {0}, NEW m \in Nat, x <= m * w
  PROVE  x \div w <= m
<1> DEFINE d == x \div w
<1>1. d \in Nat /\ d * w <= x
  BY QuotientTimes
<1> HIDE DEF d
<1>2. ~(d >= m + 1)
  <2> SUFFICES ASSUME d >= m + 1
               PROVE  FALSE
    OBVIOUS
  <2>1. (m + 1) * w <= d * w
    BY <1>1, Z3
  <2>2. (m + 1) * w = m * w + w /\ m * w \in Nat /\ d * w \in Nat
    BY <1>1, Z3
  <2>3. QED
    BY <1>1, <2>1, <2>2
<1>3. QED
  BY <1>1, <1>2 DEF d

LEMMA FloorOverWithin ==
  ASSUME NEW side \in Nat, NEW a \in Nat \ {0}, NEW b \in Nat, NEW m \in Nat, side * b <= m * a
  PROVE  FloorOver(side, a, b) <= m
<1> DEFINE x == side * b
           exact == x \div a
           low == x % a = 0 /\ exact > 0 /\ Drift(exact, a, b, -Residue(a, b)) < 0
<1>1. FloorOver(side, a, b) = IF low THEN exact - 1 ELSE exact
  BY Zenon DEF FloorOver
<1>2. x \in Nat /\ x <= m * a
  BY Z3
<1> HIDE DEF x, low
<1>3. exact \in Nat /\ exact <= m
  BY <1>2, QuotientTimes, QuotientAtMost
<1> HIDE DEF exact
<1>4. QED
  BY <1>1, <1>3

(* A box of scaled sides is never larger than an image of a grid step a side. *)
LEMMA FitBucketFits ==
  ASSUME NEW box \in Boxes, NEW image \in Boxes, image.width >= Align, image.height >= Align
  PROVE  FitBucket(box, image).width <= image.width /\ FitBucket(box, image).height <= image.height
<1>1. /\ box.width \in Nat \ {0} /\ box.height \in Nat \ {0} /\ image.width \in Nat \ {0} /\ image.height \in Nat \ {0}
  BY DEF Boxes
<1> DEFINE a == CoverScale(box, image)[1]
           b == CoverScale(box, image)[2]
<1>2. CoverScale(box, image) = <<a, b>>
  BY DEF CoverScale
<1>3. FitBucket(box, image) =
        IF a <= b THEN box
        ELSE Box(AlignDown(FloorOver(box.width, a, b)), AlignDown(FloorOver(box.height, a, b)))
  BY Zenon DEF FitBucket
<1> HIDE DEF a, b
<1>4. /\ a \in Nat \ {0} /\ b \in Nat \ {0}
      /\ box.width * b <= image.width * a /\ box.height * b <= image.height * a
  BY <1>2, ScaleCovers
<1>5. CASE a <= b
  <2>1. ASSUME NEW s \in Nat, NEW t \in Nat, s * b <= t * a
        PROVE  s <= t
    <3> SUFFICES ASSUME s >= t + 1
                 PROVE  FALSE
      OBVIOUS
    <3>1. (t + 1) * b <= s * b /\ t * a <= t * b
      BY <1>4, <1>5, Z3
    <3>2. (t + 1) * b = t * b + b /\ t * b \in Nat /\ s * b \in Nat /\ t * a \in Nat
      BY <1>4, Z3
    <3>3. QED
      BY <1>4, <2>1, <3>1, <3>2
  <2>2. box.width <= image.width /\ box.height <= image.height
    BY <1>1, <1>4, <2>1
  <2>3. QED
    BY <1>3, <1>5, <2>2
<1>6. CASE ~(a <= b)
  <2>1. ASSUME NEW s \in Nat, NEW t \in Nat, s * b <= t * a, t >= Align
        PROVE  AlignDown(FloorOver(s, a, b)) <= t
    <3> DEFINE v == FloorOver(s, a, b)
    <3>1. v \in Nat /\ v <= t
      BY <1>4, <2>1, FloorOverType, FloorOverWithin
    <3> HIDE DEF v
    <3>2. (v \div 16) * 16 <= v /\ (v \div 16) * 16 \in Nat
      BY <3>1
    <3>3. AlignDown(v) <= t
      BY <2>1, <3>1, <3>2 DEF AlignDown, Larger, Align
    <3>4. QED
      BY <3>3 DEF v
  <2>2. /\ AlignDown(FloorOver(box.width, a, b)) <= image.width
        /\ AlignDown(FloorOver(box.height, a, b)) <= image.height
    BY <1>1, <1>4, <2>1
  <2> DEFINE w == AlignDown(FloorOver(box.width, a, b))
             h == AlignDown(FloorOver(box.height, a, b))
  <2>3. FitBucket(box, image) = Box(w, h)
    BY <1>3, <1>6, Zenon
  <2> HIDE DEF w, h
  <2>4. FitBucket(box, image).width = w /\ FitBucket(box, image).height = h
    BY <2>3, BoxSides, ZenonT(60)
  <2>5. QED
    BY <2>2, <2>4, Zenon DEF w, h
<1>7. QED
  BY <1>5, <1>6

(* The frame of an image covers its box, and the crop is inside the frame.   *)
LEMMA CropInside ==
  ASSUME NEW box \in Boxes, NEW image \in Boxes
  PROVE  /\ box.width <= Resized(box, image).width /\ box.height <= Resized(box, image).height
         /\ CropOrigin(box, image)[1] + box.width <= Resized(box, image).width
         /\ CropOrigin(box, image)[2] + box.height <= Resized(box, image).height
<1>1. /\ box.width \in Nat \ {0} /\ box.height \in Nat \ {0} /\ image.width \in Nat \ {0} /\ image.height \in Nat \ {0}
  BY DEF Boxes
<1> DEFINE a == CoverScale(box, image)[1]
           b == CoverScale(box, image)[2]
           w == CeilTimes(image.width, a, b)
           h == CeilTimes(image.height, a, b)
<1>2. CoverScale(box, image) = <<a, b>>
  BY DEF CoverScale
<1>3. Resized(box, image) = Box(w, h)
  BY Zenon DEF Resized
<1> HIDE DEF a, b
<1>4. /\ a \in Nat \ {0} /\ b \in Nat \ {0}
      /\ box.width * b <= image.width * a /\ box.height * b <= image.height * a
  BY <1>2, ScaleCovers
<1>5. w \in Nat /\ h \in Nat /\ box.width <= w /\ box.height <= h
  BY <1>1, <1>4, CeilTimesCovers
<1> HIDE DEF w, h
<1>6. Resized(box, image).width = w /\ Resized(box, image).height = h
  BY <1>3, BoxSides, ZenonT(60)
<1>7. CropOrigin(box, image)[1] = (w - box.width) \div 2 /\ CropOrigin(box, image)[2] = (h - box.height) \div 2
  BY <1>6 DEF CropOrigin
<1>8. (w - box.width) \div 2 + box.width <= w /\ (h - box.height) \div 2 + box.height <= h
  BY <1>1, <1>5
<1>9. QED
  BY <1>5, <1>6, <1>7, <1>8

Entry == [image : Images, bucket : Nat \ {0}]

(* Under no_upscale a box suits an image of a grid step a side within it.    *)
Suits(cfg, box, image) ==
  cfg.noUpscale /\ image.width >= Align /\ image.height >= Align =>
    box.width <= image.width /\ box.height <= image.height

Entered(cfg, v, k) ==
  /\ v.entries[k].bucket <= Len(v.buckets)
  /\ Suits(cfg, v.buckets[v.entries[k].bucket], Size[v.entries[k].image])

(* What the scan of some images is: boxes, the generated ones first, and     *)
(* entries that each name one that suits its image.                          *)
Scanned(cfg) ==
  {v \in [buckets : Seq(Boxes), entries : Seq(Entry)] :
     /\ Len(v.buckets) >= Len(Generated[cfg])
     /\ \A k \in 1 .. Len(Generated[cfg]) : v.buckets[k] = Generated[cfg][k]
     /\ \A k \in 1 .. Len(v.entries) : Entered(cfg, v, k)}

LEMMA ScannedIff ==
  ASSUME NEW cfg, NEW v
  PROVE  v \in Scanned(cfg) <=>
           /\ v \in [buckets : Seq(Boxes), entries : Seq(Entry)]
           /\ Len(v.buckets) >= Len(Generated[cfg])
           /\ \A k \in 1 .. Len(Generated[cfg]) : v.buckets[k] = Generated[cfg][k]
           /\ \A k \in 1 .. Len(v.entries) : Entered(cfg, v, k)
BY Zenon DEF Scanned

LEMMA Enters ==
  ASSUME NEW cfg, NEW v \in Scanned(cfg), NEW image \in Images, NEW boxes \in Seq(Boxes),
         Len(boxes) >= Len(v.buckets), Len(Generated[cfg]) \in Nat, NEW n \in 1 .. Len(boxes),
         \A k \in 1 .. Len(v.buckets) : boxes[k] = v.buckets[k],
         Suits(cfg, boxes[n], Size[image])
  PROVE  LET e == Append(v.entries, [image |-> image, bucket |-> n])
         IN [buckets |-> boxes, entries |-> e] \in Scanned(cfg)
<1> DEFINE r == [image |-> image, bucket |-> n]
           e == Append(v.entries, r)
           w == [buckets |-> boxes, entries |-> e]
<1>1. /\ v.buckets \in Seq(Boxes) /\ v.entries \in Seq(Entry)
      /\ Len(v.buckets) >= Len(Generated[cfg])
      /\ \A k \in 1 .. Len(Generated[cfg]) : v.buckets[k] = Generated[cfg][k]
      /\ \A k \in 1 .. Len(v.entries) : Entered(cfg, v, k)
  BY ScannedIff
<1>2. r \in Entry /\ r.bucket = n /\ r.image = image
  BY DEF Entry
<1> HIDE DEF r
<1>3. e \in Seq(Entry) /\ Len(e) = Len(v.entries) + 1 /\ Len(v.entries) \in Nat
  BY <1>1, <1>2
<1>4. \A k \in 1 .. Len(v.entries) : e[k] = v.entries[k]
  BY <1>1, <1>2
<1>5. e[Len(v.entries) + 1] = r
  BY <1>1, <1>2
<1> HIDE DEF e
<1>6. Len(boxes) \in Nat /\ Len(v.buckets) \in Nat
  BY <1>1
<1>7. w \in [buckets : Seq(Boxes), entries : Seq(Entry)] /\ w.buckets = boxes /\ w.entries = e
  BY <1>3
<1> HIDE DEF w
<1>8. ASSUME NEW k \in 1 .. Len(e)
      PROVE  Entered(cfg, w, k)
  <2>1. CASE k = Len(v.entries) + 1
    <3>1. e[k].bucket = n /\ e[k].image = image
      BY <1>2, <1>5, <2>1
    <3>2. n <= Len(boxes)
      BY <1>6
    <3>3. QED
      BY <1>7, <3>1, <3>2, Zenon DEF Entered
  <2>2. CASE k # Len(v.entries) + 1
    <3>1. k \in 1 .. Len(v.entries)
      BY <1>3, <2>2
    <3>2. v.entries[k] \in Entry
      BY <1>1, <3>1
    <3>3. v.entries[k].bucket \in Nat \ {0}
      BY <3>2 DEF Entry
    <3>4. Entered(cfg, v, k) /\ e[k] = v.entries[k]
      BY <1>1, <1>4, <3>1
    <3>5. v.entries[k].bucket <= Len(v.buckets)
      BY <3>4, Zenon DEF Entered
    <3>6. v.entries[k].bucket \in 1 .. Len(v.buckets) /\ v.entries[k].bucket <= Len(boxes)
      BY <1>6, <3>3, <3>5
    <3>7. boxes[v.entries[k].bucket] = v.buckets[v.entries[k].bucket]
      BY <3>6
    <3>8. QED
      BY <1>7, <3>4, <3>6, <3>7, Zenon DEF Entered
  <2>3. QED
    BY <2>1, <2>2
<1>9. Len(boxes) >= Len(Generated[cfg])
  BY <1>1, <1>6
<1>10. \A k \in 1 .. Len(Generated[cfg]) : boxes[k] = Generated[cfg][k]
  <2>1. \A k \in 1 .. Len(Generated[cfg]) : k \in 1 .. Len(v.buckets)
    BY <1>1, <1>6
  <2>2. QED
    BY <1>1, <2>1
<1>11. w \in Scanned(cfg)
  BY <1>7, <1>8, <1>9, <1>10, ScannedIff
<1>12. QED
  BY <1>11, Zenon DEF w, e, r

(* Assigning an image appends an entry of that image.                        *)
LEMMA AssignType ==
  ASSUME NEW cfg \in Configs, ~BucketSetRefused(cfg), NEW v \in Scanned(cfg), NEW image \in Images
  PROVE  /\ Assign(cfg, v, image) \in Scanned(cfg)
         /\ \E n : Assign(cfg, v, image).entries = Append(v.entries, [image |-> image, bucket |-> n])
<1> DEFINE G == Generated[cfg]
           nearest == AssignBucket(G, Size[image])
           fitted == IF cfg.noUpscale THEN FitBucket(v.buckets[nearest], Size[image])
                                      ELSE v.buckets[nearest]
           known == PositionOf(v.buckets, fitted)
           found == CHOOSE i \in known : \A j \in known : i <= j
           E(n) == Append(v.entries, [image |-> image, bucket |-> n])
<1>1. G \in Seq(Boxes) \ {<<>>} /\ Len(G) \in Nat
  BY GeneratedType
<1>2. Size[image] \in Boxes
  BY ImageBoxes
<1>3. nearest \in 1 .. Len(G)
  BY <1>1, <1>2, AssignBucketType
<1>4. /\ v.buckets \in Seq(Boxes) /\ Len(v.buckets) >= Len(G) /\ Len(v.buckets) \in Nat
      /\ v = [buckets |-> v.buckets, entries |-> v.entries]
  <2>1. v \in [buckets : Seq(Boxes), entries : Seq(Entry)] /\ Len(v.buckets) >= Len(G)
    BY ScannedIff
  <2>2. QED
    BY <2>1
<1>5. Assign(cfg, v, image) =
        CASE ~cfg.noUpscale -> [v EXCEPT !.entries = E(nearest)]
          [] cfg.noUpscale /\ known # {} -> [v EXCEPT !.entries = E(found)]
          [] OTHER -> [buckets |-> Append(v.buckets, fitted), entries |-> E(Len(v.buckets) + 1)]
  BY Zenon DEF Assign
<1> HIDE DEF nearest
<1>6. nearest \in 1 .. Len(v.buckets)
  BY <1>1, <1>3, <1>4
<1>7. fitted \in Boxes
  <2>1. v.buckets[nearest] \in Boxes
    BY <1>4, <1>6
  <2>2. FitBucket(v.buckets[nearest], Size[image]) \in Boxes
    BY <1>2, <2>1, FitBucketType
  <2>3. QED
    BY <2>1, <2>2, Zenon
<1>8. Suits(cfg, fitted, Size[image])
  <2>1. CASE cfg.noUpscale
    <3>1. fitted = FitBucket(v.buckets[nearest], Size[image]) /\ v.buckets[nearest] \in Boxes
      BY <1>4, <1>6, <2>1
    <3>2. QED
      BY <1>2, <3>1, FitBucketFits, Zenon DEF Suits
  <2>2. CASE ~cfg.noUpscale
    BY <2>2, Zenon DEF Suits
  <2>3. QED
    BY <2>1, <2>2
<1>9. ~cfg.noUpscale => Suits(cfg, v.buckets[nearest], Size[image])
  BY Zenon DEF Suits
<1> HIDE DEF fitted
<1>10. \A i \in known : v.buckets[i] = fitted
  BY Zenon DEF PositionOf
<1>11. known \in SUBSET (1 .. Len(v.buckets)) /\ known \in SUBSET Nat
  BY <1>4 DEF PositionOf
<1> HIDE DEF known
<1>12. known # {} => found \in 1 .. Len(v.buckets) /\ v.buckets[found] = fitted
  <2>1. known # {} => \E i \in known : \A j \in known : i <= j
    BY <1>11, LeastNatural, Zenon
  <2>2. known # {} => found \in known
    BY <2>1, Zenon
  <2>3. QED
    BY <1>11, <1>10, <2>2, Zenon
<1> HIDE DEF found
<1>13. \A e : [v EXCEPT !.entries = e] = [buckets |-> v.buckets, entries |-> e]
  BY <1>4
<1>14. /\ Append(v.buckets, fitted) \in Seq(Boxes)
       /\ Len(Append(v.buckets, fitted)) = Len(v.buckets) + 1
       /\ Append(v.buckets, fitted)[Len(v.buckets) + 1] = fitted
       /\ \A k \in 1 .. Len(v.buckets) : Append(v.buckets, fitted)[k] = v.buckets[k]
  BY <1>4, <1>7
<1> DEFINE W(boxes, n) == [buckets |-> boxes, entries |-> E(n)]
<1>15. \A n \in 1 .. Len(v.buckets) : Suits(cfg, v.buckets[n], Size[image]) => W(v.buckets, n) \in Scanned(cfg)
  <2>1. Len(v.buckets) >= Len(v.buckets)
    BY <1>4
  <2>2. QED
    BY <1>1, <1>4, <2>1, Enters, Zenon
<1>16. W(Append(v.buckets, fitted), Len(v.buckets) + 1) \in Scanned(cfg)
  <2> DEFINE boxes == Append(v.buckets, fitted)
             n == Len(v.buckets) + 1
  <2>1. boxes \in Seq(Boxes) /\ Len(boxes) >= Len(v.buckets) /\ n \in 1 .. Len(boxes)
    BY <1>4, <1>14
  <2>2. Suits(cfg, boxes[n], Size[image]) /\ \A k \in 1 .. Len(v.buckets) : boxes[k] = v.buckets[k]
    BY <1>14, <1>8, Zenon
  <2> HIDE DEF boxes, n
  <2>3. W(boxes, n) \in Scanned(cfg)
    BY <1>1, <2>1, <2>2, Enters
  <2>4. QED
    BY <2>3, Zenon DEF boxes, n
<1>17. \A boxes, n : W(boxes, n).entries = E(n)
  OBVIOUS
<1>18. \/ ~cfg.noUpscale /\ Assign(cfg, v, image) = W(v.buckets, nearest)
       \/ known # {} /\ Assign(cfg, v, image) = W(v.buckets, found)
       \/ Assign(cfg, v, image) = W(Append(v.buckets, fitted), Len(v.buckets) + 1)
  <2>1. [v EXCEPT !.entries = E(nearest)] = W(v.buckets, nearest) /\ [v EXCEPT !.entries = E(found)] = W(v.buckets, found)
    BY <1>13, Zenon
  <2> HIDE DEF E
  <2>2. QED
    BY <1>5, <2>1, Zenon
<1>19. \E n : \E boxes : Assign(cfg, v, image) = W(boxes, n) /\ W(boxes, n) \in Scanned(cfg)
  <2> HIDE DEF W
  <2>1. QED
    BY <1>6, <1>12, <1>15, <1>16, <1>18, <1>8, <1>9, Zenon
<1>20. QED
  <2> HIDE DEF W
  <2>1. QED
    BY <1>17, <1>19, Zenon

LEMMA NothingScanned ==
  ASSUME NEW cfg \in Configs, ~BucketSetRefused(cfg)
  PROVE  [buckets |-> Generated[cfg], entries |-> <<>>] \in Scanned(cfg)
<1> DEFINE v == [buckets |-> Generated[cfg], entries |-> <<>>]
<1>1. Generated[cfg] \in Seq(Boxes) /\ Len(Generated[cfg]) \in Nat
  BY GeneratedType
<1>2. v \in [buckets : Seq(Boxes), entries : Seq(Entry)] /\ v.buckets = Generated[cfg] /\ v.entries = <<>>
  BY <1>1
<1>3. \A k \in 1 .. Len(<<>>) : FALSE
  OBVIOUS
<1> HIDE DEF v
<1>4. Len(v.buckets) >= Len(Generated[cfg])
  BY <1>1, <1>2
<1>5. v \in Scanned(cfg)
  BY <1>2, <1>3, <1>4, ScannedIff, Zenon
<1>6. QED
  BY <1>5, Zenon DEF v

(* The entries of a scan are the images, in their order.                     *)
EntriesAre(v, images, n) ==
  Len(v.entries) = n /\ \A k \in 1 .. n : v.entries[k].image = images[k]

LEMMA ScanType ==
  ASSUME NEW cfg \in Configs, ~BucketSetRefused(cfg), NEW images \in Seq(Images)
  PROVE  /\ Scan(cfg, images) \in Scanned(cfg)
         /\ EntriesAre(Scan(cfg, images), images, Len(images))
<1> DEFINE N == Len(images)
           base == [buckets |-> Generated[cfg], entries |-> <<>>]
           IsFirst(f) == f = [n \in 0 .. N |-> IF n = 0 THEN base ELSE Assign(cfg, f[n - 1], images[n])]
           h == CHOOSE f : IsFirst(f)
           V == Scanned(cfg)
           next == [i \in 1 .. N |-> [v \in V |-> Assign(cfg, v, images[i])]]
<1>1. Scan(cfg, images) = h[N]
  BY Zenon DEF Scan
<1>2. N \in Nat /\ \A i \in 1 .. N : images[i] \in Images
  OBVIOUS
<1> HIDE DEF N
<1>3. base \in V
  BY NothingScanned
<1>4. base.entries = <<>>
  OBVIOUS
<1> HIDE DEF base
<1>5. ASSUME NEW i \in 1 .. N, NEW v \in V
      PROVE  /\ Assign(cfg, v, images[i]) \in V
             /\ \E n : Assign(cfg, v, images[i]).entries = Append(v.entries, [image |-> images[i], bucket |-> n])
  BY <1>2, AssignType, Zenon
<1>6. \A i \in 1 .. N : next[i] \in [V -> V]
  BY <1>5, Zenon
<1>7. \A i \in 1 .. N : \A v \in V : next[i][v] = Assign(cfg, v, images[i])
  BY Zenon
<1> HIDE DEF next
<1>8. PICK f : Iterates(f, V, base, N, next)
  <2> HIDE DEF V
  <2>1. QED
    BY <1>2, <1>3, <1>6, Iteration, Zenon
<1>9. ASSUME NEW n \in 0 .. N
      PROVE  f[n] = IF n = 0 THEN base ELSE Assign(cfg, f[n - 1], images[n])
  <2>1. n # 0 => n \in 1 .. N /\ n - 1 \in 0 .. N
    BY <1>2
  <2>2. QED
    BY <1>7, <1>8, <2>1, Zenon DEF Iterates
<1>10. IsFirst(f)
  BY <1>8, <1>9, Zenon DEF Iterates
<1>11. IsFirst(h)
  BY <1>10, Zenon
<1>12. \A n \in 0 .. N : h[n] = IF n = 0 THEN base ELSE Assign(cfg, h[n - 1], images[n])
  BY <1>11, Zenon
<1> HIDE DEF h, IsFirst
<1> DEFINE T == {n \in 0 .. N : h[n] \in V /\ EntriesAre(h[n], images, n)}
<1>13. 0 \in T
  <2>1. 0 \in 0 .. N /\ 1 .. 0 = {} /\ Len(<<>>) = 0
    BY <1>2
  <2>2. h[0] = base
    BY <1>12, <2>1
  <2>3. EntriesAre(h[0], images, 0)
    BY <1>4, <2>1, <2>2, Zenon DEF EntriesAre
  <2>4. QED
    BY <1>3, <2>1, <2>2, <2>3
<1>14. ASSUME NEW i \in 1 .. N, i - 1 \in T
       PROVE  i \in T
  <2>1. i \in 0 .. N /\ i # 0 /\ i \in Nat
    BY <1>2
  <2>2. h[i] = Assign(cfg, h[i - 1], images[i])
    BY <1>12, <2>1, Zenon
  <2>3. h[i - 1] \in V /\ EntriesAre(h[i - 1], images, i - 1)
    BY <1>14
  <2>4. PICK n : h[i].entries = Append(h[i - 1].entries, [image |-> images[i], bucket |-> n])
    BY <1>5, <2>2, <2>3, Zenon
  <2>5. h[i] \in V
    BY <1>5, <2>2, <2>3, Zenon
  <2>6. h[i - 1].entries \in Seq(Entry) /\ h[i].entries \in Seq(Entry)
    BY <2>3, <2>5, ScannedIff
  <2> DEFINE e == h[i - 1].entries
             r == [image |-> images[i], bucket |-> n]
             g == h[i].entries
  <2>7. r.image = images[i] /\ e \in Seq(Entry) /\ Len(e) = i - 1 /\ g = Append(e, r)
    BY <2>3, <2>4, <2>6 DEF EntriesAre
  <2> HIDE DEF r
  <2>8. \A k \in 1 .. i - 1 : e[k].image = images[k]
    BY <2>3 DEF EntriesAre
  <2> HIDE DEF e, g
  <2>9. Len(g) = i /\ g[i] = r /\ \A k \in 1 .. i - 1 : g[k] = e[k]
    BY <2>1, <2>7
  <2>10. \A k \in 1 .. i : k = i \/ k \in 1 .. i - 1
    OBVIOUS
  <2>11. \A k \in 1 .. i : g[k].image = images[k]
    BY <2>7, <2>8, <2>9, <2>10, Zenon
  <2>12. EntriesAre(h[i], images, i)
    BY <2>9, <2>11, Zenon DEF EntriesAre, g
  <2>13. QED
    BY <2>1, <2>5, <2>12
<1> HIDE DEF T
<1>15. 0 .. N \subseteq T
  BY <1>2, <1>13, <1>14, Climb
<1>16. N \in T
  BY <1>2, <1>15
<1>17. h[N] \in V /\ EntriesAre(h[N], images, N)
  BY <1>16, Zenon DEF T
<1>18. QED
  BY <1>1, <1>17, Zenon DEF N

-----------------------------------------------------------------------------
(* Chunks: an item k is at row k - (c - 1) * z of chunk c.                   *)

LEMMA DivisionUnique ==
  ASSUME NEW z \in Nat \ {0}, NEW c \in Nat, NEW d \in Nat, NEW r \in 1 .. z, NEW s \in 1 .. z,
         c * z + r = d * z + s
  PROVE  c = d /\ r = s
<1>1. ASSUME NEW a \in Nat, NEW b \in Nat, a < b
      PROVE  a * z + z <= b * z
  <2>1. (a + 1) * z <= b * z
    BY <1>1, Z3
  <2>2. (a + 1) * z = a * z + z
    BY Z3
  <2>3. QED
    BY <2>1, <2>2
<1>2. c * z \in Nat /\ d * z \in Nat
  OBVIOUS
<1>3. ~(c < d)
  <2>1. c < d => c * z + z <= d * z
    BY <1>1
  <2>2. QED
    BY <1>2, <2>1
<1>4. ~(d < c)
  <2>1. d < c => d * z + z <= c * z
    BY <1>1
  <2>2. QED
    BY <1>2, <2>1
<1>5. c = d
  BY <1>3, <1>4
<1>6. QED
  BY <1>2, <1>5

LEMMA CeilDivType ==
  ASSUME NEW L \in Nat, NEW z \in Nat \ {0}
  PROVE  /\ CeilDiv(L, z) \in Nat
         /\ \A c \in 1 .. CeilDiv(L, z) : (c - 1) * z \in Nat /\ (c - 1) * z < L
         /\ \A k \in 1 .. L : \E c \in 1 .. CeilDiv(L, z) :
              (c - 1) * z < k /\ k <= c * z
<1> DEFINE q == CeilDiv(L, z)
<1>1. q \in Nat /\ q * z <= L + z - 1
  <2>1. PICK x \in Nat : x = L + z - 1
    OBVIOUS
  <2>2. x \div z \in Nat /\ (x \div z) * z <= x
    BY Z3
  <2>3. QED
    BY <2>1, <2>2 DEF CeilDiv
<1>2. L <= q * z
  <2>1. PICK x \in Nat : x = L + z - 1
    OBVIOUS
  <2>2. x <= (x \div z) * z + z - 1
    BY Z3
  <2>3. (x \div z) * z \in Nat
    OBVIOUS
  <2>4. QED
    BY <2>1, <2>2, <2>3 DEF CeilDiv
<1> HIDE DEF q
<1>3. ASSUME NEW c \in 1 .. q
      PROVE  (c - 1) * z \in Nat /\ (c - 1) * z < L
  <2>1. c - 1 \in Nat /\ c - 1 <= q - 1 /\ q - 1 \in Nat
    BY <1>1
  <2>2. (c - 1) * z <= (q - 1) * z
    BY <2>1, Z3
  <2>3. (q - 1) * z = q * z - z
    BY <1>1, Z3
  <2>4. (c - 1) * z \in Nat /\ q * z \in Nat
    BY <1>1, <2>1
  <2>5. QED
    BY <1>1, <2>2, <2>3, <2>4
<1>4. ASSUME NEW k \in 1 .. L
      PROVE  \E c \in 1 .. q : (c - 1) * z < k /\ k <= c * z
  <2> DEFINE a == (k - 1) \div z
  <2>1. PICK x \in Nat : x = k - 1
    OBVIOUS
  <2>2. x \div z \in Nat /\ (x \div z) * z <= x /\ x < (x \div z) * z + z
    BY Z3
  <2>3. a \in Nat /\ a * z <= k - 1 /\ k - 1 < a * z + z
    BY <2>1, <2>2
  <2> HIDE DEF a
  <2>4. (a + 1) * z = a * z + z /\ a * z \in Nat
    BY <2>3, Z3
  <2>5. a < q
    <3>1. q <= a => q * z <= a * z
      BY <1>1, <2>3, Z3
    <3>2. q * z \in Nat
      BY <1>1
    <3>3. QED
      BY <1>1, <1>2, <2>3, <2>4, <3>1, <3>2
  <2>6. a + 1 \in 1 .. q /\ (a + 1) - 1 = a
    BY <1>1, <2>3, <2>5
  <2>7. a * z < k /\ k <= (a + 1) * z
    BY <2>3, <2>4
  <2>8. QED
    BY <2>6, <2>7
<1>5. QED
  BY <1>1, <1>3, <1>4, Zenon DEF q

(* The items of chunk c of L.                                                *)
IsChunk(chunk, S, items, L, z, c) ==
  /\ chunk \in Seq(S)
  /\ Len(chunk) = (IF c * z < L THEN c * z ELSE L) - (c - 1) * z
  /\ Len(chunk) <= z
  /\ \A r \in 1 .. Len(chunk) :
       (c - 1) * z + r \in 1 .. L /\ chunk[r] = items[(c - 1) * z + r]

LEMMA ChunkIs ==
  ASSUME NEW S, NEW items \in Seq(S), NEW z \in Nat \ {0}, NEW c \in 1 .. CeilDiv(Len(items), z)
  PROVE  IsChunk(Chunks(items, z)[c], S, items, Len(items), z, c)
<1> DEFINE L == Len(items)
           from == (c - 1) * z
           to == IF c * z < L THEN c * z ELSE L
           chunk == SubSeq(items, from + 1, to)
<1>1. Chunks(items, z)[c] = chunk
  BY Zenon DEF Chunks
<1>2. L \in Nat /\ \A i \in 1 .. L : items[i] \in S
  OBVIOUS
<1>3. from \in Nat /\ from < L
  BY <1>2, CeilDivType
<1>4. c \in Nat /\ c >= 1 /\ c * z \in Nat
  <2>1. CeilDiv(L, z) \in Nat
    BY <1>2, CeilDivType
  <2>2. c \in Nat /\ c >= 1
    BY <2>1
  <2>3. QED
    BY <2>2
<1>5. c * z = from + z
  BY <1>4, Z3
<1> HIDE DEF L, from
<1>6. to \in Nat /\ from + 1 <= to /\ to <= L /\ to - from <= z
  BY <1>2, <1>3, <1>4, <1>5
<1>7. ASSUME NEW i \in from + 1 .. to
      PROVE  items[i] \in S
  <2>1. i \in 1 .. L
    BY <1>2, <1>3, <1>6
  <2>2. QED
    BY <1>2, <2>1
<1> DEFINE m == from + 1
<1> HIDE DEF to
<1>8. m \in Int /\ to \in Int /\ m <= to
  BY <1>3, <1>6
<1>9. chunk \in Seq(S) /\ Len(chunk) = to - m + 1
  BY <1>7, <1>8, SubSeqProperties
<1>10. Len(chunk) = to - from
  BY <1>3, <1>6, <1>9
<1>11. ASSUME NEW r \in 1 .. to - from
       PROVE  from + r \in 1 .. L /\ chunk[r] = items[from + r]
  <2>1. from + r \in 1 .. L
    BY <1>2, <1>3, <1>6
  <2>2. m + r - 1 = from + r /\ r \in 1 .. (to - m + 1)
    BY <1>3, <1>6
  <2>3. chunk[r] = items[m + r - 1]
    BY <1>8, <2>2
  <2>4. QED
    BY <2>1, <2>2, <2>3
<1> HIDE DEF chunk, m
<1>12. QED
  BY <1>1, <1>6, <1>9, <1>10, <1>11, Zenon DEF L, from, to, IsChunk

-----------------------------------------------------------------------------
(* Where the plans hold an item *)

At(plan, i, p, r) == p \in 1 .. Len(plan) /\ r \in 1 .. Len(plan[p]) /\ plan[p][r] = i

Never(plan, i) == \A p, r : ~At(plan, i, p, r)

Once(plan, i) ==
  /\ \E p, r : At(plan, i, p, r)
  /\ \A p, r, q, s : At(plan, i, p, r) /\ At(plan, i, q, s) => p = q /\ r = s

(* A batch of at most M items, each a number up to M.                        *)
Batch(M) == {b \in Seq(1 .. M) : Len(b) <= M}

LEMMA ChunksHold ==
  ASSUME NEW M \in Nat, NEW S \in SUBSET (1 .. M), NEW z \in Nat \ {0}
  PROVE  /\ Chunks(Ascending(S), z) \in Seq(Batch(M))
         /\ \A i \in S : Once(Chunks(Ascending(S), z), i)
         /\ \A i : i \notin S => Never(Chunks(Ascending(S), z), i)
<1> DEFINE items == Ascending(S)
           L == Cardinality(S)
           plan == Chunks(items, z)
           N == CeilDiv(L, z)
<1>1. S \in SUBSET Nat /\ IsFiniteSet(S) /\ L \in Nat /\ L <= M
  <2>1. IsFiniteSet(1 .. M) /\ Cardinality(1 .. M) = M
    BY FS_Interval
  <2>2. IsFiniteSet(S) /\ Cardinality(S) <= Cardinality(1 .. M)
    BY <2>1, FS_Subset, Zenon
  <2>3. Cardinality(S) \in Nat
    BY <2>2, FS_CardinalityType, Zenon
  <2>4. S \in SUBSET Nat
    OBVIOUS
  <2>5. QED
    BY <2>1, <2>2, <2>3, <2>4
<1>2. items \in [1 .. L -> S]
  BY <1>1, AscendingCounts
<1>3. items \in Seq(S) /\ Len(items) = L
  <2> HIDE DEF items, L
  <2>1. QED
    BY <1>1, <1>2
<1>4. /\ \A i \in S : \E n \in 1 .. L : items[n] = i
      /\ \A m, n \in 1 .. L : items[m] = items[n] => m = n
  BY <1>1, AscendingCounts
<1> HIDE DEF items, L
<1>5. N \in Nat
  BY <1>1, CeilDivType
<1>6. DOMAIN plan = 1 .. N
  BY <1>3 DEF Chunks
<1>7. ASSUME NEW c \in 1 .. N
      PROVE  /\ plan[c] \in Seq(S)
             /\ Len(plan[c]) = (IF c * z < L THEN c * z ELSE L) - (c - 1) * z
             /\ Len(plan[c]) <= z
             /\ \A r \in 1 .. Len(plan[c]) :
                  (c - 1) * z + r \in 1 .. L /\ plan[c][r] = items[(c - 1) * z + r]
  <2>1. c \in 1 .. CeilDiv(Len(items), z)
    BY <1>3, Zenon
  <2>2. IsChunk(plan[c], S, items, Len(items), z, c)
    BY <1>3, <2>1, ChunkIs, Zenon
  <2> HIDE DEF plan
  <2>3. IsChunk(plan[c], S, items, L, z, c)
    BY <1>3, <2>2, Zenon
  <2>4. QED
    BY <2>3, Zenon DEF IsChunk
<1>8. \A c \in 1 .. N : (c - 1) * z \in Nat /\ (c - 1) * z < L /\ c * z \in Nat
  BY <1>1, <1>5, CeilDivType
<1> HIDE DEF plan
<1>9. ASSUME NEW c \in 1 .. N
      PROVE  plan[c] \in Batch(M)
  <2>1. plan[c] \in Seq(1 .. M)
    BY <1>7, SeqMonotonic
  <2>2. Len(plan[c]) <= M
    <3>1. Len(plan[c]) \in Nat
      BY <1>7
    <3>2. PICK x \in Nat, y \in Nat, w \in Nat : x = Len(plan[c]) /\ y = c * z /\ w = (c - 1) * z
      BY <1>8, <3>1
    <3>3. x = (IF y < L THEN y ELSE L) - w
      BY <1>7, <3>2
    <3>4. x <= M
      BY <1>1, <3>3
    <3>5. QED
      BY <3>2, <3>4
  <2>3. QED
    BY <2>1, <2>2 DEF Batch
<1>10. plan \in Seq(Batch(M)) /\ Len(plan) = N
  <2>1. plan = [c \in 1 .. N |-> plan[c]]
    BY <1>6, Zenon DEF plan, Chunks, N
  <2> DEFINE B == Batch(M)
  <2>2. plan \in [1 .. N -> B]
    BY <1>9, <2>1, Zenon
  <2> HIDE DEF B, N
  <2>3. plan \in Seq(B) /\ Len(plan) = N
    BY <1>5, <2>2
  <2>4. QED
    BY <2>3 DEF B
<1>11. ASSUME NEW i \in S
       PROVE  \E p, r : At(plan, i, p, r)
  <2>1. PICK k \in 1 .. L : items[k] = i
    BY <1>4
  <2>2. PICK c \in 1 .. N : (c - 1) * z < k /\ k <= c * z
    BY <1>1, CeilDivType
  <2> DEFINE from == (c - 1) * z
             r == k - from
  <2>3. from \in Nat /\ c * z \in Nat /\ k \in Nat
    BY <1>8
  <2>4. Len(plan[c]) = (IF c * z < L THEN c * z ELSE L) - from
    BY <1>7
  <2>5. from < k /\ k <= c * z /\ k <= L
    BY <1>1, <2>2
  <2> HIDE DEF from
  <2>6. r \in 1 .. Len(plan[c]) /\ from + r = k
    BY <1>1, <2>3, <2>4, <2>5
  <2>7. plan[c][r] = i
    BY <1>7, <2>1, <2>6, Zenon DEF from
  <2>8. At(plan, i, c, r)
    BY <1>10, <2>6, <2>7, Zenon DEF At
  <2>9. QED
    BY <2>8, Zenon
<1>12. ASSUME NEW i, NEW p, NEW r, At(plan, i, p, r)
       PROVE  /\ p \in 1 .. N /\ r \in 1 .. z
              /\ (p - 1) * z + r \in 1 .. L
              /\ i = items[(p - 1) * z + r]
  <2>1. p \in 1 .. N /\ r \in 1 .. Len(plan[p]) /\ plan[p][r] = i
    BY <1>10, <1>12 DEF At
  <2>2. Len(plan[p]) \in Nat /\ Len(plan[p]) <= z
    BY <1>7, <2>1
  <2>3. r \in 1 .. z
    BY <2>1, <2>2
  <2>4. QED
    BY <1>7, <2>1, <2>3, Zenon
<1>13. ASSUME NEW i, NEW p, NEW r, NEW q, NEW s, At(plan, i, p, r), At(plan, i, q, s)
       PROVE  p = q /\ r = s
  <2>1. (p - 1) * z + r = (q - 1) * z + s
    <3>1. (p - 1) * z + r \in 1 .. L /\ i = items[(p - 1) * z + r]
      BY <1>12, <1>13, Zenon
    <3>2. (q - 1) * z + s \in 1 .. L /\ i = items[(q - 1) * z + s]
      BY <1>12, <1>13, Zenon
    <3>3. QED
      BY <1>4, <3>1, <3>2, Zenon
  <2>2. p \in 1 .. N /\ q \in 1 .. N /\ r \in 1 .. z /\ s \in 1 .. z
    BY <1>12, <1>13, Zenon
  <2>3. p - 1 \in Nat /\ q - 1 \in Nat /\ p \in Int /\ q \in Int
    BY <1>5, <2>2
  <2>4. p - 1 = q - 1 /\ r = s
    BY <2>1, <2>2, <2>3, DivisionUnique
  <2>5. QED
    BY <2>3, <2>4
<1>14. ASSUME NEW i, i \notin S
       PROVE  Never(plan, i)
  <2>1. \A k \in 1 .. L : items[k] \in S
    BY <1>2
  <2>2. QED
    BY <1>12, <1>14, <2>1, ZenonT(60) DEF Never
<1>15. \A i \in S : Once(plan, i)
  BY <1>11, <1>13, Zenon DEF Once
<1>16. QED
  BY <1>10, <1>14, <1>15, Zenon DEF plan, items

(* Plans after one another.                                                  *)
LEMMA Joined ==
  ASSUME NEW B, NEW a \in Seq(B), NEW b \in Seq(B), NEW i
  PROVE  /\ a \o b \in Seq(B)
         /\ Never(a, i) /\ Never(b, i) => Never(a \o b, i)
         /\ Once(a, i) /\ Never(b, i) => Once(a \o b, i)
         /\ Never(a, i) /\ Once(b, i) => Once(a \o b, i)
<1> DEFINE c == a \o b
           m == Len(a)
           n == Len(b)
<1>1. c \in Seq(B) /\ Len(c) = m + n /\ m \in Nat /\ n \in Nat
  BY ConcatProperties, LenProperties
<1>2. \A p \in 1 .. m + n : c[p] = IF p <= m THEN a[p] ELSE b[p - m]
  BY ConcatProperties
<1> HIDE DEF c, m, n
<1>3. ASSUME NEW p, NEW r, At(c, i, p, r)
      PROVE  /\ p \in Int
             /\ (At(a, i, p, r) \/ At(b, i, p - m, r))
  <2>1. p \in 1 .. m + n /\ r \in 1 .. Len(c[p]) /\ c[p][r] = i
    BY <1>1, <1>3, Zenon DEF At
  <2>2. CASE p <= m
    <3>1. p \in 1 .. m /\ c[p] = a[p] /\ p \in Int
      BY <1>1, <1>2, <2>1, <2>2
    <3>2. QED
      BY <2>1, <3>1, Zenon DEF At, m
  <2>3. CASE ~(p <= m)
    <3>1. p - m \in 1 .. n /\ c[p] = b[p - m] /\ p \in Int
      BY <1>1, <1>2, <2>1, <2>3
    <3>2. QED
      BY <2>1, <3>1, Zenon DEF At, n
  <2>4. QED
    BY <2>2, <2>3
<1>4. ASSUME NEW p, NEW r, At(a, i, p, r)
      PROVE  At(c, i, p, r)
  <2>1. p \in 1 .. m /\ r \in 1 .. Len(a[p]) /\ a[p][r] = i
    BY <1>4, Zenon DEF At, m
  <2>2. p \in 1 .. m + n /\ c[p] = a[p]
    BY <1>1, <1>2, <2>1
  <2>3. QED
    BY <1>1, <2>1, <2>2, Zenon DEF At
<1>5. ASSUME NEW p, NEW r, At(b, i, p, r)
      PROVE  At(c, i, p + m, r) /\ p \in Int
  <2>1. p \in 1 .. n /\ r \in 1 .. Len(b[p]) /\ b[p][r] = i
    BY <1>5, Zenon DEF At, n
  <2>2. p + m \in 1 .. m + n /\ c[p + m] = b[p] /\ p \in Int
    <3>1. p + m \in 1 .. m + n /\ ~(p + m <= m) /\ (p + m) - m = p /\ p \in Int
      BY <1>1, <2>1
    <3>2. QED
      BY <1>2, <3>1
  <2>3. QED
    BY <1>1, <2>1, <2>2, Zenon DEF At
<1>6. Never(a, i) /\ Never(b, i) => Never(c, i)
  BY <1>3, Zenon DEF Never
<1>7. ASSUME Once(a, i), Never(b, i)
      PROVE  Once(c, i)
  <2>1. \E p, r : At(c, i, p, r)
    BY <1>4, <1>7, Zenon DEF Once
  <2>2. ASSUME NEW p, NEW r, NEW q, NEW s, At(c, i, p, r), At(c, i, q, s)
        PROVE  p = q /\ r = s
    <3>1. At(a, i, p, r) /\ At(a, i, q, s)
      BY <1>3, <1>7, <2>2, Zenon DEF Never
    <3>2. QED
      BY <1>7, <3>1, Zenon DEF Once
  <2>3. QED
    BY <2>1, <2>2, Zenon DEF Once
<1>8. ASSUME Never(a, i), Once(b, i)
      PROVE  Once(c, i)
  <2>1. \E p, r : At(c, i, p, r)
    BY <1>5, <1>8, Zenon DEF Once
  <2>2. ASSUME NEW p, NEW r, NEW q, NEW s, At(c, i, p, r), At(c, i, q, s)
        PROVE  p = q /\ r = s
    <3>1. At(b, i, p - m, r) /\ At(b, i, q - m, s) /\ p \in Int /\ q \in Int
      BY <1>3, <1>8, <2>2, Zenon DEF Never
    <3>2. p - m = q - m /\ r = s
      BY <1>8, <3>1, Zenon DEF Once
    <3>3. QED
      BY <1>1, <3>1, <3>2
  <2>3. QED
    BY <2>1, <2>2, Zenon DEF Once
<1>9. QED
  BY <1>1, <1>6, <1>7, <1>8, Zenon DEF c

(* The plans of a scan hold each of its entries at one place.                *)
LEMMA BatchesHold ==
  ASSUME NEW cfg \in Configs, NEW v \in Scanned(cfg), NEW size \in Nat
  PROVE  /\ Batches(v, size) \in Seq(Batch(Len(v.entries)))
         /\ \A i \in 1 .. Len(v.entries) : Once(Batches(v, size), i)
<1> DEFINE N == Len(v.buckets)
           M == Len(v.entries)
           z == Larger(size, 1)
           In(n) == {i \in DOMAIN v.entries : v.entries[i].bucket = n}
           C(n) == Chunks(Ascending(In(n)), z)
           IsFirst(f) == f = [n \in 0 .. N |-> IF n = 0 THEN <<>> ELSE f[n - 1] \o C(n)]
           h == CHOOSE f : IsFirst(f)
           V == Seq(Batch(M))
           next == [i \in 1 .. N |-> [w \in V |-> w \o C(i)]]
           D(i) == v.entries[i].bucket
<1>1. Batches(v, size) = h[N]
  BY Zenon DEF Batches
<1>2. z \in Nat \ {0}
  BY DEF Larger
<1>3. v.buckets \in Seq(Boxes) /\ v.entries \in Seq(Entry) /\ \A k \in 1 .. M : D(k) <= N
  <2>1. v.buckets \in Seq(Boxes) /\ v.entries \in Seq(Entry)
    BY ScannedIff
  <2>2. \A k \in 1 .. M : Entered(cfg, v, k)
    BY ScannedIff
  <2>3. QED
    BY <2>1, <2>2, Zenon DEF Entered
<1>4. N \in Nat /\ M \in Nat /\ DOMAIN v.entries = 1 .. M
  BY <1>3
<1>5. \A k \in 1 .. M : D(k) \in 1 .. N
  <2>1. \A k \in 1 .. M : v.entries[k] \in Entry
    BY <1>3
  <2>2. \A k \in 1 .. M : D(k) \in Nat \ {0}
    BY <2>1 DEF Entry
  <2>3. QED
    BY <1>3, <1>4, <2>2
<1>6. \A n : In(n) \in SUBSET (1 .. M) /\ \A i \in 1 .. M : i \in In(n) <=> D(i) = n
  BY <1>4, Zenon
<1> HIDE DEF N, M, z, In, D
<1>7. ASSUME NEW n
      PROVE  /\ C(n) \in V
             /\ \A i \in 1 .. M : IF D(i) = n THEN Once(C(n), i) ELSE Never(C(n), i)
  BY <1>2, <1>4, <1>6, ChunksHold, Zenon
<1> HIDE DEF C
<1>8. ASSUME NEW i \in 1 .. N, NEW w \in V
      PROVE  w \o C(i) \in V
  BY <1>7, ConcatProperties, Zenon
<1>9. \A i \in 1 .. N : next[i] \in [V -> V]
  BY <1>8, Zenon
<1>10. \A i \in 1 .. N : \A w \in V : next[i][w] = w \o C(i)
  BY Zenon
<1>11. <<>> \in V
  BY EmptySeq, Zenon
<1> HIDE DEF next
<1>12. PICK f : Iterates(f, V, <<>>, N, next)
  <2> HIDE DEF V
  <2>1. QED
    BY <1>4, <1>9, <1>11, Iteration, Zenon
<1>13. ASSUME NEW n \in 0 .. N
       PROVE  f[n] = IF n = 0 THEN <<>> ELSE f[n - 1] \o C(n)
  <2>1. n # 0 => n \in 1 .. N /\ n - 1 \in 0 .. N
    BY <1>4
  <2>2. QED
    BY <1>10, <1>12, <2>1, Zenon DEF Iterates
<1>14. IsFirst(f)
  BY <1>12, <1>13, Zenon DEF Iterates
<1>15. IsFirst(h)
  BY <1>14, Zenon
<1>16. \A n \in 0 .. N : h[n] = IF n = 0 THEN <<>> ELSE h[n - 1] \o C(n)
  BY <1>15, Zenon
<1> HIDE DEF h, IsFirst
<1> DEFINE Holds(w, n) == \A i \in 1 .. M : IF D(i) <= n THEN Once(w, i) ELSE Never(w, i)
           T == {n \in 0 .. N : h[n] \in V /\ Holds(h[n], n)}
<1>17. 0 \in T
  <2>1. 0 \in 0 .. N
    BY <1>4
  <2>2. h[0] = <<>>
    BY <1>16, <2>1
  <2>3. \A i : Never(<<>>, i)
    <3>1. 1 .. Len(<<>>) = {}
      OBVIOUS
    <3>2. QED
      BY <3>1, Zenon DEF Never, At
  <2>4. \A i \in 1 .. M : ~(D(i) <= 0)
    BY <1>4, <1>5
  <2>5. Holds(h[0], 0)
    BY <2>2, <2>3, <2>4, Zenon
  <2> HIDE DEF V, Holds
  <2>6. QED
    BY <1>11, <2>1, <2>2, <2>5
<1>18. ASSUME NEW n \in 1 .. N, n - 1 \in T
       PROVE  n \in T
  <2>1. n \in 0 .. N /\ n # 0
    BY <1>4
  <2>2. h[n] = h[n - 1] \o C(n)
    BY <1>16, <2>1, Zenon
  <2>3. h[n - 1] \in V /\ Holds(h[n - 1], n - 1)
    BY <1>18, Zenon
  <2>4. h[n] \in V
    BY <1>8, <2>2, <2>3, Zenon
  <2>5. ASSUME NEW i \in 1 .. M
        PROVE  IF D(i) <= n THEN Once(h[n], i) ELSE Never(h[n], i)
    <3>1. D(i) <= n <=> D(i) <= n - 1 \/ D(i) = n
      BY <1>4, <1>5
    <3>2. ~(D(i) = n /\ D(i) <= n - 1)
      BY <1>4, <1>5
    <3>3. IF D(i) <= n - 1 THEN Once(h[n - 1], i) ELSE Never(h[n - 1], i)
      BY <2>3, Zenon
    <3>4. IF D(i) = n THEN Once(C(n), i) ELSE Never(C(n), i)
      BY <1>7, Zenon
    <3>5. C(n) \in V
      BY <1>7, Zenon
    <3> DEFINE a == h[n - 1]
               b == C(n)
    <3>6. /\ Never(a, i) /\ Never(b, i) => Never(a \o b, i)
          /\ Once(a, i) /\ Never(b, i) => Once(a \o b, i)
          /\ Never(a, i) /\ Once(b, i) => Once(a \o b, i)
      BY <2>3, <3>5, Joined, Zenon
    <3>7. QED
      BY <2>2, <3>1, <3>2, <3>3, <3>4, <3>6, Zenon
  <2>6. Holds(h[n], n)
    BY <2>5, Zenon
  <2> HIDE DEF V, Holds
  <2>7. QED
    BY <2>1, <2>4, <2>6
<1> HIDE DEF T
<1>19. 0 .. N \subseteq T
  BY <1>4, <1>17, <1>18, Climb
<1>20. N \in T
  BY <1>4, <1>19
<1>21. h[N] \in V /\ Holds(h[N], N)
  BY <1>20, Zenon DEF T
<1>22. \A i \in 1 .. M : D(i) <= N
  BY <1>4, <1>5
<1>23. QED
  BY <1>1, <1>21, <1>22, Zenon DEF M

-----------------------------------------------------------------------------
(* What a folder is trained as *)

ScanOf(cfg, fld) == Scan(cfg, Ascending(fld))

PlansOf(cfg, fld) == Batches(ScanOf(cfg, fld), cfg.batchSize)

\* What step s of a run that is never stopped consumes.
Due(cfg, fld, s) ==
  LET scan == ScanOf(cfg, fld)
      plan == PlansOf(cfg, fld)[((s - 1) % Len(PlansOf(cfg, fld))) + 1]
      drop(row) == cfg.dropout = "all" \/ (cfg.dropout = "some" /\ <<s, row>> \in Drawn)
  IN [rows |-> [row \in DOMAIN plan |->
                  [image   |-> scan.entries[plan[row]].image,
                   box     |-> scan.buckets[scan.entries[plan[row]].bucket],
                   caption |-> IF drop(row) THEN "empty" ELSE "own"]],
      rate |-> LrAt(cfg.schedule, BaseLr, s, Steps)]

LEMMA FolderShape ==
  ASSUME NEW fld \in Folders
  PROVE  fld \in SUBSET Images /\ fld \in SUBSET Nat /\ IsFiniteSet(fld) /\ Cardinality(fld) \in Nat
<1>1. fld \in SUBSET Images
  BY StepPlanAssumption DEF Images
<1>2. IsFiniteSet(Images) /\ Images \subseteq Nat
  <2>1. PICK n \in Nat : Images = 1 .. n
    BY ImageBoxes
  <2>2. QED
    BY <2>1, FS_Interval
<1>3. IsFiniteSet(fld)
  BY <1>1, <1>2, FS_Subset, Zenon
<1>4. QED
  BY <1>1, <1>2, <1>3, FS_CardinalityType, Zenon

(* However the folder is listed, it is scanned in one order.                 *)
LEMMA ListingSorted ==
  ASSUME NEW fld \in Folders, NEW listing \in SetToSeqs(fld)
  PROVE  Sorted(listing) = Ascending(fld)
<1> DEFINE D == 1 .. Cardinality(fld)
<1>1. listing \in [D -> fld] /\ \A i, j \in D : i # j => listing[i] # listing[j]
  BY Zenon DEF SetToSeqs
<1>2. listing \in Injection(D, fld)
  BY <1>1, Zenon DEF Injection, IsInjective
<1>3. IsFiniteSet(fld) /\ Cardinality(D) = Cardinality(fld)
  BY FolderShape, FS_Interval
<1>4. listing \in Surjection(D, fld)
  BY <1>2, <1>3, FS_Injection
<1>5. \A x \in fld : \E i \in D : listing[i] = x
  BY <1>4, Zenon DEF Surjection
<1>6. ToSet(listing) = fld
  BY <1>1, <1>5, ZenonT(60) DEF ToSet
<1>7. QED
  BY <1>6, Zenon DEF Sorted

(* A folder's entries are its images, in order, and its plans hold each.     *)
LEMMA FolderPlanned ==
  ASSUME NEW cfg \in Configs, ~BucketSetRefused(cfg), NEW fld \in Folders
  PROVE  /\ Len(ScanOf(cfg, fld).entries) = Cardinality(fld)
         /\ \A n \in 1 .. Cardinality(fld) : ScanOf(cfg, fld).entries[n].image = Ascending(fld)[n]
         /\ PlansOf(cfg, fld) \in Seq(Batch(Cardinality(fld)))
         /\ \A n \in 1 .. Cardinality(fld) : Once(PlansOf(cfg, fld), n)
<1> DEFINE order == Ascending(fld)
           N == Cardinality(fld)
           scan == ScanOf(cfg, fld)
<1>1. order \in [1 .. N -> fld] /\ N \in Nat /\ fld \subseteq Images
  BY FolderShape, AscendingCounts
<1> HIDE DEF order, N
<1>2. order \in Seq(Images) /\ Len(order) = N
  <2>1. order \in [1 .. N -> Images]
    BY <1>1
  <2>2. QED
    BY <1>1, <2>1
<1>3. scan \in Scanned(cfg) /\ EntriesAre(scan, order, N)
  BY <1>2, ScanType, Zenon DEF ScanOf, order
<1>4. cfg.batchSize \in Nat
  BY StepPlanAssumption
<1>5. Len(scan.entries) = N /\ \A k \in 1 .. N : scan.entries[k].image = order[k]
  BY <1>3, Zenon DEF EntriesAre
<1>6. /\ PlansOf(cfg, fld) \in Seq(Batch(Len(scan.entries)))
      /\ \A i \in 1 .. Len(scan.entries) : Once(PlansOf(cfg, fld), i)
  BY <1>3, <1>4, BatchesHold, Zenon DEF PlansOf
<1>7. QED
  BY <1>5, <1>6, Zenon DEF order, N

-----------------------------------------------------------------------------
(* The run *)

(* A process holds the plans of its configuration and its folder, and a step *)
(* has only ever consumed what is due at it.                                 *)
PlanInv ==
  /\ config \in Configs
  /\ folder \in Folders
  /\ saved \in 0 .. Steps
  /\ pc = "stepping" => /\ ~Refused
                        /\ step \in 1 .. Steps + 1
                        /\ buckets = ScanOf(config, folder).buckets
                        /\ entries = ScanOf(config, folder).entries
                        /\ plans = PlansOf(config, folder)
  /\ DOMAIN seen = 1 .. Steps
  /\ \A s \in 1 .. Steps : /\ seen[s] \subseteq {Due(config, folder, s)}
                           /\ seen[s] # {} => ~Refused

LEMMA StepsType == Steps \in Nat
BY StepPlanAssumption

LEMMA PlanInvInit == Init => PlanInv
<1> SUFFICES ASSUME Init
             PROVE  PlanInv
  OBVIOUS
<1>1. 0 \in 0 .. Steps
  BY StepsType
<1>2. \A s \in 1 .. Steps : seen[s] = {}
  BY Zenon DEF Init
<1>3. pc = "idle" /\ config \in Configs /\ folder \in Folders /\ saved = 0 /\ DOMAIN seen = 1 .. Steps
  BY Zenon DEF Init
<1>4. QED
  BY <1>1, <1>2, <1>3 DEF PlanInv

LEMMA PlanInvKept ==
  ASSUME PlanInv, UNCHANGED <<config, folder, seen>>, saved' = saved, pc' # "stepping"
  PROVE  PlanInv'
<1>1. Refused' = Refused
  BY Zenon DEF Refused
<1>2. QED
  BY <1>1, Zenon DEF PlanInv

LEMMA PlanInvLaunch == PlanInv /\ Launch => PlanInv'
<1> SUFFICES ASSUME PlanInv, Launch
             PROVE  PlanInv'
  OBVIOUS
<1>1. /\ ~Refused /\ pc' = "stepping" /\ step' = saved + 1
      /\ UNCHANGED <<config, folder, saved, seen>>
  BY Zenon DEF Launch
<1>2. PICK listing \in SetToSeqs(folder) :
        /\ buckets' = ScanDataset(listing).buckets
        /\ entries' = ScanDataset(listing).entries
        /\ plans' = Batches(ScanDataset(listing), config.batchSize)
  BY Zenon DEF Launch
<1>3. folder \in Folders /\ saved \in 0 .. Steps
  BY Zenon DEF PlanInv
<1>4. ScanDataset(listing) = ScanOf(config, folder)
  BY <1>2, <1>3, ListingSorted, Zenon DEF ScanDataset, ScanOf
<1>5. plans' = PlansOf(config, folder)
  BY <1>2, <1>4, Zenon DEF PlansOf
<1>6. step' \in 1 .. Steps + 1
  BY <1>1, <1>3, StepsType
<1>7. Refused' = Refused
  BY <1>1, Zenon DEF Refused
<1>8. QED
  BY <1>1, <1>2, <1>4, <1>5, <1>6, <1>7, Zenon DEF PlanInv

LEMMA PlanInvStep == PlanInv /\ Step => PlanInv'
<1> SUFFICES ASSUME PlanInv, Step
             PROVE  PlanInv'
  OBVIOUS
<1>1. /\ pc = "stepping" /\ pc' = pc /\ step <= Steps /\ step' = step + 1
      /\ UNCHANGED <<config, folder, buckets, entries, plans>>
      /\ saved' = IF step % Every = 0 \/ step = Steps THEN step ELSE saved
      /\ seen' = [seen EXCEPT ![step] = @ \cup {Consumed(step)}]
  BY Zenon DEF Step
<1>2. /\ ~Refused /\ step \in 1 .. Steps + 1 /\ saved \in 0 .. Steps
      /\ buckets = ScanOf(config, folder).buckets
      /\ entries = ScanOf(config, folder).entries
      /\ plans = PlansOf(config, folder)
      /\ DOMAIN seen = 1 .. Steps
      /\ \A s \in 1 .. Steps : seen[s] \subseteq {Due(config, folder, s)} /\ (seen[s] # {} => ~Refused)
  BY <1>1, Zenon DEF PlanInv
<1>3. step \in 1 .. Steps /\ step' \in 1 .. Steps + 1
  BY <1>1, <1>2, StepsType
<1>4. saved' \in 0 .. Steps
  BY <1>1, <1>2, <1>3
<1>5. Consumed(step) = Due(config, folder, step)
  BY <1>2, Zenon DEF Consumed, Due, Dropped, Cursor
<1>6. \A s \in 1 .. Steps : seen'[s] = IF s = step THEN seen[s] \cup {Consumed(step)} ELSE seen[s]
  BY <1>1, <1>2, Zenon
<1>7. DOMAIN seen' = 1 .. Steps
  BY <1>1, <1>2, Zenon
<1>8. Refused' = Refused
  BY <1>1, Zenon DEF Refused
<1>9. \A s \in 1 .. Steps : seen'[s] \subseteq {Due(config, folder, s)}
  BY <1>2, <1>5, <1>6, Zenon
<1>10. QED
  BY <1>1, <1>2, <1>3, <1>4, <1>7, <1>8, <1>9, Zenon DEF PlanInv

LEMMA PlanInvNext == PlanInv /\ [Next]_vars => PlanInv'
<1> SUFFICES ASSUME PlanInv, [Next]_vars
             PROVE  PlanInv'
  OBVIOUS
<1>1. CASE Refuse
  BY <1>1, PlanInvKept DEF Refuse
<1>2. CASE Launch
  BY <1>2, PlanInvLaunch
<1>3. CASE Step
  BY <1>3, PlanInvStep
<1>4. CASE Stop
  BY <1>4, PlanInvKept DEF Stop
<1>5. CASE Finish
  BY <1>5, PlanInvKept DEF Finish
<1>6. CASE UNCHANGED vars
  <2>1. Refused' = Refused
    BY <1>6, Zenon DEF Refused, vars
  <2>2. QED
    BY <1>6, <2>1, Zenon DEF PlanInv, vars, process
<1>7. QED
  BY <1>1, <1>2, <1>3, <1>4, <1>5, <1>6, Zenon DEF Next

(* A process holds the plans of its configuration and folder alone, and a    *)
(* step has consumed nothing but what a run that is never stopped would      *)
(* consume at it (scan_dataset, batches, run_training).                      *)
THEOREM PlanInvariant == Spec => []PlanInv
<1>1. Init => PlanInv
  BY PlanInvInit
<1>2. PlanInv /\ [Next]_vars => PlanInv'
  BY PlanInvNext
<1>3. QED
  BY <1>1, <1>2, PTL DEF Spec

(* A resumed run trains on what an uninterrupted one would have, whatever the *)
(* launches and however the folder is listed (scan_dataset, choose, lr_at).  *)
THEOREM ResumeUnsplit == Spec => []ResumeIsUnsplit
<1>1. PlanInv => ResumeIsUnsplit
  <2> SUFFICES ASSUME PlanInv, NEW s \in 1 .. Steps
               PROVE  Cardinality(seen[s]) <= 1
    BY DEF ResumeIsUnsplit
  <2> DEFINE one == {Due(config, folder, s)}
  <2>1. seen[s] \in SUBSET one
    BY Zenon DEF PlanInv
  <2>2. IsFiniteSet(one) /\ Cardinality(one) = 1
    BY FS_Singleton, Zenon
  <2>3. Cardinality(seen[s]) <= Cardinality(one)
    BY <2>1, <2>2, FS_Subset, Zenon
  <2>4. QED
    BY <2>2, <2>3, Zenon
<1>2. QED
  BY <1>1, PlanInvariant, PTL

-----------------------------------------------------------------------------
(* A pass of the plans *)

LEMMA CursorOfPass ==
  ASSUME NEW P \in Nat \ {0}, NEW a \in Nat, NEW p \in 1 .. P
  PROVE  (((a * P + p) - 1) % P) + 1 = p
<1> DEFINE x == (a * P + p) - 1
           c == x \div P
           r == (x % P) + 1
<1>1. a * P \in Nat
  OBVIOUS
<1>2. x \in Nat
  BY <1>1
<1> HIDE DEF x
<1>3. c \in Nat /\ r \in 1 .. P /\ x = c * P + (x % P)
  <2>1. x \div P \in Nat /\ x % P \in 0 .. P - 1
    BY <1>2
  <2>2. x = (x \div P) * P + (x % P)
    BY <1>2, Z3
  <2>3. QED
    BY <2>1, <2>2
<1>4. x + 1 = a * P + p
  BY <1>1 DEF x
<1>5. c * P \in Nat /\ x % P \in Int
  BY <1>2, <1>3
<1> HIDE DEF c
<1>6. c * P + r = x + 1
  <2>1. PICK y \in Nat : y = c * P
    BY <1>5
  <2>2. x = y + (x % P)
    BY <1>3, <2>1
  <2>3. y + ((x % P) + 1) = x + 1
    BY <1>2, <1>5, <2>1, <2>2
  <2>4. QED
    BY <2>1, <2>3
<1>7. c * P + r = a * P + p
  BY <1>4, <1>6
<1> HIDE DEF r
<1>8. r = p
  <2>1. c \in Nat /\ r \in 1 .. P
    BY <1>3, Zenon
  <2>2. \A d \in Nat : \A s \in 1 .. P : c * P + r = d * P + s => c = d /\ r = s
    BY <2>1, DivisionUnique
  <2>3. c = a /\ r = p
    BY <1>7, <2>2, Zenon
  <2>4. QED
    BY <2>3, Zenon
<1>9. (x % P) + 1 = p
  BY <1>8, Zenon DEF r
<1>10. QED
  BY <1>9, Zenon DEF x

(* The steps at which an image has been trained on, of those in one pass.    *)
Trainings(during, image) ==
  {at \in during \X (1 .. Len(entries)) :
     \E c \in seen[at[1]] :
       at[2] \in DOMAIN c.rows /\ c.rows[at[2]].image = image}

LEMMA TrainedOnce ==
  ASSUME PlanInv, pc = "stepping",
         NEW pass \in Nat, NEW image \in folder,
         LET during == pass * Len(plans) + 1 .. (pass + 1) * Len(plans)
         IN during \subseteq DOMAIN seen /\ \A s \in during : seen[s] # {}
  PROVE  LET during == pass * Len(plans) + 1 .. (pass + 1) * Len(plans)
         IN Cardinality(Trainings(during, image)) = 1
<1> DEFINE P == Len(plans)
           N == Cardinality(folder)
           order == Ascending(folder)
           from == pass * P
           during == from + 1 .. (pass + 1) * P
<1>1. /\ config \in Configs /\ folder \in Folders /\ ~Refused
      /\ entries = ScanOf(config, folder).entries
      /\ plans = PlansOf(config, folder)
      /\ DOMAIN seen = 1 .. Steps
      /\ \A s \in 1 .. Steps : seen[s] \subseteq {Due(config, folder, s)}
  BY Zenon DEF PlanInv
<1>2. ~BucketSetRefused(config)
  BY <1>1, Zenon DEF Refused
<1>3. /\ Len(entries) = N
      /\ \A n \in 1 .. N : entries[n].image = order[n]
      /\ plans \in Seq(Batch(N))
      /\ \A n \in 1 .. N : Once(plans, n)
  BY <1>1, <1>2, FolderPlanned, Zenon
<1>4. /\ order \in [1 .. N -> folder] /\ N \in Nat
      /\ \A i \in folder : \E n \in 1 .. N : order[n] = i
      /\ \A m, n \in 1 .. N : order[m] = order[n] => m = n
  BY <1>1, FolderShape, AscendingCounts, Zenon
<1>5. PICK n \in 1 .. N : order[n] = image
  BY <1>4, Zenon
<1>6. PICK p, r : At(plans, n, p, r)
  BY <1>3, Zenon DEF Once
<1>7. P \in Nat /\ p \in 1 .. P /\ r \in 1 .. Len(plans[p]) /\ plans[p][r] = n
  <2>1. P \in Nat
    BY <1>3
  <2>2. QED
    BY <1>6, <2>1, Zenon DEF At
<1>8. P \in Nat \ {0}
  BY <1>7
<1>9. from \in Nat /\ (pass + 1) * P = from + P
  BY <1>8, Z3
<1>10. during \subseteq 1 .. Steps /\ \A s \in during : seen[s] # {}
  BY <1>1
<1>11. \A q \in 1 .. P : (((from + q) - 1) % P) + 1 = q
  BY <1>8, CursorOfPass
<1>12. \A q \in 1 .. P : plans[q] \in Batch(N)
  BY <1>3
<1> HIDE DEF P, from, N, order
<1>13. ASSUME NEW q \in 1 .. P
       PROVE  /\ from + q \in during
              /\ seen[from + q] = {Due(config, folder, from + q)}
              /\ DOMAIN Due(config, folder, from + q).rows = 1 .. Len(plans[q])
              /\ \A s \in 1 .. Len(plans[q]) :
                   Due(config, folder, from + q).rows[s].image = entries[plans[q][s]].image
  <2>1. from + q \in during
    BY <1>8, <1>9
  <2>2. seen[from + q] \subseteq {Due(config, folder, from + q)} /\ seen[from + q] # {}
    BY <1>1, <1>10, <2>1, Zenon
  <2>3. seen[from + q] = {Due(config, folder, from + q)}
    BY <2>2, Zenon
  <2>4. DOMAIN plans[q] = 1 .. Len(plans[q])
    BY <1>12 DEF Batch
  <2>5. plans[(((from + q) - 1) % Len(plans)) + 1] = plans[q]
    BY <1>11, Zenon DEF P
  <2> DEFINE k == (((from + q) - 1) % Len(PlansOf(config, folder))) + 1
  <2>6. PlansOf(config, folder)[k] = plans[q]
    BY <1>1, <2>5, Zenon
  <2> DEFINE rows == Due(config, folder, from + q).rows
             drop(row) == \/ config.dropout = "all"
                          \/ config.dropout = "some" /\ <<from + q, row>> \in Drawn
  <2>7. rows = [row \in DOMAIN PlansOf(config, folder)[k] |->
                  [image |-> ScanOf(config, folder).entries[PlansOf(config, folder)[k][row]].image,
                   box |-> ScanOf(config, folder).buckets[ScanOf(config, folder).entries[PlansOf(config, folder)[k][row]].bucket],
                   caption |-> IF drop(row) THEN "empty" ELSE "own"]]
    BY Zenon DEF Due
  <2> HIDE DEF rows, k
  <2>8. DOMAIN rows = DOMAIN plans[q]
    BY <2>6, <2>7, Zenon
  <2>9. \A s \in DOMAIN plans[q] : rows[s].image = entries[plans[q][s]].image
    BY <1>1, <2>6, <2>7
  <2>10. QED
    BY <2>1, <2>3, <2>4, <2>8, <2>9, Zenon DEF rows
<1>14. ASSUME NEW s \in during
       PROVE  \E q \in 1 .. P : s = from + q
  <2>1. s - from \in 1 .. P /\ s = from + (s - from)
    BY <1>8, <1>9
  <2>2. QED
    BY <2>1
<1>15. ASSUME NEW q \in 1 .. P, NEW u \in 1 .. Len(plans[q])
       PROVE  u \in 1 .. N /\ plans[q][u] \in 1 .. N
  <2>1. plans[q] \in Seq(1 .. N) /\ Len(plans[q]) <= N
    BY <1>12 DEF Batch
  <2>2. QED
    BY <1>4, <2>1
<1> DEFINE here == <<from + p, r>>
<1>16. here \in Trainings(during, image)
  <2>1. here \in during \X (1 .. Len(entries))
    BY <1>3, <1>7, <1>13, <1>15, Zenon
  <2>2. here[1] = from + p /\ here[2] = r
    OBVIOUS
  <2>3. Due(config, folder, from + p).rows[r].image = image
    BY <1>3, <1>5, <1>7, <1>13, Zenon
  <2> DEFINE due == Due(config, folder, from + p)
  <2>4. due \in seen[from + p] /\ r \in DOMAIN due.rows
    BY <1>7, <1>13, Zenon
  <2> HIDE DEF here, due, during
  <2>5. QED
    BY <2>1, <2>2, <2>3, <2>4, Zenon DEF Trainings, due
<1>17. ASSUME NEW at \in Trainings(during, image)
       PROVE  at = here
  <2>1. /\ at \in during \X (1 .. Len(entries))
        /\ \E c \in seen[at[1]] : at[2] \in DOMAIN c.rows /\ c.rows[at[2]].image = image
    BY Zenon DEF Trainings
  <2>2. PICK s \in during, u \in 1 .. Len(entries) : at = <<s, u>>
    BY <2>1
  <2>3. \E c \in seen[s] : u \in DOMAIN c.rows /\ c.rows[u].image = image
    BY <2>1, <2>2
  <2>4. PICK q \in 1 .. P : s = from + q
    BY <1>14, Zenon
  <2>5. u \in 1 .. Len(plans[q]) /\ entries[plans[q][u]].image = image
    <3> DEFINE due == Due(config, folder, from + q)
    <3>1. seen[s] = {due} /\ DOMAIN due.rows = 1 .. Len(plans[q])
      BY <1>13, <2>4, Zenon
    <3>2. \A x \in 1 .. Len(plans[q]) : due.rows[x].image = entries[plans[q][x]].image
      BY <1>13, Zenon
    <3> HIDE DEF due
    <3>3. u \in DOMAIN due.rows /\ due.rows[u].image = image
      BY <2>3, <3>1, Zenon
    <3>4. QED
      BY <3>1, <3>2, <3>3, Zenon
  <2>6. plans[q][u] \in 1 .. N
    BY <1>15, <2>5, Zenon
  <2>7. plans[q][u] = n
    <3>1. entries[plans[q][u]].image = order[plans[q][u]]
      BY <1>3, <2>6, Zenon
    <3>2. order[plans[q][u]] = order[n]
      BY <1>5, <2>5, <3>1, Zenon
    <3>3. QED
      BY <1>4, <2>6, <3>2, Zenon
  <2>8. At(plans, n, q, u)
    BY <2>5, <2>7, Zenon DEF At, P
  <2>9. q = p /\ u = r
    BY <1>3, <1>6, <2>8, Zenon DEF Once
  <2>10. QED
    BY <2>2, <2>4, <2>9, Zenon
<1> HIDE DEF here, during
<1>18. Trainings(during, image) = {here}
  BY <1>16, <1>17, Zenon
<1>19. Cardinality(Trainings(during, image)) = 1
  BY <1>18, FS_Singleton, Zenon
<1>20. QED
  BY <1>19, Zenon DEF during, from, P

LEMMA SomethingPlanned ==
  ASSUME PlanInv, pc = "stepping"
  PROVE  plans # <<>>
<1>1. /\ config \in Configs /\ folder \in Folders /\ ~Refused
      /\ plans = PlansOf(config, folder)
  BY Zenon DEF PlanInv
<1>2. ~BucketSetRefused(config) /\ folder # {}
  BY <1>1, Zenon DEF Refused
<1>3. Cardinality(folder) \in Nat /\ Cardinality(folder) # 0
  BY <1>1, <1>2, FolderShape, FS_EmptySet, Zenon
<1>4. 1 \in 1 .. Cardinality(folder)
  BY <1>3
<1>5. Once(plans, 1)
  BY <1>1, <1>2, <1>4, FolderPlanned, Zenon
<1>6. PICK p, r : At(plans, 1, p, r)
  BY <1>5, Zenon DEF Once
<1>7. 1 .. Len(<<>>) = {}
  OBVIOUS
<1>8. QED
  BY <1>6, <1>7, Zenon DEF At

(* Over each pass of the plans every image is trained on exactly once,       *)
(* across restarts too, and there is something to train on (batches).        *)
THEOREM ImageOncePerPass == Spec => []EveryImageOncePerPass
<1>1. PlanInv => EveryImageOncePerPass
  <2> SUFFICES ASSUME PlanInv, pc = "stepping"
               PROVE  /\ plans # <<>>
                      /\ \A pass \in 0 .. Steps \div Len(plans) :
                           LET during == pass * Len(plans) + 1 .. (pass + 1) * Len(plans)
                           IN during \subseteq DOMAIN seen /\ (\A s \in during : seen[s] # {}) =>
                                \A image \in folder : Cardinality(Trainings(during, image)) = 1
    BY Zenon DEF EveryImageOncePerPass, Trainings
  <2>1. \A pass \in 0 .. Steps \div Len(plans) : pass \in Nat
    OBVIOUS
  <2>2. QED
    BY <2>1, SomethingPlanned, TrainedOnce, Zenon
<1>2. QED
  BY <1>1, PlanInvariant, PTL

-----------------------------------------------------------------------------
(* Frames *)

(* An image that was scanned is cropped from a frame that covers its box.    *)
FrameFits(cfg, box, image) ==
  /\ box.width <= Resized(box, image).width /\ box.height <= Resized(box, image).height
  /\ CropOrigin(box, image)[1] + box.width <= Resized(box, image).width
  /\ CropOrigin(box, image)[2] + box.height <= Resized(box, image).height
  /\ Suits(cfg, box, image)

LEMMA ScannedFits ==
  ASSUME NEW cfg, NEW v \in Scanned(cfg), NEW e \in ToSet(v.entries)
  PROVE  FrameFits(cfg, v.buckets[e.bucket], Size[e.image])
<1>1. v.buckets \in Seq(Boxes) /\ v.entries \in Seq(Entry)
  BY ScannedIff
<1>2. PICK k \in 1 .. Len(v.entries) : e = v.entries[k]
  BY <1>1 DEF ToSet
<1>3. e \in Entry
  BY <1>1, <1>2
<1>4. Entered(cfg, v, k)
  BY ScannedIff
<1>5. e.bucket \in 1 .. Len(v.buckets) /\ Suits(cfg, v.buckets[e.bucket], Size[e.image])
  <2>1. e.bucket <= Len(v.buckets) /\ Suits(cfg, v.buckets[e.bucket], Size[e.image])
    BY <1>2, <1>4, Zenon DEF Entered
  <2>2. e.bucket \in Nat \ {0} /\ Len(v.buckets) \in Nat
    BY <1>1, <1>3 DEF Entry
  <2>3. QED
    BY <2>1, <2>2
<1>6. v.buckets[e.bucket] \in Boxes
  BY <1>1, <1>5
<1>7. Size[e.image] \in Boxes
  BY <1>3, ImageBoxes DEF Entry
<1> DEFINE box == v.buckets[e.bucket]
           image == Size[e.image]
<1> HIDE DEF box, image
<1>8. box \in Boxes /\ image \in Boxes /\ Suits(cfg, box, image)
  BY <1>5, <1>6, <1>7 DEF box, image
<1>9. FrameFits(cfg, box, image)
  BY <1>8, CropInside, Zenon DEF FrameFits
<1>10. QED
  BY <1>9 DEF box, image

(* A process that is not stepping has no entries.                            *)
OnlyStepping == pc # "stepping" => entries = <<>>

LEMMA ScanHeld ==
  ASSUME NEW cfg \in Configs, ~BucketSetRefused(cfg), NEW fld \in Folders
  PROVE  ScanOf(cfg, fld) \in Scanned(cfg)
<1> DEFINE order == Ascending(fld)
           N == Cardinality(fld)
<1>1. order \in [1 .. N -> fld] /\ N \in Nat /\ fld \subseteq Images
  BY FolderShape, AscendingCounts
<1> HIDE DEF order, N
<1>2. order \in Seq(Images)
  <2>1. order \in [1 .. N -> Images]
    BY <1>1
  <2>2. QED
    BY <1>1, <2>1
<1>3. QED
  BY <1>2, ScanType, Zenon DEF ScanOf, order

LEMMA FramesFitStepping ==
  ASSUME PlanInv, pc = "stepping"
  PROVE  FramesFit
<1>1. /\ config \in Configs /\ folder \in Folders /\ ~BucketSetRefused(config)
      /\ buckets = ScanOf(config, folder).buckets /\ entries = ScanOf(config, folder).entries
  BY Zenon DEF PlanInv, Refused
<1> DEFINE v == ScanOf(config, folder)
           G == Generated[config]
           boxes == {buckets[i] : i \in 1 .. Len(G)}
           side == Larger(config.resolution, Align)
<1>2. v \in Scanned(config)
  BY <1>1, ScanHeld
<1> HIDE DEF v
<1>3. \A k \in 1 .. Len(G) : buckets[k] = G[k]
  BY <1>1, <1>2, ScannedIff, Zenon DEF v
<1>4. boxes = BoxesIn(G)
  BY <1>3, Zenon DEF BoxesIn
<1>5. Serves(boxes, side)
  BY <1>1, <1>4, GeneratedServes, Zenon
<1>6. config.grid => \A b \in boxes : b.width * b.height <= config.resolution * config.resolution
                                      /\ b.width >= MinSide(config)
  BY <1>1, <1>4, GeneratedServes, Zenon
<1>7. BucketsServeEverySource
  <2> HIDE DEF boxes, side
  <2>1. /\ Box(side, side) \in boxes
        /\ \A b \in boxes : Box(b.height, b.width) \in boxes /\ b.width % Align = 0 /\ b.height % Align = 0
    BY <1>5, Zenon DEF Serves, Align
  <2>2. QED
    BY <1>6, <2>1, Zenon DEF BucketsServeEverySource, boxes, side, G
<1>8. ASSUME NEW e \in ToSet(entries)
      PROVE  FrameFits(config, buckets[e.bucket], Size[e.image])
  BY <1>1, <1>2, <1>8, ScannedFits, Zenon DEF v
<1>9. QED
  BY <1>7, <1>8, Zenon DEF FramesFit, FrameFits, Suits

(* An image's frame covers its box whatever the f64 quotients round to, the  *)
(* crop stays inside, no image of a grid step a side is enlarged under       *)
(* no_upscale, and the generated set holds the square and every transpose    *)
(* (generate_buckets, generate_grid_buckets, fit_bucket,                     *)
(* decode_image_for_bucket).                                                 *)
THEOREM FramesAlwaysFit == Spec => []FramesFit
<1>1. Init => PlanInv /\ OnlyStepping
  BY PlanInvInit, Zenon DEF Init, OnlyStepping
<1>2. PlanInv /\ OnlyStepping /\ [Next]_vars => (PlanInv /\ OnlyStepping)'
  <2> SUFFICES ASSUME PlanInv, OnlyStepping, [Next]_vars
               PROVE  OnlyStepping'
    BY PlanInvNext
  <2>1. CASE Refuse
    <3>1. pc = "idle" /\ entries' = entries
      BY <2>1, Zenon DEF Refuse, process
    <3>2. QED
      BY <3>1 DEF OnlyStepping
  <2>2. CASE Launch
    BY <2>2, Zenon DEF Launch, OnlyStepping
  <2>3. CASE Step
    BY <2>3, Zenon DEF Step, OnlyStepping
  <2>4. CASE Stop
    BY <2>4, Zenon DEF Stop, Forget, OnlyStepping
  <2>5. CASE Finish
    BY <2>5, Zenon DEF Finish, Forget, OnlyStepping
  <2>6. CASE UNCHANGED vars
    BY <2>6, Zenon DEF vars, process, OnlyStepping
  <2>7. QED
    BY <2>1, <2>2, <2>3, <2>4, <2>5, <2>6, Zenon DEF Next
<1>3. PlanInv /\ OnlyStepping => FramesFit
  <2> SUFFICES ASSUME PlanInv, OnlyStepping
               PROVE  FramesFit
    OBVIOUS
  <2>1. CASE pc = "stepping"
    BY <2>1, FramesFitStepping
  <2>2. CASE pc # "stepping"
    <3>1. entries = <<>>
      BY <2>2 DEF OnlyStepping
    <3>2. \A e \in ToSet(entries) : FALSE
      BY <3>1 DEF ToSet
    <3>3. BucketsServeEverySource
      BY <2>2, Zenon DEF BucketsServeEverySource
    <3>4. QED
      BY <3>2, <3>3, Zenon DEF FramesFit
  <2>3. QED
    BY <2>1, <2>2
<1>4. QED
  BY <1>1, <1>2, <1>3, PTL DEF Spec

-----------------------------------------------------------------------------
(* Quotients and powers *)

LEMMA QuotientGrows ==
  ASSUME NEW a \in Nat, NEW b \in Nat, NEW z \in Nat \ {0}, a <= b
  PROVE  a \div z \in Nat /\ b \div z \in Nat /\ a \div z <= b \div z
<1>1. a \div z \in Nat /\ b \div z \in Nat
  OBVIOUS
<1>2. a \div z <= b \div z
  BY Z3
<1>3. QED
  BY <1>1, <1>2

LEMMA QuotientOf ==
  ASSUME NEW a \in Nat, NEW z \in Nat \ {0}
  PROVE  (a * z) \div z = a
BY Z3

LEMMA QuotientShrinks ==
  ASSUME NEW a \in Nat, NEW y \in Nat \ {0}, NEW z \in Nat \ {0}, y <= z
  PROVE  a \div z <= a \div y
<1>1. PICK q \in Nat : q = a \div z
  OBVIOUS
<1>2. q * z <= a
  BY <1>1, Z3
<1>3. q * y <= q * z
  BY Z3
<1>4. q * y \in Nat /\ q * z \in Nat
  OBVIOUS
<1>5. q * y <= a
  BY <1>2, <1>3, <1>4
<1>6. (q * y) \div y <= a \div y
  BY <1>4, <1>5, QuotientGrows
<1>7. QED
  BY <1>1, <1>6, QuotientOf

(* f is the powers of g up to n.                                             *)
IsPower(f, g, n) == f = [k \in 0 .. n |-> IF k = 0 THEN 1 ELSE g * f[k - 1]]

LEMMA PowerExists ==
  ASSUME NEW g \in Nat, NEW n \in Nat
  PROVE  \E f : IsPower(f, g, n)
<1> DEFINE next == [i \in 1 .. n |-> [v \in Nat |-> g * v]]
<1>1. \A i \in 1 .. n : next[i] \in [Nat -> Nat]
  OBVIOUS
<1>2. \A i \in 1 .. n : \A v \in Nat : next[i][v] = g * v
  OBVIOUS
<1>3. 1 \in Nat
  OBVIOUS
<1> HIDE DEF next
<1>4. PICK f : Iterates(f, Nat, 1, n, next)
  BY <1>1, <1>3, Iteration, Zenon
<1>5. ASSUME NEW k \in 0 .. n
      PROVE  f[k] = IF k = 0 THEN 1 ELSE g * f[k - 1]
  <2>1. k # 0 => k \in 1 .. n /\ k - 1 \in 0 .. n
    OBVIOUS
  <2>2. QED
    BY <1>2, <1>4, <2>1, Zenon DEF Iterates
<1>6. IsPower(f, g, n)
  BY <1>4, <1>5, Zenon DEF Iterates, IsPower
<1>7. QED
  BY <1>6, Zenon

PowersTo(g, n) == CHOOSE f : IsPower(f, g, n)

LEMMA PowersToIs ==
  ASSUME NEW g \in Nat, NEW n \in Nat
  PROVE  /\ Power(g, n) = PowersTo(g, n)[n]
         /\ IsPower(PowersTo(g, n), g, n)
<1>1. \E f : IsPower(f, g, n)
  BY PowerExists
<1>2. IsPower(PowersTo(g, n), g, n)
  BY <1>1, Zenon DEF PowersTo
<1>3. Power(g, n) = PowersTo(g, n)[n]
  BY Zenon DEF Power, PowersTo, IsPower
<1>4. QED
  BY <1>2, <1>3

LEMMA PowersStep ==
  ASSUME NEW g \in Nat, NEW m \in Nat, NEW k \in Nat, m = k + 1
  PROVE  PowersTo(g, m)[m] = g * PowersTo(g, m)[k]
<1> DEFINE f == PowersTo(g, m)
<1>0. IsPower(f, g, m)
  BY PowersToIs
<1> HIDE DEF f
<1>1. \A i \in 0 .. m : f[i] = IF i = 0 THEN 1 ELSE g * f[i - 1]
  BY <1>0, Zenon DEF IsPower
<1>2. m \in 0 .. m /\ m # 0 /\ m - 1 = k
  OBVIOUS
<1>3. f[m] = g * f[m - 1]
  BY <1>1, <1>2, Zenon
<1>4. QED
  BY <1>2, <1>3, Zenon DEF f

LEMMA PowerIs ==
  ASSUME NEW g \in Nat, NEW n \in Nat
  PROVE  /\ Power(g, 0) = 1
         /\ Power(g, n + 1) = g * Power(g, n)
<1> DEFINE h(m) == PowersTo(g, m)
<1>1. \A m \in Nat : Power(g, m) = h(m)[m]
  BY PowersToIs
<1>2. \A m \in Nat : IsPower(h(m), g, m)
  BY PowersToIs
<1>3. \A m \in Nat : \A k \in 0 .. m : h(m)[k] = IF k = 0 THEN 1 ELSE g * h(m)[k - 1]
  BY <1>2, Zenon DEF IsPower
<1> HIDE DEF h
<1>4. 0 \in Nat /\ 0 \in 0 .. 0 /\ n + 1 \in Nat /\ n + 1 \in 0 .. n + 1 /\ n + 1 # 0 /\ (n + 1) - 1 = n
  OBVIOUS
<1>5. Power(g, 0) = 1
  BY <1>1, <1>3, <1>4, Zenon
<1> DEFINE T == {k \in 0 .. n : h(n)[k] = h(n + 1)[k]}
<1>6. 0 \in T
  <2>1. 0 \in 0 .. n /\ 0 \in 0 .. n + 1
    OBVIOUS
  <2>2. h(n)[0] = h(n + 1)[0]
    BY <1>3, <1>4, <2>1, Zenon
  <2>3. QED
    BY <2>1, <2>2
<1>7. ASSUME NEW i \in 1 .. n, i - 1 \in T
      PROVE  i \in T
  <2>1. i \in 0 .. n /\ i \in 0 .. n + 1 /\ i # 0
    OBVIOUS
  <2>2. h(n)[i] = h(n + 1)[i]
    BY <1>3, <1>4, <1>7, <2>1, Zenon
  <2>3. QED
    BY <2>1, <2>2
<1> HIDE DEF T
<1>8. 0 .. n \subseteq T
  BY <1>6, <1>7, Climb
<1>9. n \in T
  BY <1>8
<1>10. h(n)[n] = h(n + 1)[n]
  BY <1>9, Zenon DEF T
<1>11. h(n + 1)[n + 1] = g * h(n + 1)[n]
  <2>1. \A m \in Nat : m = n + 1 => PowersTo(g, m)[m] = g * PowersTo(g, m)[n]
    BY PowersStep, Zenon
  <2>2. QED
    BY <1>4, <2>1, Zenon DEF h
<1>12. Power(g, n + 1) = g * Power(g, n)
  <2>1. Power(g, n + 1) = h(n + 1)[n + 1]
    BY <1>1, <1>4, Zenon
  <2>2. Power(g, n) = h(n)[n]
    BY <1>1, Zenon
  <2>3. QED
    BY <2>1, <2>2, <1>10, <1>11, Zenon
<1>13. QED
  BY <1>5, <1>12, Zenon

LEMMA PowerType ==
  ASSUME NEW g \in Nat \ {0}, NEW n \in Nat
  PROVE  Power(g, n) \in Nat \ {0}
<1> DEFINE T == {m \in Nat : Power(g, m) \in Nat \ {0}}
<1>1. 0 \in T
  BY PowerIs
<1>2. ASSUME NEW m \in T, m \in Nat
      PROVE  m + 1 \in T
  <2>1. PICK x \in Nat \ {0} : x = Power(g, m)
    OBVIOUS
  <2>2. g * x \in Nat /\ g * x > 0
    BY Z3
  <2>3. Power(g, m + 1) = g * x
    BY <2>1, PowerIs
  <2>4. QED
    BY <2>2, <2>3
<1> HIDE DEF T
<1>3. n \in T
  BY <1>1, <1>2, SetInduction
<1>4. QED
  BY <1>3 DEF T

LEMMA PowerGrows ==
  ASSUME NEW g \in Nat \ {0}, NEW m \in Nat, NEW n \in Nat, m <= n
  PROVE  Power(g, m) <= Power(g, n)
<1> DEFINE T == {k \in Nat : Power(g, m) <= Power(g, m + k)}
<1>1. 0 \in T
  <2>1. Power(g, m) \in Nat /\ m + 0 = m
    BY PowerType
  <2>2. QED
    BY <2>1
<1>2. ASSUME NEW k \in T, k \in Nat
      PROVE  k + 1 \in T
  <2>1. m + k \in Nat /\ m + (k + 1) = (m + k) + 1
    BY <1>2
  <2>2. PICK x \in Nat \ {0}, y \in Nat \ {0} : x = Power(g, m) /\ y = Power(g, m + k)
    BY <2>1, PowerType
  <2>3. x <= y
    BY <1>2, <2>2
  <2>4. Power(g, m + (k + 1)) = g * y
    BY <2>1, <2>2, PowerIs
  <2>5. y <= g * y /\ g * y \in Nat
    BY Z3
  <2>6. x <= g * y
    BY <2>3, <2>5
  <2>7. QED
    BY <1>2, <2>2, <2>4, <2>6
<1> HIDE DEF T
<1>3. n - m \in Nat
  OBVIOUS
<1>4. n - m \in T
  BY <1>1, <1>2, <1>3, SetInduction
<1>5. m + (n - m) = n
  OBVIOUS
<1>6. QED
  BY <1>4, <1>5 DEF T

-----------------------------------------------------------------------------
(* The rate *)

LEMMA BlendShape ==
  ASSUME NEW base \in Nat, NEW min \in Nat, min <= base,
         NEW whole \in Nat \ {0}, NEW part \in Nat, part <= whole,
         NEW less \in Nat, less <= part
  PROVE  /\ Blend(base, min, part, whole) \in min .. base
         /\ Blend(base, min, whole, whole) = base
         /\ Blend(base, min, less, whole) <= Blend(base, min, part, whole)
<1> DEFINE gap == base - min
<1>1. gap \in Nat
  OBVIOUS
<1> HIDE DEF gap
<1>2. gap * part \in Nat /\ gap * less \in Nat /\ gap * whole \in Nat
  BY <1>1
<1>3. gap * less <= gap * part /\ gap * part <= gap * whole
  BY <1>1, Z3
<1>4. (gap * whole) \div whole = gap
  BY <1>1, QuotientOf
<1>5. PICK p \in Nat, l \in Nat : p = (gap * part) \div whole /\ l = (gap * less) \div whole /\ l <= p /\ p <= gap
  BY <1>2, <1>3, <1>4, QuotientGrows
<1>6. /\ Blend(base, min, part, whole) = min + p
      /\ Blend(base, min, less, whole) = min + l
      /\ Blend(base, min, whole, whole) = min + gap
  BY <1>4, <1>5, Zenon DEF Blend, gap
<1>7. min + gap = base
  BY DEF gap
<1>8. QED
  BY <1>1, <1>5, <1>6, <1>7

(* The cubic in place of the half-cosine falls from the whole to nothing.    *)
Cubic(span, d) == (span - d) * (span - d) * (span + 2 * d)

LEMMA CubicFalls ==
  ASSUME NEW span \in Nat \ {0}, NEW d \in 0 .. span - 1
  PROVE  /\ Cubic(span, d) \in Nat
         /\ Cubic(span, d + 1) \in Nat
         /\ Cubic(span, d + 1) <= Cubic(span, d)
         /\ Cubic(span, 0) = span * span * span
<1>1. d \in Nat /\ span - d \in Nat /\ span - (d + 1) \in Nat
  OBVIOUS
<1>2. Cubic(span, d) \in Nat
  <2>1. (span - d) * (span - d) \in Nat /\ span + 2 * d \in Nat
    BY <1>1
  <2>2. QED
    BY <2>1 DEF Cubic
<1>3. Cubic(span, d + 1) \in Nat
  <2>1. (span - (d + 1)) * (span - (d + 1)) \in Nat /\ span + 2 * (d + 1) \in Nat
    BY <1>1
  <2>2. QED
    BY <2>1 DEF Cubic
<1>4. Cubic(span, d + 1) <= Cubic(span, d)
  <2>1. PICK x \in Nat : x = span - (d + 1)
    BY <1>1
  <2>2. span = x + d + 1
    BY <1>1, <2>1
  <2>3. Cubic(span, d) = (x + 1) * (x + 1) * (x + 3 * d + 1)
    BY <1>1, <2>2 DEF Cubic
  <2>4. Cubic(span, d + 1) = x * x * (x + 3 * d + 3)
    BY <1>1, <2>1, <2>2 DEF Cubic
  <2>5. PICK u \in Nat, w \in Nat, t \in Nat : u = x * x /\ w = x * d /\ t = u * (x + 3 * d)
    BY <1>1
  <2>6. x * x * (x + 3 * d + 3) = t + 3 * u
    BY <1>1, <2>5, Z3
  <2>7. (x + 1) * (x + 1) * (x + 3 * d + 1) = t + 3 * u + 6 * w + 3 * x + 3 * d + 1
    BY <1>1, <2>5, Z3
  <2>8. QED
    BY <1>1, <2>3, <2>4, <2>5, <2>6, <2>7
<1>5. Cubic(span, 0) = span * span * span
  <2>1. span - 0 = span /\ span + 2 * 0 = span
    OBVIOUS
  <2>2. QED
    BY <2>1, Zenon DEF Cubic
<1>6. QED
  BY <1>2, <1>3, <1>4, <1>5

Schedules == [kind : Kinds, warmup : Nat, minLr : Nat, gammaInverse : Nat, stepSize : Nat]

(* The rate d steps after the warm-up, of span.                              *)
Drops(s, d) == IF s.kind = "step" THEN d \div s.stepSize ELSE d

After(s, base, span, d) ==
  CASE s.kind = "constant" -> base
    [] s.kind = "linear" -> Blend(base, s.minLr, span - d, span)
    [] s.kind = "cosine" -> Blend(base, s.minLr, Cubic(span, d), span * span * span)
    [] OTHER -> Floored(base \div Power(s.gammaInverse, Drops(s, d)), s.minLr)

LEMMA RateIs ==
  ASSUME NEW s \in Schedules, NEW base \in Nat, NEW total \in Nat, ~InvalidSchedule(s, base, total),
         NEW step_ \in 1 .. total
  PROVE  /\ s.warmup < total
         /\ step_ <= s.warmup => LrAt(s, base, step_, total) = (base * step_) \div s.warmup
         /\ step_ > s.warmup =>
              LrAt(s, base, step_, total) = After(s, base, total - s.warmup, step_ - 1 - s.warmup)
<1> DEFINE W == s.warmup
           idx == step_ - 1
           d == idx - s.warmup
           span == IF total - s.warmup > 1 THEN total - s.warmup ELSE 1
           p == IF d < span THEN d ELSE span
           left == span - p
           drops == IF s.kind = "step" THEN d \div s.stepSize ELSE d
<1>1. W \in Nat
  BY DEF Schedules
<1>2. W < total
  <2>1. ~(W >= IF total > 1 THEN total ELSE 1)
    BY Zenon DEF InvalidSchedule
  <2>2. QED
    BY <1>1, <2>1
<1>3. LrAt(s, base, step_, total) =
        CASE idx < W -> (base * (idx + 1)) \div W
          [] idx >= W /\ s.kind = "constant" -> base
          [] idx >= W /\ s.kind = "linear" -> Blend(base, s.minLr, left, span)
          [] idx >= W /\ s.kind = "cosine" ->
               Blend(base, s.minLr, left * left * (span + 2 * p), span * span * span)
          [] OTHER -> Floored(base \div Power(s.gammaInverse, drops), s.minLr)
  BY Zenon DEF LrAt
<1>4. idx + 1 = step_ /\ span = total - W
  BY <1>1, <1>2
<1>5. ASSUME step_ <= W
      PROVE  LrAt(s, base, step_, total) = (base * step_) \div W
  <2>1. idx < W /\ ~(idx >= W)
    BY <1>1, <1>5
  <2> HIDE DEF W, idx
  <2>2. QED
    BY <1>3, <1>4, <2>1, Zenon
<1>6. ASSUME step_ > W
      PROVE  LrAt(s, base, step_, total) = After(s, base, total - W, step_ - 1 - W)
  <2>1. ~(idx < W) /\ idx >= W /\ p = d
    BY <1>1, <1>2, <1>6
  <2>2. left * left * (span + 2 * p) = Cubic(span, d) /\ left = span - d
    BY <2>1, Zenon DEF Cubic
  <2>3. drops = Drops(s, d)
    BY Zenon DEF Drops
  <2>4. d = step_ - 1 - W
    OBVIOUS
  <2> HIDE DEF W, idx, left, p, span, d, drops
  <2>5. LrAt(s, base, step_, total) = After(s, base, span, d)
    BY <1>3, <2>1, <2>2, <2>3, Zenon DEF After
  <2>6. QED
    BY <1>4, <2>4, <2>5, Zenon
<1>7. QED
  BY <1>2, <1>5, <1>6

LEMMA AfterShape ==
  ASSUME NEW s \in Schedules, NEW base \in Nat, NEW total, ~InvalidSchedule(s, base, total),
         NEW span \in Nat \ {0}, NEW d \in 0 .. span - 1
  PROVE  /\ After(s, base, span, d) \in s.minLr .. base
         /\ After(s, base, span, 0) = base
         /\ d + 1 < span => After(s, base, span, d + 1) <= After(s, base, span, d)
<1> DEFINE m == s.minLr
           g == s.gammaInverse
           A(k) == After(s, base, span, k)
<1>1. s.kind \in Kinds /\ m \in Nat /\ g \in Nat /\ s.stepSize \in Nat
  BY DEF Schedules
<1>2. /\ s.kind # "constant" => m <= base
      /\ s.kind = "constant" => m = 0
      /\ s.kind \in {"exponential", "step"} => g # 0
      /\ s.kind = "step" => s.stepSize # 0
  <2>1. /\ s.kind # "constant" => ~(m > base)
        /\ s.kind = "constant" => m = 0
        /\ (g # 0) <=> (s.kind \in {"exponential", "step"})
        /\ (s.stepSize # 0) <=> (s.kind = "step")
    BY Zenon DEF InvalidSchedule
  <2>2. QED
    BY <1>1, <2>1
<1>3. d \in Nat /\ d < span /\ 0 \in 0 .. span - 1 /\ span \in Nat
  OBVIOUS
<1> HIDE DEF m, g
<1>4. CASE s.kind = "constant"
  <2>1. \A k : A(k) = base
    BY <1>4, Zenon DEF After
  <2> HIDE DEF A
  <2>2. m = 0
    BY <1>2, <1>4
  <2>3. A(d) \in m .. base /\ A(0) = base /\ A(d + 1) <= A(d)
    BY <2>1, <2>2
  <2>4. QED
    BY <2>3, Zenon DEF A, m
<1>5. CASE s.kind = "linear"
  <2>1. \A k : A(k) = Blend(base, m, span - k, span)
    BY <1>5, Zenon DEF After, m
  <2> HIDE DEF A
  <2>2. m <= base
    BY <1>2, <1>5
  <2>3. span - 0 = span /\ span - d \in Nat /\ span - d <= span
    BY <1>3
  <2>4. A(0) = base /\ A(d) \in m .. base
    <3>1. Blend(base, m, span - d, span) \in m .. base /\ Blend(base, m, span, span) = base
      BY <1>1, <2>2, <2>3, BlendShape
    <3>2. QED
      BY <2>1, <2>3, <3>1, Zenon
  <2>5. span - (d + 1) \in Nat /\ span - (d + 1) <= span - d
    BY <1>3
  <2>6. Blend(base, m, span - (d + 1), span) <= Blend(base, m, span - d, span)
    BY <1>1, <2>2, <2>3, <2>5, BlendShape
  <2>7. A(d + 1) <= A(d)
    BY <2>1, <2>6, Zenon
  <2>8. QED
    BY <2>4, <2>7, Zenon DEF A, m
<1>6. CASE s.kind = "cosine"
  <2> DEFINE whole == span * span * span
  <2>1. \A k : A(k) = Blend(base, m, Cubic(span, k), whole)
    BY <1>6, Zenon DEF After, m
  <2> HIDE DEF A
  <2>2. m <= base
    BY <1>2, <1>6
  <2>3. whole \in Nat \ {0}
    <3>1. PICK x \in Nat : x = span * span /\ x > 0
      <4>1. span * span \in Nat /\ span * span > 0
        BY Z3
      <4>2. QED
        BY <4>1
    <3>2. x * span \in Nat /\ x * span > 0
      BY <3>1, Z3
    <3>3. QED
      BY <3>1, <3>2
  <2>4. Cubic(span, 0) = whole
    BY CubicFalls
  <2> HIDE DEF whole
  <2> DEFINE T == {k \in 0 .. span - 1 : Cubic(span, k) \in Nat /\ Cubic(span, k) <= whole}
  <2>5. 0 \in T
    BY <1>3, <2>3, <2>4
  <2>6. ASSUME NEW i \in 1 .. span - 1, i - 1 \in T
        PROVE  i \in T
    <3>1. i - 1 \in 0 .. span - 1 /\ (i - 1) + 1 = i /\ i \in 0 .. span - 1
      OBVIOUS
    <3>2. Cubic(span, i) \in Nat /\ Cubic(span, i) <= Cubic(span, i - 1)
      BY <3>1, CubicFalls
    <3>3. Cubic(span, i - 1) \in Nat /\ Cubic(span, i - 1) <= whole
      BY <2>6
    <3>4. Cubic(span, i) <= whole
      BY <2>3, <3>2, <3>3
    <3>5. QED
      BY <3>1, <3>2, <3>4
  <2> HIDE DEF T
  <2>7. 0 .. span - 1 \subseteq T
    <3>1. span - 1 \in Nat
      OBVIOUS
    <3>2. QED
      BY <2>5, <2>6, <3>1, Climb
  <2>8. d \in T
    BY <2>7
  <2>9. Cubic(span, d) \in Nat /\ Cubic(span, d) <= whole
    BY <2>8, Zenon DEF T
  <2>10. Cubic(span, d + 1) \in Nat /\ Cubic(span, d + 1) <= Cubic(span, d)
    BY CubicFalls
  <2>11. /\ Blend(base, m, Cubic(span, d), whole) \in m .. base
         /\ Blend(base, m, whole, whole) = base
         /\ Blend(base, m, Cubic(span, d + 1), whole) <= Blend(base, m, Cubic(span, d), whole)
    BY <1>1, <2>2, <2>3, <2>9, <2>10, BlendShape
  <2>12. A(d) \in m .. base /\ A(0) = base /\ A(d + 1) <= A(d)
    BY <2>1, <2>4, <2>11, Zenon
  <2>13. QED
    BY <2>12, Zenon DEF A, m
<1>7. CASE s.kind \in {"exponential", "step"}
  <2> DEFINE n(k) == Drops(s, k)
             D(k) == base \div Power(g, n(k))
  <2>1. \A k : A(k) = Floored(D(k), m)
    <3>1. s.kind # "constant" /\ s.kind # "linear" /\ s.kind # "cosine"
      BY <1>7
    <3>2. QED
      BY <3>1, Zenon DEF After, g, m
  <2> HIDE DEF A
  <2>2. m <= base /\ g \in Nat \ {0}
    BY <1>1, <1>2, <1>7
  <2>3. n(0) = 0 /\ n(d) \in Nat /\ n(d + 1) \in Nat /\ n(d) <= n(d + 1)
    <3>1. CASE s.kind = "step"
      <4>1. s.stepSize \in Nat \ {0}
        BY <1>1, <1>2, <3>1
      <4>2. 0 \div s.stepSize = 0
        BY <4>1
      <4>3. d + 1 \in Nat /\ d <= d + 1
        BY <1>3
      <4>4. /\ d \div s.stepSize \in Nat /\ (d + 1) \div s.stepSize \in Nat
            /\ d \div s.stepSize <= (d + 1) \div s.stepSize
        BY <1>3, <4>1, <4>3, QuotientGrows
      <4>5. QED
        BY <3>1, <4>2, <4>4, Zenon DEF Drops
    <3>2. CASE s.kind # "step"
      <4>1. n(0) = 0 /\ n(d) = d /\ n(d + 1) = d + 1
        BY <3>2, Zenon DEF Drops
      <4>2. QED
        BY <1>3, <4>1
    <3>3. QED
      BY <3>1, <3>2
  <2> HIDE DEF n
  <2>4. PICK y \in Nat \ {0}, z \in Nat \ {0} : y = Power(g, n(d)) /\ z = Power(g, n(d + 1)) /\ y <= z
    <3>1. Power(g, n(d)) \in Nat \ {0} /\ Power(g, n(d + 1)) \in Nat \ {0}
      BY <2>2, <2>3, PowerType
    <3>2. Power(g, n(d)) <= Power(g, n(d + 1))
      BY <2>2, <2>3, PowerGrows
    <3>3. QED
      BY <3>1, <3>2
  <2>5. D(d) = base \div y /\ D(d + 1) = base \div z
    BY <2>4
  <2>6. base \div z <= base \div y
    BY <2>4, QuotientShrinks
  <2>7. base \div 1 = base
    OBVIOUS
  <2>8. base \div y <= base
    <3>1. 1 \in Nat \ {0} /\ 1 <= y
      OBVIOUS
    <3>2. base \div y <= base \div 1
      BY <3>1, QuotientShrinks
    <3>3. QED
      BY <2>7, <3>2
  <2>9. base \div y \in Nat /\ base \div z \in Nat
    OBVIOUS
  <2>10. D(0) = base
    <3>1. Power(g, n(0)) = 1
      BY <2>2, <2>3, PowerIs
    <3>2. QED
      BY <2>7, <3>1
  <2> HIDE DEF D
  <2>11. A(d) \in m .. base /\ A(0) = base /\ A(d + 1) <= A(d)
    <3>1. A(d) = Floored(D(d), m) /\ A(0) = Floored(D(0), m) /\ A(d + 1) = Floored(D(d + 1), m)
      BY <2>1, Zenon
    <3>2. PICK x \in Nat, w \in Nat : x = D(d) /\ w = D(d + 1) /\ w <= x /\ x <= base
      BY <2>5, <2>6, <2>8, <2>9
    <3>3. A(0) = base
      BY <1>1, <2>2, <2>10, <3>1 DEF Floored
    <3>4. A(d) = IF x > m THEN x ELSE m
      BY <3>1, <3>2, Zenon DEF Floored
    <3>5. A(d + 1) = IF w > m THEN w ELSE m
      BY <3>1, <3>2, Zenon DEF Floored
    <3>6. QED
      BY <1>1, <2>2, <3>2, <3>3, <3>4, <3>5
  <2>12. QED
    BY <2>11, Zenon DEF A, m
<1>8. QED
  BY <1>1, <1>4, <1>5, <1>6, <1>7 DEF Kinds

(* The rate of a step, and of the next.                                      *)
LEMMA CurveShape ==
  ASSUME NEW s \in Schedules, NEW base \in Nat, NEW total \in Nat, ~InvalidSchedule(s, base, total),
         s.warmup <= base, NEW n \in 1 .. total
  PROVE  /\ n \in {s.warmup, s.warmup + 1} => LrAt(s, base, n, total) = base
         /\ LrAt(s, base, n, total) \in 0 .. base
         /\ n > s.warmup => LrAt(s, base, n, total) >= s.minLr
         /\ n < total =>
              IF n < s.warmup THEN LrAt(s, base, n, total) < LrAt(s, base, n + 1, total)
                              ELSE LrAt(s, base, n, total) >= LrAt(s, base, n + 1, total)
<1> DEFINE W == s.warmup
           R(k) == LrAt(s, base, k, total)
           span == total - W
           A(d) == After(s, base, span, d)
<1>1. W \in Nat /\ s.minLr \in Nat
  BY DEF Schedules
<1>2. W < total /\ span \in Nat \ {0}
  BY <1>1, RateIs
<1>3. ASSUME NEW k \in 1 .. total
      PROVE  /\ k <= W => R(k) = (base * k) \div W
             /\ k > W => R(k) = A(k - 1 - W)
  BY RateIs
<1>4. ASSUME NEW d \in 0 .. span - 1
      PROVE  /\ A(d) \in s.minLr .. base
             /\ A(0) = base
             /\ d + 1 < span => A(d + 1) <= A(d)
  BY <1>2, AfterShape, Zenon
<1> HIDE DEF R, A, W
<1>5. ASSUME NEW k \in 1 .. total, k > W
      PROVE  /\ R(k) \in s.minLr .. base
             /\ k = W + 1 => R(k) = base
             /\ k < total => R(k + 1) <= R(k)
  <2>1. k - 1 - W \in 0 .. span - 1 /\ k \in Nat
    BY <1>1, <1>2, <1>5
  <2> DEFINE d == k - 1 - W
  <2>2. R(k) = A(d)
    BY <1>3, <1>5
  <2>3. k = W + 1 => d = 0
    BY <1>1
  <2>4. k < total => k + 1 \in 1 .. total /\ k + 1 > W /\ (k + 1) - 1 - W = d + 1 /\ d + 1 < span
    BY <1>1, <1>2, <1>5
  <2>5. k < total => R(k + 1) = A(d + 1)
    BY <1>3, <2>4
  <2> HIDE DEF d, span
  <2>6. A(d) \in s.minLr .. base /\ A(0) = base /\ (d + 1 < span => A(d + 1) <= A(d))
    BY <1>4, <2>1, Zenon DEF d
  <2>7. QED
    BY <2>2, <2>3, <2>4, <2>5, <2>6, Zenon
<1>6. ASSUME NEW k \in 1 .. total, k <= W
      PROVE  /\ R(k) \in 0 .. base
             /\ k = W => R(k) = base
             /\ k < W => R(k) < R(k + 1)
  <2>1. W \in Nat \ {0} /\ k \in Nat
    BY <1>1, <1>6
  <2>2. R(k) = (base * k) \div W
    BY <1>3, <1>6
  <2>3. base * k <= base * W /\ base * k \in Nat /\ base * W \in Nat
    <3>1. base * k <= base * W
      BY <1>6, <2>1, Z3
    <3>2. QED
      BY <2>1, <3>1
  <2>4. (base * W) \div W = base
    BY <2>1, QuotientOf
  <2>5. R(k) \in Nat /\ R(k) <= base
    BY <2>1, <2>2, <2>3, <2>4, QuotientGrows
  <2>6. k = W => R(k) = base
    BY <2>2, <2>4
  <2>7. ASSUME k < W
        PROVE  R(k) < R(k + 1)
    <3>1. k + 1 \in 1 .. total /\ k + 1 <= W
      BY <1>1, <1>2, <2>1, <2>7
    <3>2. R(k + 1) = (base * (k + 1)) \div W
      BY <1>3, <3>1
    <3>3. PICK x \in Nat : x = base * k
      BY <2>3
    <3>4. base * (k + 1) = x + base
      BY <2>1, <3>3, Z3
    <3>5. (x + W) \div W = (x \div W) + 1
      BY <2>1, Z3
    <3>6. W <= base
      BY DEF W
    <3>7. (x + W) \div W <= (x + base) \div W
      <4>1. x + W \in Nat /\ x + base \in Nat /\ x + W <= x + base
        BY <2>1, <3>6
      <4>2. QED
        BY <2>1, <4>1, QuotientGrows
    <3>8. x \div W \in Nat /\ (x + base) \div W \in Nat
      BY <2>1
    <3>9. R(k) = x \div W /\ R(k + 1) = (x + base) \div W
      BY <2>2, <3>2, <3>3, <3>4
    <3>10. QED
      BY <3>5, <3>7, <3>8, <3>9
  <2>8. QED
    BY <2>5, <2>6, <2>7
<1>7. n \in Nat /\ n >= 1
  OBVIOUS
<1>8. n \in {W, W + 1} => R(n) = base
  BY <1>1, <1>5, <1>6, <1>7
<1>9. R(n) \in 0 .. base
  <2>1. CASE n <= W
    BY <1>6, <2>1
  <2>2. CASE ~(n <= W)
    <3>1. n > W
      BY <1>1, <1>7, <2>2
    <3>2. QED
      BY <1>1, <1>5, <3>1
  <2>3. QED
    BY <2>1, <2>2
<1>10. n > W => R(n) >= s.minLr
  BY <1>1, <1>5
<1>11. ASSUME n < total
       PROVE  IF n < W THEN R(n) < R(n + 1) ELSE R(n) >= R(n + 1)
  <2>1. CASE n < W
    BY <1>1, <1>6, <1>7, <2>1
  <2>2. CASE n = W
    <3>1. n + 1 \in 1 .. total /\ n + 1 > W /\ n + 1 = W + 1 /\ ~(n < W) /\ n <= W
      BY <1>1, <1>7, <1>11, <2>2
    <3>2. R(n) = base /\ R(n + 1) = base
      BY <1>5, <1>6, <2>2, <3>1
    <3>3. QED
      BY <3>1, <3>2
  <2>3. CASE n > W
    <3>1. ~(n < W) /\ R(n + 1) <= R(n)
      BY <1>1, <1>5, <1>7, <1>11, <2>3
    <3>2. R(n) \in Int
      BY <1>9
    <3>3. n + 1 \in 1 .. total /\ n + 1 > W
      BY <1>1, <1>7, <1>11, <2>3
    <3>4. R(n + 1) \in Int
      BY <1>1, <1>5, <3>3
    <3>5. QED
      BY <3>1, <3>2, <3>4
  <2>4. QED
    BY <1>1, <1>7, <2>1, <2>2, <2>3
<1>12. QED
  BY <1>8, <1>9, <1>10, <1>11, Zenon DEF R, W

(* Across the run, restarts included, the rate climbs to the peak over the   *)
(* warm-up, holds it for one more step, never climbs again and never leaves  *)
(* the range of its floor and its peak (lr_at under validate).               *)
THEOREM CurveFollowed == Spec => []CurveIsFollowed
<1>1. PlanInv => CurveIsFollowed
  <2> SUFFICES ASSUME PlanInv
               PROVE  CurveIsFollowed
    OBVIOUS
  <2> DEFINE sch == config.schedule
             W == sch.warmup
             at(n) == (CHOOSE c \in seen[n] : TRUE).rate
             R(n) == LrAt(sch, BaseLr, n, Steps)
  <2>1. /\ config \in Configs
        /\ \A n \in 1 .. Steps : seen[n] \subseteq {Due(config, folder, n)} /\ (seen[n] # {} => ~Refused)
    BY Zenon DEF PlanInv
  <2>2. sch \in Schedules /\ BaseLr \in Nat /\ Steps \in Nat
    BY <2>1, StepPlanAssumption DEF Schedules
  <2>3. W <= BaseLr
    BY <2>1, FineUnits, Zenon
  <2>4. ASSUME NEW n \in 1 .. Steps, seen[n] # {}
        PROVE  /\ at(n) = R(n)
               /\ ~InvalidSchedule(sch, BaseLr, Steps)
    <3>1. seen[n] = {Due(config, folder, n)}
      BY <2>1, <2>4, Zenon
    <3>2. (CHOOSE c \in seen[n] : TRUE) = Due(config, folder, n)
      BY <3>1, Zenon
    <3>3. Due(config, folder, n).rate = R(n)
      BY Zenon DEF Due
    <3>4. ~InvalidSchedule(sch, BaseLr, Steps)
      BY <2>1, <2>4, Zenon DEF Refused
    <3>5. QED
      BY <3>2, <3>3, <3>4, Zenon
  <2> HIDE DEF at, R
  <2>5. ASSUME NEW n \in 1 .. Steps, seen[n] # {}
        PROVE  /\ n \in {W, W + 1} => at(n) = BaseLr
               /\ at(n) <= BaseLr
               /\ n > W => at(n) >= sch.minLr
               /\ n < Steps /\ seen[n + 1] # {} =>
                    IF n < W THEN at(n) < at(n + 1) ELSE at(n) >= at(n + 1)
    <3>1. at(n) = R(n) /\ ~InvalidSchedule(sch, BaseLr, Steps)
      BY <2>4, <2>5
    <3>2. n < Steps /\ seen[n + 1] # {} => at(n + 1) = R(n + 1)
      <4>1. n < Steps => n + 1 \in 1 .. Steps
        BY <2>2
      <4>2. QED
        BY <2>4, <4>1
    <3>3. /\ n \in {W, W + 1} => R(n) = BaseLr
          /\ R(n) \in 0 .. BaseLr
          /\ n > W => R(n) >= sch.minLr
          /\ n < Steps => IF n < W THEN R(n) < R(n + 1) ELSE R(n) >= R(n + 1)
      BY <2>2, <2>3, <3>1, CurveShape, Zenon DEF R
    <3>4. R(n) <= BaseLr
      BY <2>2, <3>3
    <3>5. QED
      BY <3>1, <3>2, <3>3, <3>4, Zenon
  <2>6. QED
    BY <2>5, Zenon DEF CurveIsFollowed, at
<1>2. QED
  BY <1>1, PlanInvariant, PTL
=============================================================================
