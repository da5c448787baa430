------------------------ MODULE DemoAdaptersProofs -------------------------
(***************************************************************************)
(* The synthetic and MNIST trainer, for every set of runs and every        *)
(* configuration: DrawInv says what a run has drawn and what its generator *)
(* will give it next, as long as no other run has shared it; FilesInv says *)
(* what is in each pair of files and that no run comes back to a path that *)
(* it announced.  From them follow the three properties of the module.     *)
(***************************************************************************)
EXTENDS DemoAdapters, SequenceTheorems, FiniteSetTheorems, FunctionTheorems,
        WellFoundedInduction, TLAPS

-----------------------------------------------------------------------------
(* Induction over sets of naturals *)

(* The library's induction theorems take the predicate as a parameter.  The  *)
(* same for a set of naturals, from the well-founded order of finite sets.   *)
Below == {p \in Nat \X Nat : p[1] < p[2]}
LEMMA BelowIff ==
  ASSUME NEW a \in Nat, NEW b \in Nat
  PROVE  <<a, b>> \in Below <=> a < b
BY DEF Below

LEMMA BelowIsWellFounded == IsWellFoundedOn(Below, Nat)
<1> SUFFICES ASSUME NEW f \in [Nat -> Nat], \A n \in Nat : <<f[n + 1], f[n]>> \in Below
             PROVE  FALSE
  BY Zenon DEF IsWellFoundedOn
<1> DEFINE g == [n \in Nat |-> 1 .. f[n]]
<1>1. ASSUME NEW n \in Nat
      PROVE  1 .. f[n] \in FiniteSubsetsOf(Nat)
  <2>1. PICK k \in Nat : k = f[n]
    OBVIOUS
  <2>2. IsFiniteSet(1 .. k) /\ 1 .. k \subseteq Nat
    BY FS_Interval
  <2>3. QED
    BY <2>1, <2>2, Zenon DEF FiniteSubsetsOf
<1>2. g \in [Nat -> FiniteSubsetsOf(Nat)]
  BY <1>1
<1>3. ASSUME NEW n \in Nat
      PROVE  <<g[n + 1], g[n]>> \in StrictSubsetOrdering(Nat)
  <2>1. PICK a \in Nat, b \in Nat : a = f[n + 1] /\ b = f[n]
    OBVIOUS
  <2>2. <<a, b>> \in Below
    BY <2>1
  <2>3. a < b
    BY <2>2 DEF Below
  <2>4. 1 .. a \subseteq 1 .. b /\ b \in 1 .. b /\ b \notin 1 .. a
    BY <2>3
  <2>5. 1 .. a \in SUBSET Nat /\ 1 .. b \in SUBSET Nat /\ 1 .. a # 1 .. b
    BY <2>4
  <2>6. <<1 .. a, 1 .. b>> \in StrictSubsetOrdering(Nat)
    <3> DEFINE x == 1 .. a
               y == 1 .. b
    <3>1. x \in SUBSET Nat /\ y \in SUBSET Nat /\ x # y /\ x \subseteq y
      BY <2>4, <2>5
    <3> HIDE DEF x, y
    <3>2. <<x, y>> \in StrictSubsetOrdering(Nat)
      BY <3>1 DEF StrictSubsetOrdering
    <3>3. QED
      BY <3>2 DEF x, y
  <2>7. g[n + 1] = 1 .. a /\ g[n] = 1 .. b
    BY <2>1
  <2>8. QED
    BY <2>6, <2>7, Zenon
<1>4. QED
  <2> HIDE DEF g
  <2>1. QED
    BY <1>2, <1>3, FS_StrictSubsetOrderingWellFounded, Zenon DEF IsWellFoundedOn

LEMMA LeastNatural ==
  ASSUME NEW T \in SUBSET Nat, T # {}
  PROVE  \E m \in T : \A n \in T : m <= n
<1>1. PICK m \in T : \A n \in T : <<n, m>> \notin Below
  BY BelowIsWellFounded, WFMin, Zenon
<1>2. \A n \in T : ~(n < m)
  BY <1>1, BelowIff
<1>3. QED
  BY <1>2

LEMMA SetInduction ==
  ASSUME NEW T, 0 \in T, \A n \in T : n \in Nat => n + 1 \in T
  PROVE  Nat \subseteq T
<1> SUFFICES ASSUME Nat \ T # {}
             PROVE  FALSE
  BY Zenon
<1>1. PICK m \in Nat \ T : \A n \in Nat \ T : m <= n
  BY LeastNatural, Zenon
<1>2. m # 0 /\ m - 1 \in Nat /\ (m - 1) + 1 = m
  OBVIOUS
<1>3. m - 1 \in T
  BY <1>1, <1>2
<1>4. QED
  BY <1>2, <1>3

(* A recursive function over 0 .. n is there, when each of its steps is a    *)
(* function on one set of values.                                            *)
Iterates(f, V, base, n, next) ==
  f \in [0 .. n -> V] /\ f[0] = base /\ \A i \in 1 .. n : f[i] = next[i][f[i - 1]]

LEMMA Iteration ==
  ASSUME NEW V, NEW base \in V, NEW n \in Nat,
         NEW next, \A i \in 1 .. n : next[i] \in [V -> V]
  PROVE  \E f : Iterates(f, V, base, n, next)
<1> DEFINE Up(f, m) == f[0] = base /\ \A i \in 1 .. m : f[i] = next[i][f[i - 1]]
           T == {m \in Nat : m <= n => \E f \in [0 .. m -> V] : Up(f, m)}
<1>1. 0 \in T
  <2> DEFINE f == [i \in 0 .. 0 |-> base]
  <2>1. f \in [0 .. 0 -> V] /\ f[0] = base
    OBVIOUS
  <2>2. 1 .. 0 = {}
    OBVIOUS
  <2> HIDE DEF f
  <2>3. Up(f, 0)
    BY <2>1, <2>2
  <2>4. QED
    BY <2>1, <2>3
<1>2. ASSUME NEW m \in T, m \in Nat
      PROVE  m + 1 \in T
  <2> SUFFICES ASSUME m + 1 <= n
               PROVE  \E g \in [0 .. m + 1 -> V] : Up(g, m + 1)
    OBVIOUS
  <2>1. m <= n /\ m + 1 \in 1 .. n /\ m \in 0 .. m
    BY <1>2
  <2>2. PICK f \in [0 .. m -> V] : Up(f, m)
    BY <2>1
  <2> DEFINE g == [i \in 0 .. m + 1 |-> IF i <= m THEN f[i] ELSE next[m + 1][f[m]]]
  <2>3. f[m] \in V /\ next[m + 1][f[m]] \in V
    BY <2>1
  <2>4. g \in [0 .. m + 1 -> V]
    BY <1>2, <2>3
  <2>5. \A i \in 0 .. m : g[i] = f[i]
    BY <1>2
  <2>6. g[m + 1] = next[m + 1][f[m]]
    BY <1>2
  <2> HIDE DEF g
  <2>7. ASSUME NEW i \in 1 .. m + 1
        PROVE  g[i] = next[i][g[i - 1]]
    <3>1. CASE i = m + 1
      <4>1. g[i - 1] = f[m]
        BY <1>2, <2>5, <3>1
      <4>2. QED
        BY <2>6, <3>1, <4>1
    <3>2. CASE i # m + 1
      <4>1. i \in 1 .. m /\ i \in 0 .. m /\ i - 1 \in 0 .. m
        BY <1>2, <3>2
      <4>2. QED
        BY <2>2, <2>5, <4>1
    <3>3. QED
      BY <3>1, <3>2
  <2>8. g[0] = base
    BY <1>2, <2>2, <2>5
  <2>9. QED
    BY <2>4, <2>7, <2>8
<1> HIDE DEF T, Up
<1>3. n \in T /\ n <= n
  BY <1>1, <1>2, SetInduction
<1>4. \E f \in [0 .. n -> V] : Up(f, n)
  BY <1>3, Zenon DEF T
<1>5. QED
  BY <1>4, Zenon DEF Up, Iterates

(* Induction over a bounded index.                                           *)
LEMMA Climb ==
  ASSUME NEW n \in Nat, NEW T, 0 \in T, \A i \in 1 .. n : i - 1 \in T => i \in T
  PROVE  0 .. n \subseteq T
<1> DEFINE U == {m \in Nat : m <= n => m \in T}
<1>1. 0 \in U
  BY Zenon
<1>2. ASSUME NEW m \in U, m \in Nat
      PROVE  m + 1 \in U
  <2>1. m + 1 <= n => m <= n /\ m + 1 \in 1 .. n /\ (m + 1) - 1 = m
    BY <1>2
  <2>2. QED
    BY <1>2, <2>1
<1> HIDE DEF U
<1>3. Nat \subseteq U
  BY <1>1, <1>2, SetInduction
<1>4. QED
  BY <1>3 DEF U

-----------------------------------------------------------------------------
(* Configurations and what they draw *)

Conf == UNION {Configs[r] : r \in Runs}

LEMMA ConfigType ==
  ASSUME NEW c \in Conf
  PROVE  /\ c.task \in {Classification, FlowMatching} /\ c.dropout \in BOOLEAN
         /\ c.backend \in STRING /\ c.seed \in Nat /\ c.rank \in Nat /\ c.steps \in Nat /\ c.checkpointEvery \in Nat
<1>1. PICK r \in Runs : c \in Configs[r]
  BY Zenon DEF Conf
<1>2. c \in [settings : BOOLEAN, dropsCaptions : BOOLEAN, task : {"classification", "flow-matching"},
             base : STRING, shift : STRING, quant : STRING, backend : STRING, precision : STRING,
             seed : Nat, rank : Nat, alpha : Nat, dropout : BOOLEAN, steps : Nat,
             checkpointEvery : Nat, sampleEvery : Nat, dir : STRING, name : Seq(Seq(STRING \cup Nat)), process : STRING]
  BY <1>1, ConfigsAssumption, Zenon
<1>3. QED
  BY <1>2 DEF Classification, FlowMatching

(* Two configurations of one recipe agree on all a draw depends on.          *)
LEMMA RecipeType ==
  ASSUME NEW c \in Conf, NEW d \in Conf, Recipe(c) = Recipe(d)
  PROVE  /\ c.task = d.task /\ c.base = d.base /\ c.rank = d.rank
         /\ c.dropout = d.dropout /\ c.backend = d.backend /\ c.seed = d.seed
<1>1. ASSUME NEW x \in Conf
      PROVE  /\ Recipe(x).task = x.task /\ Recipe(x).base = x.base /\ Recipe(x).rank = x.rank
             /\ Recipe(x).dropout = x.dropout /\ Recipe(x).backend = x.backend
             /\ Recipe(x).seed = x.seed
  <2>1. PICK r \in Runs : x \in Configs[r]
    BY <1>1, Zenon DEF Conf
  <2>2. x \in [settings : BOOLEAN, dropsCaptions : BOOLEAN, task : {"classification", "flow-matching"},
               base : STRING, shift : STRING, quant : STRING, backend : STRING, precision : STRING,
               seed : Nat, rank : Nat, alpha : Nat, dropout : BOOLEAN, steps : Nat,
               checkpointEvery : Nat, sampleEvery : Nat, dir : STRING, name : Seq(Seq(STRING \cup Nat)), process : STRING]
    BY <2>1, ConfigsAssumption, Zenon
  <2>3. QED
    BY <2>2 DEF Recipe
<1>2. QED
  BY <1>1, Zenon

(* What is drawn: a name and a shape.                                        *)
Frozen == {"fc1.weight", "fc1.bias", "fc2.weight", "fc2.bias"}
Others == {"eps", "u", "centroids", "noise", "mask", "lora_a"}
Names == Frozen \cup Others
Item == Names \X Seq(Nat)
Trained == Others \X Seq(Nat)

LEMMA NamesDiffer == Frozen \cap Others = {}
BY DEF Frozen, Others

LEMMA DimsType ==
  ASSUME NEW c
  PROVE  Dims(c)[1] \in Nat /\ Dims(c)[2] \in Nat /\ Dims(c)[3] \in Nat
BY DEF Dims

LEMMA BaseShape ==
  ASSUME NEW c
  PROVE  /\ Base(Dims(c)) \in Seq(Item)
         /\ Len(Base(Dims(c))) = 4
         /\ \A i \in 1 .. 4 : Base(Dims(c))[i][1] \in Frozen
         /\ \A x \in Frozen : \E i \in 1 .. 4 : Base(Dims(c))[i][1] = x
         /\ Len(Base(Dims(c))[1][2]) = 2
<1>1. PICK x \in Nat, y \in Nat, z \in Nat : x = Dims(c)[1] /\ y = Dims(c)[2] /\ z = Dims(c)[3]
  BY DimsType
<1>2. Base(Dims(c)) = <<<<"fc2.weight", <<y, z>>>>, <<"fc1.weight", <<x, y>>>>,
                        <<"fc1.bias", <<y>>>>, <<"fc2.bias", <<z>>>>>>
  BY <1>1, Zenon DEF Base
<1>3. <<y, z>> \in Seq(Nat) /\ <<x, y>> \in Seq(Nat) /\ <<y>> \in Seq(Nat) /\ <<z>> \in Seq(Nat)
  OBVIOUS
<1>4. /\ <<"fc2.weight", <<y, z>>>> \in Item /\ <<"fc1.weight", <<x, y>>>> \in Item
      /\ <<"fc1.bias", <<y>>>> \in Item /\ <<"fc2.bias", <<z>>>> \in Item
  BY <1>3, Zenon DEF Item, Names, Frozen
<1>5. Base(Dims(c)) \in Seq(Item) /\ Len(Base(Dims(c))) = 4
  BY <1>2, <1>4
<1>6. /\ Base(Dims(c))[1] = <<"fc2.weight", <<y, z>>>> /\ Base(Dims(c))[2] = <<"fc1.weight", <<x, y>>>>
      /\ Base(Dims(c))[3] = <<"fc1.bias", <<y>>>> /\ Base(Dims(c))[4] = <<"fc2.bias", <<z>>>>
  BY <1>2
<1>7. /\ Base(Dims(c))[1][1] = "fc2.weight" /\ Base(Dims(c))[2][1] = "fc1.weight"
      /\ Base(Dims(c))[3][1] = "fc1.bias" /\ Base(Dims(c))[4][1] = "fc2.bias"
      /\ Base(Dims(c))[1][2] = <<y, z>>
  BY <1>6
<1> HIDE DEF Base
<1>8. Len(<<y, z>>) = 2
  OBVIOUS
<1>9. \A i \in 1 .. 4 : i = 1 \/ i = 2 \/ i = 3 \/ i = 4
  OBVIOUS
<1>10. 1 \in 1 .. 4 /\ 2 \in 1 .. 4 /\ 3 \in 1 .. 4 /\ 4 \in 1 .. 4
  OBVIOUS
<1>11. \A i \in 1 .. 4 : Base(Dims(c))[i][1] \in Frozen
  BY <1>7, <1>9, Zenon DEF Frozen
<1>12. \A n \in Frozen : \E i \in 1 .. 4 : Base(Dims(c))[i][1] = n
  BY <1>7, <1>10, Zenon DEF Frozen
<1>13. QED
  BY <1>5, <1>7, <1>8, <1>11, <1>12

LEMMA NothingLazy ==
  ASSUME NEW c
  PROVE  LazyBase(Dims(c)) = <<>> /\ NewDraws(Dims(c)) = Base(Dims(c))
<1>1. NewDraws(Dims(c)) = Base(Dims(c))
  BY Zenon DEF NewDraws
<1>2. Len(Base(Dims(c))) = 4
  BY BaseShape, Zenon
<1>3. SubSeq(Base(Dims(c)), 5, 4) = <<>>
  BY SubSeqEmpty
<1>4. QED
  BY <1>1, <1>2, <1>3 DEF LazyBase

LEMMA DataDrawsType ==
  ASSUME NEW c
  PROVE  DataDraws(c) \in Seq(Trained)
<1>1. Batches \in Nat \ {0}
  BY BatchesAssumption
<1>2. "eps" \in Others /\ "u" \in Others /\ "centroids" \in Others /\ "noise" \in Others
  BY DEF Others
<1>3. <<64, 16>> \in Seq(Nat) /\ <<64>> \in Seq(Nat) /\ <<10, 784>> \in Seq(Nat) /\ <<64, 784>> \in Seq(Nat)
  OBVIOUS
<1>4. /\ <<"eps", <<64, 16>>>> \in Trained /\ <<"u", <<64>>>> \in Trained
      /\ <<"centroids", <<10, 784>>>> \in Trained /\ <<"noise", <<64, 784>>>> \in Trained
  BY <1>2, <1>3, ZenonT(60) DEF Trained
<1>5. FlowBatches \in Seq(Trained)
  <2>1. 2 * Batches \in Nat
    BY <1>1
  <2>2. FlowBatches \in [1 .. 2 * Batches -> Trained]
    BY <1>4, Zenon DEF FlowBatches
  <2>3. QED
    BY <2>1, <2>2, SeqDef, Zenon
<1>6. SyntheticBatches \in Seq(Trained)
  <2> DEFINE noise == [b \in 1 .. Batches |-> <<"noise", <<64, 784>>>>]
  <2>1. noise \in [1 .. Batches -> Trained]
    BY <1>4, Zenon
  <2>2. noise \in Seq(Trained)
    BY <1>1, <2>1, SeqDef, ZenonT(60)
  <2>3. <<<<"centroids", <<10, 784>>>>>> \in Seq(Trained)
    <3>1. PICK t \in Trained : t = <<"centroids", <<10, 784>>>>
      BY <1>4
    <3>2. <<t>> \in Seq(Trained)
      OBVIOUS
    <3>3. QED
      BY <3>1, <3>2, Zenon
  <2>4. SyntheticBatches = <<<<"centroids", <<10, 784>>>>>> \o noise
    BY Zenon DEF SyntheticBatches
  <2> HIDE DEF noise
  <2>5. <<<<"centroids", <<10, 784>>>>>> \o noise \in Seq(Trained)
    <3>1. \A v, w \in Seq(Trained) : v \o w \in Seq(Trained)
      BY ConcatProperties, Zenon
    <3>2. QED
      BY <2>2, <2>3, <3>1
  <2>6. QED
    BY <2>4, <2>5, Zenon
<1>7. MnistBatches \in Seq(Trained)
  BY EmptySeq, Zenon DEF MnistBatches
<1>8. QED
  BY <1>5, <1>6, <1>7, Zenon DEF DataDraws

LEMMA StepDrawsType ==
  ASSUME NEW c \in Conf, NEW k \in Nat
  PROVE  StepDraws(c, k) \in Seq(Trained)
<1>1. <<>> \in Seq(Trained)
  BY EmptySeq
<1>2. "mask" \in Others /\ "lora_a" \in Others
  BY DEF Others
<1>3. Dims(c)[2] \in Nat /\ Rank(c.rank) \in Nat
  BY DimsType, ConfigType DEF Rank
<1>4. <<64, Dims(c)[2]>> \in Seq(Nat) /\ <<Dims(c)[2], Rank(c.rank)>> \in Seq(Nat)
  <2>1. PICK x \in Nat, y \in Nat : x = Dims(c)[2] /\ y = Rank(c.rank)
    BY <1>3
  <2>2. <<64, x>> \in Seq(Nat) /\ <<x, y>> \in Seq(Nat)
    OBVIOUS
  <2>3. QED
    BY <2>1, <2>2, Zenon
<1>5. <<"mask", <<64, Dims(c)[2]>>>> \in Trained /\ LoraA(c) \in Trained
  BY <1>2, <1>4, Zenon DEF Trained, LoraA
<1>6. \A t \in Trained : <<t>> \in Seq(Trained)
  OBVIOUS
<1>7. ForwardDraws(c, k) \in Seq(Trained)
  <2> DEFINE lazy == IF k = 1 THEN LazyBase(Dims(c)) ELSE <<>>
             mask == IF c.dropout THEN <<<<"mask", <<64, Dims(c)[2]>>>>>> ELSE <<>>
             lora == IF k = 1 THEN <<LoraA(c)>> ELSE <<>>
  <2>1. lazy \in Seq(Trained)
    BY <1>1, NothingLazy, Zenon
  <2>2. mask \in Seq(Trained)
    BY <1>1, <1>5, <1>6, Zenon
  <2>3. lora \in Seq(Trained)
    BY <1>1, <1>5, <1>6, Zenon
  <2>4. ForwardDraws(c, k) = (lazy \o mask) \o lora
    BY Zenon DEF ForwardDraws
  <2> HIDE DEF lazy, mask, lora
  <2>5. lazy \o mask \in Seq(Trained)
    BY <2>1, <2>2, ConcatProperties, Zenon
  <2>6. (lazy \o mask) \o lora \in Seq(Trained)
    BY <2>3, <2>5, ConcatProperties, Zenon
  <2>7. QED
    BY <2>4, <2>6
<1>8. StepDraws(c, k) = <<>> \o ForwardDraws(c, k)
  BY Zenon DEF StepDraws, SampleDraws
<1>9. QED
  BY <1>1, <1>7, <1>8, ConcatProperties, Zenon

-----------------------------------------------------------------------------
(* The program of draws *)

LEMMA ItemsOfTrained ==
  ASSUME NEW v \in Seq(Trained)
  PROVE  v \in Seq(Item)
<1>1. Trained \subseteq Item
  BY DEF Trained, Item, Names
<1>2. QED
  BY <1>1, SeqMonotonic, Zenon

(* f is the programs of c up to its kth step.                                *)
IsProgram(f, c, k) ==
  f = [j \in 0 .. k |-> IF j = 0 THEN NewDraws(Dims(c)) \o DataDraws(c)
                        ELSE f[j - 1] \o StepDraws(c, j)]

LEMMA ProgramExists ==
  ASSUME NEW c \in Conf, NEW k \in Nat
  PROVE  \E f : IsProgram(f, c, k)
<1> DEFINE V == Seq(Item)
           first == NewDraws(Dims(c)) \o DataDraws(c)
           next == [i \in 1 .. k |-> [v \in V |-> v \o StepDraws(c, i)]]
<1>1. \A v, w \in V : v \o w \in V
  BY ConcatProperties, Zenon
<1>2. first \in V
  <2>1. NewDraws(Dims(c)) \in V
    BY BaseShape, NothingLazy, Zenon
  <2>2. DataDraws(c) \in V
    BY DataDrawsType, ItemsOfTrained, Zenon
  <2>3. QED
    BY <1>1, <2>1, <2>2
<1>3. \A i \in 1 .. k : StepDraws(c, i) \in V
  <2> SUFFICES ASSUME NEW i \in 1 .. k
               PROVE  StepDraws(c, i) \in V
    OBVIOUS
  <2>1. i \in Nat
    OBVIOUS
  <2>2. QED
    BY <2>1, StepDrawsType, ItemsOfTrained, Zenon
<1>4. \A i \in 1 .. k : next[i] \in [V -> V]
  BY <1>1, <1>3, Zenon
<1>5. \A i \in 1 .. k : \A v \in V : next[i][v] = v \o StepDraws(c, i)
  BY Zenon
<1> HIDE DEF next, first, V
<1>6. PICK f : Iterates(f, V, first, k, next)
  BY <1>2, <1>4, Iteration, Zenon
<1>7. ASSUME NEW j \in 0 .. k
      PROVE  f[j] = IF j = 0 THEN first ELSE f[j - 1] \o StepDraws(c, j)
  <2>1. j # 0 => j \in 1 .. k /\ j - 1 \in 0 .. k
    OBVIOUS
  <2>2. QED
    BY <1>5, <1>6, <2>1, Zenon DEF Iterates
<1>8. IsProgram(f, c, k)
  BY <1>6, <1>7, Zenon DEF Iterates, IsProgram, first
<1>9. QED
  BY <1>8, Zenon

Programs(c, k) == CHOOSE f : IsProgram(f, c, k)

LEMMA ProgramsAre ==
  ASSUME NEW c \in Conf, NEW k \in Nat
  PROVE  /\ ProgramUpTo(c, k) = Programs(c, k)[k]
         /\ \A j \in 0 .. k : Programs(c, k)[j] =
              IF j = 0 THEN NewDraws(Dims(c)) \o DataDraws(c)
              ELSE Programs(c, k)[j - 1] \o StepDraws(c, j)
<1>1. IsProgram(Programs(c, k), c, k)
  BY ProgramExists, Zenon DEF Programs
<1>2. ProgramUpTo(c, k) = Programs(c, k)[k]
  BY Zenon DEF ProgramUpTo, Programs, IsProgram
<1>3. \A j \in 0 .. k : Programs(c, k)[j] =
        IF j = 0 THEN NewDraws(Dims(c)) \o DataDraws(c)
        ELSE Programs(c, k)[j - 1] \o StepDraws(c, j)
  BY <1>1, Zenon DEF IsProgram
<1>4. QED
  BY <1>2, <1>3

LEMMA ProgramIs ==
  ASSUME NEW c \in Conf, NEW k \in Nat
  PROVE  /\ ProgramUpTo(c, 0) = NewDraws(Dims(c)) \o DataDraws(c)
         /\ ProgramUpTo(c, k + 1) = ProgramUpTo(c, k) \o StepDraws(c, k + 1)
<1> DEFINE h(m) == Programs(c, m)
<1>1. \A m \in Nat : ProgramUpTo(c, m) = h(m)[m]
  BY ProgramsAre, Zenon
<1>2. \A m \in Nat : \A j \in 0 .. m : h(m)[j] =
        IF j = 0 THEN NewDraws(Dims(c)) \o DataDraws(c) ELSE h(m)[j - 1] \o StepDraws(c, j)
  BY ProgramsAre, Zenon
<1> HIDE DEF h
<1>3. 0 \in Nat /\ 0 \in 0 .. 0 /\ k + 1 \in Nat /\ k + 1 \in 0 .. k + 1 /\ k + 1 # 0 /\ (k + 1) - 1 = k
  OBVIOUS
<1>4. ProgramUpTo(c, 0) = NewDraws(Dims(c)) \o DataDraws(c)
  BY <1>1, <1>2, <1>3, Zenon
<1> DEFINE T == {j \in 0 .. k : h(k)[j] = h(k + 1)[j]}
<1>5. 0 \in T
  <2>1. 0 \in 0 .. k /\ 0 \in 0 .. k + 1
    OBVIOUS
  <2>2. h(k)[0] = h(k + 1)[0]
    BY <1>2, <1>3, <2>1, Zenon
  <2>3. QED
    BY <2>1, <2>2
<1>6. ASSUME NEW i \in 1 .. k, i - 1 \in T
      PROVE  i \in T
  <2>1. i \in 0 .. k /\ i \in 0 .. k + 1 /\ i # 0
    OBVIOUS
  <2>2. h(k)[i] = h(k + 1)[i]
    BY <1>2, <1>3, <1>6, <2>1, Zenon
  <2>3. QED
    BY <2>1, <2>2
<1> HIDE DEF T
<1>7. 0 .. k \subseteq T
  BY <1>5, <1>6, Climb
<1>8. k \in T
  BY <1>7
<1>9. h(k)[k] = h(k + 1)[k]
  BY <1>8, Zenon DEF T
<1>10. h(k + 1)[k + 1] = h(k + 1)[k] \o StepDraws(c, k + 1)
  BY <1>2, <1>3, Zenon
<1>11. ProgramUpTo(c, k + 1) = h(k + 1)[k + 1]
  BY <1>1, <1>3, Zenon
<1>12. ProgramUpTo(c, k) = h(k)[k]
  BY <1>1, Zenon
<1>13. QED
  BY <1>4, <1>9, <1>10, <1>11, <1>12, Zenon

LEMMA ProgramType ==
  ASSUME NEW c \in Conf, NEW k \in Nat
  PROVE  /\ ProgramUpTo(c, k) \in Seq(Item)
         /\ 4 <= Len(ProgramUpTo(c, k))
         /\ \A i \in 1 .. 4 : ProgramUpTo(c, k)[i] = Base(Dims(c))[i]
         /\ \A i \in 1 .. Len(ProgramUpTo(c, k)) : ProgramUpTo(c, k)[i] \in Item
         /\ \A i \in 5 .. Len(ProgramUpTo(c, k)) : ProgramUpTo(c, k)[i] \in Trained
<1> DEFINE Good(p) == \E t \in Seq(Trained) : p = Base(Dims(c)) \o t
           T == {m \in Nat : Good(ProgramUpTo(c, m))}
<1>1. 0 \in T
  BY ProgramIs, NothingLazy, DataDrawsType, Zenon
<1>2. ASSUME NEW m \in T, m \in Nat
      PROVE  m + 1 \in T
  <2>1. m + 1 \in Nat
    BY <1>2
  <2>2. PICK t \in Seq(Trained) : ProgramUpTo(c, m) = Base(Dims(c)) \o t
    BY <1>2, Zenon
  <2>3. ProgramUpTo(c, m + 1) = (Base(Dims(c)) \o t) \o StepDraws(c, m + 1)
    BY <1>2, <2>2, ProgramIs, Zenon
  <2>4. StepDraws(c, m + 1) \in Seq(Trained)
    BY <2>1, StepDrawsType, Zenon
  <2> DEFINE u == StepDraws(c, m + 1)
             b == Base(Dims(c))
  <2>5. b \in Seq(Item) /\ t \in Seq(Item) /\ u \in Seq(Item)
    BY <2>4, BaseShape, ItemsOfTrained, Zenon
  <2> HIDE DEF u, b
  <2>6. (b \o t) \o u = b \o (t \o u)
    <3>1. \A v, w, x \in Seq(Item) : (v \o w) \o x = v \o (w \o x)
      <4> SUFFICES ASSUME NEW v \in Seq(Item), NEW w \in Seq(Item), NEW x \in Seq(Item)
                   PROVE  (v \o w) \o x = v \o (w \o x)
        OBVIOUS
      <4> QED
        BY ConcatAssociative, SMTT(20)
    <3>2. QED
      BY <2>5, <3>1
  <2>7. t \o u \in Seq(Trained)
    BY <2>4, ConcatProperties, Zenon DEF u
  <2>8. Good(ProgramUpTo(c, m + 1))
    BY <2>3, <2>6, <2>7, Zenon DEF u, b
  <2>9. QED
    BY <2>1, <2>8, Zenon
<1> HIDE DEF T
<1>3. k \in T
  BY <1>1, <1>2, SetInduction
<1>4. PICK t \in Seq(Trained) : ProgramUpTo(c, k) = Base(Dims(c)) \o t
  BY <1>3, Zenon DEF T
<1> DEFINE b == Base(Dims(c))
<1>5. b \in Seq(Item) /\ Len(b) = 4 /\ t \in Seq(Item)
  BY BaseShape, ItemsOfTrained, Zenon
<1> HIDE DEF b
<1>6. /\ b \o t \in Seq(Item)
      /\ Len(b \o t) = 4 + Len(t)
      /\ \A i \in 1 .. 4 + Len(t) : (b \o t)[i] = IF i <= 4 THEN b[i] ELSE t[i - 4]
  <2>1. /\ b \o t \in Seq(Item)
        /\ Len(b \o t) = Len(b) + Len(t)
        /\ \A i \in 1 .. Len(b) + Len(t) : (b \o t)[i] = IF i <= Len(b) THEN b[i] ELSE t[i - Len(b)]
    BY <1>5, ConcatProperties, Zenon
  <2>2. QED
    BY <1>5, <2>1, Zenon
<1>7. Len(t) \in Nat
  OBVIOUS
<1>8. 4 <= Len(b \o t) /\ \A i \in 1 .. 4 : (b \o t)[i] = b[i]
  BY <1>6, <1>7
<1>9. \A i \in 5 .. Len(b \o t) : (b \o t)[i] \in Trained
  <2> SUFFICES ASSUME NEW i \in 5 .. Len(b \o t)
               PROVE  (b \o t)[i] \in Trained
    OBVIOUS
  <2>1. i - 4 \in 1 .. Len(t) /\ i \in 1 .. 4 + Len(t) /\ ~(i <= 4)
    BY <1>6, <1>7
  <2>2. (b \o t)[i] = t[i - 4]
    BY <1>6, <2>1
  <2>3. QED
    BY <2>1, <2>2, ElementOfSeq
<1>10. \A i \in 1 .. Len(b \o t) : (b \o t)[i] \in Item
  BY <1>6, ElementOfSeq, Zenon
<1>11. QED
  BY <1>4, <1>6, <1>8, <1>9, <1>10, Zenon DEF b

(* A later program begins with an earlier one.                               *)
LEMMA ProgramGrows ==
  ASSUME NEW c \in Conf, NEW k \in Nat
  PROVE  /\ Len(ProgramUpTo(c, k)) <= Len(ProgramUpTo(c, k + 1))
         /\ \A i \in 1 .. Len(ProgramUpTo(c, k)) : ProgramUpTo(c, k + 1)[i] = ProgramUpTo(c, k)[i]
<1>1. k + 1 \in Nat
  OBVIOUS
<1>2. ProgramUpTo(c, k + 1) = ProgramUpTo(c, k) \o StepDraws(c, k + 1)
  BY ProgramIs, Zenon
<1>3. StepDraws(c, k + 1) \in Seq(Item)
  BY <1>1, StepDrawsType, ItemsOfTrained, Zenon
<1>4. PICK p \in Seq(Item), u \in Seq(Item) : p = ProgramUpTo(c, k) /\ u = StepDraws(c, k + 1)
  BY <1>3, ProgramType, Zenon
<1>5. /\ Len(p \o u) = Len(p) + Len(u)
      /\ \A i \in 1 .. Len(p) + Len(u) : (p \o u)[i] = IF i <= Len(p) THEN p[i] ELSE u[i - Len(p)]
  BY ConcatProperties
<1>6. Len(p) \in Nat /\ Len(u) \in Nat
  OBVIOUS
<1>7. Len(p) <= Len(p \o u) /\ \A i \in 1 .. Len(p) : (p \o u)[i] = p[i]
  BY <1>5, <1>6
<1>8. QED
  BY <1>2, <1>4, <1>7, Zenon

LEMMA LaterProgram ==
  ASSUME NEW c \in Conf, NEW k \in Nat, NEW l \in Nat, k <= l
  PROVE  /\ Len(ProgramUpTo(c, k)) <= Len(ProgramUpTo(c, l))
         /\ \A i \in 1 .. Len(ProgramUpTo(c, k)) : ProgramUpTo(c, l)[i] = ProgramUpTo(c, k)[i]
<1> DEFINE P(m) == ProgramUpTo(c, m)
           Begins(m) == Len(P(k)) <= Len(P(m)) /\ \A i \in 1 .. Len(P(k)) : P(m)[i] = P(k)[i]
           T == {d \in Nat : Begins(k + d)}
<1>1. \A m \in Nat : Len(P(m)) \in Nat
  BY ProgramType, LenProperties, Zenon
<1>2. \A m \in Nat : Len(P(m)) <= Len(P(m + 1)) /\ \A i \in 1 .. Len(P(m)) : P(m + 1)[i] = P(m)[i]
  BY ProgramGrows, Zenon
<1> HIDE DEF P
<1>3. 0 \in T
  <2>1. k + 0 = k
    OBVIOUS
  <2>2. QED
    BY <1>1, <2>1
<1>4. ASSUME NEW d \in T, d \in Nat
      PROVE  d + 1 \in T
  <2>1. PICK m \in Nat : m = k + d /\ k + (d + 1) = m + 1
    BY <1>4
  <2>2. Begins(m)
    BY <1>4, <2>1, Zenon
  <2>3. Begins(m + 1)
    <3>1. Len(P(m)) <= Len(P(m + 1)) /\ \A i \in 1 .. Len(P(m)) : P(m + 1)[i] = P(m)[i]
      BY <1>2, Zenon
    <3>2. Len(P(m)) \in Nat /\ Len(P(k)) \in Nat /\ Len(P(m + 1)) \in Nat
      <4>1. m + 1 \in Nat
        OBVIOUS
      <4>2. QED
        BY <1>1, <4>1, Zenon
    <3>3. \A i \in 1 .. Len(P(k)) : i \in 1 .. Len(P(m))
      BY <2>2, <3>2
    <3>4. \A i \in 1 .. Len(P(k)) : P(m + 1)[i] = P(k)[i]
      BY <2>2, <3>1, <3>3, Zenon
    <3>5. Len(P(k)) <= Len(P(m + 1))
      BY <2>2, <3>1, <3>2
    <3>6. QED
      BY <3>4, <3>5, Zenon
  <2>4. QED
    BY <1>4, <2>1, <2>3
<1> HIDE DEF T
<1>5. l - k \in Nat /\ k + (l - k) = l
  OBVIOUS
<1>6. l - k \in T
  BY <1>3, <1>4, <1>5, SetInduction
<1>7. QED
  BY <1>5, <1>6, Zenon DEF T, P

LEMMA RecipeProgram ==
  ASSUME NEW c \in Conf, NEW d \in Conf, Recipe(c) = Recipe(d), NEW k \in Nat
  PROVE  ProgramUpTo(c, k) = ProgramUpTo(d, k)
<1>1. /\ c.task = d.task /\ c.base = d.base /\ c.rank = d.rank /\ c.dropout = d.dropout
  BY RecipeType, Zenon
<1>2. Dims(c) = Dims(d)
  BY <1>1, ZenonT(60) DEF Dims
<1>3. DataDraws(c) = DataDraws(d)
  BY <1>1, Zenon DEF DataDraws
<1>4. \A m : StepDraws(c, m) = StepDraws(d, m)
  BY <1>1, <1>2, Zenon DEF StepDraws, SampleDraws, ForwardDraws, LoraA
<1> DEFINE T == {m \in Nat : ProgramUpTo(c, m) = ProgramUpTo(d, m)}
<1>5. 0 \in T
  BY <1>2, <1>3, ProgramIs, Zenon
<1>6. ASSUME NEW m \in T, m \in Nat
      PROVE  m + 1 \in T
  <2>1. m + 1 \in Nat
    BY <1>6
  <2>2. ProgramUpTo(c, m + 1) = ProgramUpTo(d, m + 1)
    BY <1>4, <1>6, ProgramIs, Zenon
  <2>3. QED
    BY <2>1, <2>2, Zenon
<1> HIDE DEF T
<1>7. k \in T
  BY <1>5, <1>6, SetInduction
<1>8. QED
  BY <1>7, Zenon DEF T

-----------------------------------------------------------------------------
(* Types *)

Places == {"start", "seed", "run", "stepped", "sample", "save", "tensors", "saved", "sidecar", "ended"}
Seeded == Places \ {"start", "seed", "ended"}
Draws == [of : Names, on : STRING, seed : Nat, after : Seq(Seq(Nat)), shape : Seq(Nat)]
States == [seed : Nat, shapes : Seq(Seq(Nat)), by : SUBSET Runs]
Gens == {<<config[r].process, config[r].backend>> : r \in Runs}

TypeInv ==
  /\ \A r \in Runs : config[r] \in Configs[r]
  /\ pc \in [Runs -> Places]
  /\ rng \in [Gens -> States]
  /\ drawn \in [Runs -> Seq(Draws)]
  /\ step \in [Runs -> Nat]
  /\ finite \in [Runs -> BOOLEAN]
  /\ DOMAIN path = Runs
  /\ touched \in [Runs -> Nat \cup {Never}]

LEMMA ConfigOf ==
  ASSUME TypeInv, NEW r \in Runs
  PROVE  config[r] \in Conf /\ Gen(r) \in Gens /\ config[r].seed \in Nat /\ config[r].backend \in STRING
<1>1. config[r] \in Conf
  BY Zenon DEF TypeInv, Conf
<1>2. Gen(r) \in Gens
  BY Zenon DEF Gen, Gens
<1>3. config[r].seed \in Nat /\ config[r].backend \in STRING
  BY <1>1, ConfigType, Zenon
<1>4. QED
  BY <1>1, <1>2, <1>3

LEMMA NextItem ==
  ASSUME TypeInv, NEW r \in Runs, Len(drawn[r]) < Len(ProgramUpTo(config[r], step[r] + 1))
  PROVE  ProgramUpTo(config[r], step[r] + 1)[Len(drawn[r]) + 1] \in Item
<1>1. step[r] + 1 \in Nat /\ Len(drawn[r]) \in Nat
  BY DEF TypeInv
<1> DEFINE p == ProgramUpTo(config[r], step[r] + 1)
<1>2. /\ \A i \in 1 .. Len(p) : p[i] \in Item
      /\ p \in Seq(Item)
  BY <1>1, ConfigOf, ProgramType, Zenon
<1> HIDE DEF p
<1>3. Len(p) \in Nat
  BY <1>2
<1>4. Len(drawn[r]) < Len(p)
  BY DEF p
<1>5. Len(drawn[r]) + 1 \in 1 .. Len(p)
  BY <1>1, <1>3, <1>4
<1>6. QED
  BY <1>2, <1>5, Zenon DEF p

LEMMA StatesKept ==
  ASSUME NEW state \in States, NEW r \in Runs, NEW item \in Item
  PROVE  /\ Shared(state, r) \in States
         /\ Drew(Shared(state, r), item) \in States
         /\ state.by \subseteq {r} => Shared(state, r) = state
<1>1. item[1] \in Names /\ item[2] \in Seq(Nat)
  BY DEF Item
<1>2. Mixed \in Seq(Seq(Nat))
  <2>1. <<0>> \in Seq(Nat)
    OBVIOUS
  <2>2. PICK m \in Seq(Nat) : m = <<0>>
    BY <2>1
  <2>3. <<m>> \in Seq(Seq(Nat))
    OBVIOUS
  <2>4. QED
    BY <2>2, <2>3, Zenon DEF Mixed
<1>3. Shared(state, r) \in States
  <2>1. CASE state.by \subseteq {r}
    BY <2>1, Zenon DEF Shared
  <2>2. CASE ~(state.by \subseteq {r})
    <3>1. Shared(state, r) = [state EXCEPT !.shapes = Mixed, !.by = @ \cup {r}]
      BY <2>2, Zenon DEF Shared
    <3>2. [state EXCEPT !.shapes = Mixed, !.by = @ \cup {r}] \in States
      BY <1>2 DEF States
    <3>3. QED
      BY <3>1, <3>2
  <2>3. QED
    BY <2>1, <2>2
<1>4. ASSUME NEW t \in States
      PROVE  Drew(t, item) \in States
  <2>1. t.shapes \in Seq(Seq(Nat))
    BY DEF States
  <2>2. Append(t.shapes, item[2]) \in Seq(Seq(Nat))
    BY <1>1, <2>1, AppendProperties
  <2>3. [t EXCEPT !.shapes = Append(@, item[2])] \in States
    BY <2>2 DEF States
  <2>4. QED
    BY <2>3, Zenon DEF Drew
<1>5. state.by \subseteq {r} => Shared(state, r) = state
  BY Zenon DEF Shared
<1>6. QED
  BY <1>3, <1>4, <1>5

LEMMA DrawType ==
  ASSUME NEW state \in States, NEW b \in STRING, NEW item \in Item
  PROVE  /\ Draw(b, state, item) \in Draws
         /\ Draw(b, state, item).of = item[1]
         /\ Draw(b, state, item).shape = item[2]
<1>1. item[1] \in Names /\ item[2] \in Seq(Nat)
  BY DEF Item
<1>2. state.seed \in Nat /\ state.shapes \in Seq(Seq(Nat))
  BY DEF States
<1>3. QED
  BY <1>1, <1>2 DEF Draw, Draws

LEMMA TypeInit == Init => TypeInv
<1> SUFFICES ASSUME Init
             PROVE  TypeInv
  OBVIOUS
<1>1. \A r \in Runs : config[r] \in Configs[r]
  BY Zenon DEF Init
<1>2. pc \in [Runs -> Places]
  BY DEF Init, Places
<1>3. rng \in [Gens -> States]
  <2>1. [seed |-> 0, shapes |-> <<>>, by |-> {}] \in States
    BY DEF States
  <2>2. rng = [g \in Gens |-> [seed |-> 0, shapes |-> <<>>, by |-> {}]]
    BY Zenon DEF Init, Gens
  <2>3. QED
    BY <2>1, <2>2, Zenon
<1>4. drawn \in [Runs -> Seq(Draws)]
  <2>1. <<>> \in Seq(Draws)
    BY EmptySeq
  <2>2. QED
    BY <2>1 DEF Init
<1>5. step \in [Runs -> Nat] /\ finite \in [Runs -> BOOLEAN] /\ DOMAIN path = Runs
  BY DEF Init
<1>6. touched \in [Runs -> Nat \cup {Never}]
  BY DEF Init
<1>7. QED
  BY <1>1, <1>2, <1>3, <1>4, <1>5, <1>6, Zenon DEF TypeInv

LEMMA TouchType ==
  ASSUME TypeInv, NEW r \in Runs, Touch(r)
  PROVE  /\ touched' \in [Runs -> Nat \cup {Never}]
         /\ touched'[r] = touched[r]
<1>1. \A s \in Runs : Len(drawn[s]) \in Nat /\ touched[s] \in Nat \cup {Never}
  BY DEF TypeInv
<1>2. QED
  BY <1>1, Zenon DEF Touch

LEMMA ToType ==
  ASSUME TypeInv, NEW r \in Runs, NEW p \in Places, To(r, p)
  PROVE  /\ pc' \in [Runs -> Places]
         /\ pc'[r] = p
         /\ \A s \in Runs : s # r => pc'[s] = pc[s]
BY DEF TypeInv, To

(* What an action that draws nothing and only moves a run leaves as it is.   *)
Moved(r) ==
  /\ config' = config /\ rng' = rng /\ drawn' = drawn /\ step' = step /\ touched' = touched
  /\ DOMAIN path' = Runs
  /\ pc' \in [Runs -> Places]
  /\ \A s \in Runs : s # r => pc'[s] = pc[s] /\ path'[s] = path[s]

LEMMA MovedIs ==
  ASSUME TypeInv, NEW r \in Runs
  PROVE  /\ Checkpoint(r) => Moved(r) /\ pc[r] = "stepped" /\ pc'[r] \in {"save", "sample", "ended"}
         /\ Sample(r) => Moved(r) /\ pc[r] = "sample" /\ pc'[r] \in {"run", "save", "ended"}
         /\ OpenTensors(r) => Moved(r) /\ pc[r] = "save" /\ pc'[r] = "tensors"
         /\ WriteTensors(r) => Moved(r) /\ pc[r] = "tensors" /\ pc'[r] = "saved"
         /\ OpenSidecar(r) => Moved(r) /\ pc[r] = "saved" /\ pc'[r] = "sidecar"
         /\ WriteSidecar(r) => Moved(r) /\ pc[r] = "sidecar" /\ pc'[r] \in {"ended", "sample"}
         /\ Stop(r) => Moved(r) /\ pc[r] \notin {"start", "ended"} /\ pc'[r] = "ended"
         /\ Validate(r) => Moved(r) /\ pc[r] = "start" /\ pc'[r] \in {"seed", "ended"}
<1>1. DOMAIN path = Runs
  BY DEF TypeInv
<1>2. \A p \in Places : To(r, p) => /\ pc' \in [Runs -> Places] /\ pc'[r] = p
                                    /\ \A s \in Runs : s # r => pc'[s] = pc[s]
  BY ToType, Zenon
<1>3. /\ "save" \in Places /\ "sample" \in Places /\ "ended" \in Places /\ "run" \in Places
      /\ "tensors" \in Places /\ "saved" \in Places /\ "sidecar" \in Places /\ "seed" \in Places
  BY DEF Places
<1>4. ASSUME NEW p, path' = [path EXCEPT ![r] = p]
      PROVE  DOMAIN path' = Runs /\ \A s \in Runs : s # r => path'[s] = path[s]
  BY <1>1, <1>4
<1>5. ASSUME path' = path
      PROVE  DOMAIN path' = Runs /\ \A s \in Runs : s # r => path'[s] = path[s]
  BY <1>1, <1>5
<1>6. ASSUME NEW p, SaveTo(r, p)
      PROVE  /\ DOMAIN path' = Runs /\ \A s \in Runs : s # r => path'[s] = path[s]
             /\ pc' \in [Runs -> Places] /\ pc'[r] \in {"save", "ended"}
             /\ \A s \in Runs : s # r => pc'[s] = pc[s]
  <2>1. CASE finite[r]
    <3>1. path' = [path EXCEPT ![r] = p] /\ To(r, "save")
      BY <1>6, <2>1, Zenon DEF SaveTo
    <3>2. QED
      BY <1>2, <1>3, <1>4, <3>1, Zenon
  <2>2. CASE ~finite[r]
    <3>1. path' = path /\ To(r, "ended")
      BY <1>6, <2>2, Zenon DEF SaveTo
    <3>2. QED
      BY <1>2, <1>3, <1>5, <3>1, Zenon
  <2>3. QED
    BY <2>1, <2>2
<1>7. ASSUME Checkpoint(r)
      PROVE  Moved(r) /\ pc[r] = "stepped" /\ pc'[r] \in {"save", "sample", "ended"}
  <2>1. /\ pc[r] = "stepped"
        /\ config' = config /\ rng' = rng /\ drawn' = drawn /\ step' = step /\ touched' = touched
        /\ SaveTo(r, CheckpointPath(r)) \/ (To(r, "sample") /\ path' = path)
    BY <1>7, Zenon DEF Checkpoint
  <2>2. CASE SaveTo(r, CheckpointPath(r))
    BY <1>6, <2>1, <2>2, Zenon DEF Moved
  <2>3. CASE To(r, "sample") /\ path' = path
    BY <1>2, <1>3, <1>5, <2>1, <2>3, Zenon DEF Moved
  <2>4. QED
    BY <2>1, <2>2, <2>3
<1>8. ASSUME Sample(r)
      PROVE  Moved(r) /\ pc[r] = "sample" /\ pc'[r] \in {"run", "save", "ended"}
  <2>1. /\ pc[r] = "sample"
        /\ config' = config /\ rng' = rng /\ drawn' = drawn /\ step' = step /\ touched' = touched
        /\ \/ SaveTo(r, FinalPath(r))
           \/ To(r, "ended") /\ path' = path
           \/ To(r, "run") /\ path' = path
    BY <1>8, Zenon DEF Sample
  <2>2. CASE SaveTo(r, FinalPath(r))
    BY <1>6, <2>1, <2>2, Zenon DEF Moved
  <2>3. CASE To(r, "ended") /\ path' = path
    BY <1>2, <1>3, <1>5, <2>1, <2>3, Zenon DEF Moved
  <2>4. CASE To(r, "run") /\ path' = path
    BY <1>2, <1>3, <1>5, <2>1, <2>4, Zenon DEF Moved
  <2>5. QED
    BY <2>1, <2>2, <2>3, <2>4
<1>9. OpenTensors(r) => Moved(r) /\ pc[r] = "save" /\ pc'[r] = "tensors"
  BY <1>2, <1>3, <1>5, Zenon DEF OpenTensors, Moved
<1>10. WriteTensors(r) => Moved(r) /\ pc[r] = "tensors" /\ pc'[r] = "saved"
  BY <1>2, <1>3, <1>5, Zenon DEF WriteTensors, Moved
<1>11. OpenSidecar(r) => Moved(r) /\ pc[r] = "saved" /\ pc'[r] = "sidecar"
  BY <1>2, <1>3, <1>5, Zenon DEF OpenSidecar, Moved
<1>12. WriteSidecar(r) => Moved(r) /\ pc[r] = "sidecar" /\ pc'[r] \in {"ended", "sample"}
  <2>1. WriteSidecar(r) => To(r, "ended") \/ To(r, "sample")
    BY Zenon DEF WriteSidecar
  <2>2. QED
    BY <1>2, <1>3, <1>5, <2>1, Zenon DEF WriteSidecar, Moved
<1>13. Stop(r) => Moved(r) /\ pc[r] \notin {"start", "ended"} /\ pc'[r] = "ended"
  BY <1>2, <1>3, <1>5, Zenon DEF Stop, Moved
<1>14. Validate(r) => Moved(r) /\ pc[r] = "start" /\ pc'[r] \in {"seed", "ended"}
  <2>1. Validate(r) => To(r, "seed") \/ To(r, "ended")
    BY Zenon DEF Validate
  <2>2. QED
    BY <1>2, <1>3, <1>5, <2>1, Zenon DEF Validate, Moved
<1>15. QED
  BY <1>7, <1>8, <1>9, <1>10, <1>11, <1>12, <1>13, <1>14

LEMMA TypeNext == TypeInv /\ [Next]_vars => TypeInv'
<1> SUFFICES ASSUME TypeInv, [Next]_vars
             PROVE  TypeInv'
  OBVIOUS
<1>1. CASE UNCHANGED vars
  BY <1>1 DEF vars, TypeInv, Gens
<1>2. ASSUME NEW r \in Runs, Moved(r), finite' = finite
      PROVE  TypeInv'
  BY <1>2 DEF Moved, TypeInv, Gens
<1>3. ASSUME NEW r \in Runs, \/ Validate(r) \/ Checkpoint(r) \/ Sample(r) \/ OpenTensors(r) \/ WriteTensors(r)
                             \/ OpenSidecar(r) \/ WriteSidecar(r) \/ Stop(r)
      PROVE  TypeInv'
  <2>1. Moved(r)
    BY <1>3, MovedIs, Zenon
  <2>2. finite' = finite
    BY <1>3, Zenon DEF Validate, Checkpoint, Sample, OpenTensors, WriteTensors, OpenSidecar, WriteSidecar, Stop
  <2>3. QED
    BY <1>2, <2>1, <2>2
<1>4. ASSUME NEW r \in Runs, Seed(r)
      PROVE  TypeInv'
  <2>1. "run" \in Places
    BY DEF Places
  <2>2. pc' \in [Runs -> Places] /\ touched' \in [Runs -> Nat \cup {Never}]
    BY <1>4, <2>1, ToType, TouchType, Zenon DEF Seed
  <2>3. [seed |-> config[r].seed, shapes |-> <<>>, by |-> {r}] \in States
    BY ConfigOf DEF States
  <2>4. rng' \in [Gens -> States]
    BY <1>4, <2>3 DEF Seed, TypeInv
  <2>5. config' = config /\ drawn' = drawn /\ step' = step /\ finite' = finite /\ path' = path
    BY <1>4, Zenon DEF Seed
  <2>6. QED
    BY <2>2, <2>4, <2>5 DEF TypeInv, Gens
<1>5. ASSUME NEW r \in Runs, DrawNext(r)
      PROVE  TypeInv'
  <2> DEFINE item == ProgramUpTo(config[r], step[r] + 1)[Len(drawn[r]) + 1]
             state == Shared(rng[Gen(r)], r)
  <2>1. /\ drawn' = [drawn EXCEPT ![r] = Append(@, Draw(config[r].backend, state, item))]
        /\ rng' = [rng EXCEPT ![Gen(r)] = Drew(state, item)]
        /\ Touch(r)
        /\ pc' = pc /\ config' = config /\ step' = step /\ finite' = finite /\ path' = path
    BY <1>5, Zenon DEF DrawNext
  <2>2. item \in Item
    BY <1>5, NextItem, Zenon DEF DrawNext
  <2>3. rng[Gen(r)] \in States
    BY ConfigOf, Zenon DEF TypeInv
  <2>4. state \in States /\ Drew(state, item) \in States
    BY <2>2, <2>3, StatesKept, Zenon
  <2> HIDE DEF item, state
  <2>5. Draw(config[r].backend, state, item) \in Draws
    BY <2>2, <2>4, ConfigOf, DrawType, Zenon
  <2>6. drawn[r] \in Seq(Draws)
    BY DEF TypeInv
  <2>7. Append(drawn[r], Draw(config[r].backend, state, item)) \in Seq(Draws)
    BY <2>5, <2>6, AppendProperties, Zenon
  <2>8. drawn' \in [Runs -> Seq(Draws)]
    BY <2>1, <2>7 DEF TypeInv
  <2>9. rng' \in [Gens -> States]
    BY <2>1, <2>4 DEF TypeInv
  <2>10. touched' \in [Runs -> Nat \cup {Never}]
    BY <2>1, TouchType, Zenon
  <2>11. QED
    BY <2>1, <2>8, <2>9, <2>10 DEF TypeInv, Gens
<1>6. ASSUME NEW r \in Runs, TrainStep(r)
      PROVE  TypeInv'
  <2>1. "stepped" \in Places
    BY DEF Places
  <2>2. pc' \in [Runs -> Places]
    BY <1>6, <2>1, ToType, Zenon DEF TrainStep
  <2>3. step' \in [Runs -> Nat]
    BY <1>6 DEF TrainStep, TypeInv
  <2>4. finite' \in [Runs -> BOOLEAN]
    <3>1. PICK d \in BOOLEAN : finite' = [finite EXCEPT ![r] = finite[r] /\ ~d]
      BY <1>6, Zenon DEF TrainStep
    <3>2. (finite[r] /\ ~d) \in BOOLEAN
      BY Zenon
    <3>3. QED
      BY <3>1, <3>2, Zenon DEF TypeInv
  <2>5. config' = config /\ rng' = rng /\ drawn' = drawn /\ path' = path /\ touched' = touched
    BY <1>6, Zenon DEF TrainStep
  <2>6. QED
    BY <2>2, <2>3, <2>4, <2>5 DEF TypeInv, Gens
<1>7. QED
  BY <1>1, <1>3, <1>4, <1>5, <1>6, Zenon DEF Next

(* The variables keep their types: every draw is a named tensor of a shape,  *)
(* from a generator of the process and backend of its run.                   *)
THEOREM TypeCorrect == Spec => []TypeInv
<1>1. QED
  BY TypeInit, TypeNext, PTL DEF Spec

-----------------------------------------------------------------------------
(* What a run has drawn *)

(* The shapes of the first n draws of c, and its ith draw from a generator   *)
(* of its own, k steps in.                                                   *)
Told(c, k, n) == [j \in 1 .. n |-> ProgramUpTo(c, k)[j][2]]
Alone(c, k, i) ==
  Draw(c.backend, [seed |-> c.seed, shapes |-> Told(c, k, i - 1)], ProgramUpTo(c, k)[i])

RunFits(r) ==
  LET c == config[r]
      k == step[r] + 1
  IN  /\ pc[r] \in {"start", "seed"} => drawn[r] = <<>> /\ touched[r] = Never
      /\ Len(drawn[r]) <= Len(ProgramUpTo(c, k))
      /\ \A i \in 1 .. Len(drawn[r]) : drawn[r][i].of = ProgramUpTo(c, k)[i][1]
      /\ touched[r] # Never => touched[r] \in 0 .. Len(drawn[r])
      /\ \A i \in 1 .. Clean(r) : drawn[r][i] = Alone(c, k, i)
      /\ pc[r] \in Seeded /\ touched[r] = Never =>
           rng[Gen(r)] = [seed |-> c.seed, shapes |-> Told(c, k, Len(drawn[r])), by |-> {r}]

DrawInv == TypeInv /\ \A r \in Runs : RunFits(r)

LEMMA ToldType ==
  ASSUME NEW c \in Conf, NEW k \in Nat, NEW n \in 0 .. Len(ProgramUpTo(c, k))
  PROVE  /\ Told(c, k, n) \in Seq(Seq(Nat))
         /\ Len(Told(c, k, n)) = n
         /\ n = 0 => Told(c, k, n) = <<>>
         /\ Told(c, k, n) # Mixed
         /\ n < Len(ProgramUpTo(c, k)) =>
              Append(Told(c, k, n), ProgramUpTo(c, k)[n + 1][2]) = Told(c, k, n + 1)
<1> DEFINE p == ProgramUpTo(c, k)
<1>1. p \in Seq(Item) /\ \A i \in 1 .. Len(p) : p[i] \in Item
  BY ProgramType, Zenon
<1>2. p[1] = Base(Dims(c))[1] /\ Len(Base(Dims(c))[1][2]) = 2 /\ 4 <= Len(p)
  <2>1. 1 \in 1 .. 4
    OBVIOUS
  <2>2. QED
    BY <2>1, ProgramType, BaseShape, Zenon
<1> HIDE DEF p
<1>3. Len(p) \in Nat /\ n \in Nat /\ n <= Len(p)
  <2>1. Len(p) \in Nat
    BY <1>1
  <2>2. n \in 0 .. Len(p)
    BY DEF p
  <2>3. QED
    BY <2>1, <2>2
<1>4. \A i \in 1 .. Len(p) : p[i][2] \in Seq(Nat)
  BY <1>1 DEF Item
<1>5. \A m \in 0 .. Len(p) : Told(c, k, m) \in [1 .. m -> Seq(Nat)]
  <2> SUFFICES ASSUME NEW m \in 0 .. Len(p)
               PROVE  Told(c, k, m) \in [1 .. m -> Seq(Nat)]
    OBVIOUS
  <2>1. \A j \in 1 .. m : p[j][2] \in Seq(Nat)
    BY <1>3, <1>4
  <2>2. Told(c, k, m) = [j \in 1 .. m |-> p[j][2]]
    BY Zenon DEF Told, p
  <2>3. QED
    BY <2>1, <2>2, Zenon
<1>6. ASSUME NEW m \in 0 .. Len(p)
      PROVE  Told(c, k, m) \in Seq(Seq(Nat)) /\ Len(Told(c, k, m)) = m
  <2>1. m \in Nat
    BY <1>3
  <2>2. Told(c, k, m) \in [1 .. m -> Seq(Nat)]
    BY <1>5
  <2>3. QED
    BY <2>1, <2>2
<1>7. n \in 0 .. Len(p)
  BY <1>3
<1>8. n = 0 => Told(c, k, n) = <<>>
  <2>1. Told(c, k, n) \in Seq(Seq(Nat)) /\ Len(Told(c, k, n)) = n
    BY <1>6, <1>7, Zenon
  <2>2. QED
    BY <2>1, EmptySeq
<1>9. Told(c, k, n) # Mixed
  <2> SUFFICES ASSUME Told(c, k, n) = Mixed
               PROVE  FALSE
    OBVIOUS
  <2>1. Len(Mixed) = 1 /\ Mixed[1] = <<0>>
    BY DEF Mixed
  <2>2. n = 1
    BY <1>6, <1>7, <2>1
  <2>3. Told(c, k, n)[1] = p[1][2]
    <3>1. 1 \in 1 .. n
      BY <2>2
    <3>2. QED
      BY <3>1, Zenon DEF Told, p
  <2>4. Len(<<0>>) = 1
    OBVIOUS
  <2>5. Len(p[1][2]) = 2
    BY <1>2, Zenon
  <2>6. Len(p[1][2]) = 1
    BY <2>1, <2>3, <2>4, Zenon
  <2>7. QED
    BY <2>5, <2>6
<1>10. n < Len(p) => Append(Told(c, k, n), p[n + 1][2]) = Told(c, k, n + 1)
  <2> SUFFICES ASSUME n < Len(p)
               PROVE  Append(Told(c, k, n), p[n + 1][2]) = Told(c, k, n + 1)
    OBVIOUS
  <2>1. n + 1 \in 0 .. Len(p) /\ n + 1 \in 1 .. Len(p)
    BY <1>3
  <2>2. PICK t \in Seq(Seq(Nat)) : t = Told(c, k, n) /\ Len(t) = n
    BY <1>6, <1>7
  <2>3. PICK u \in Seq(Seq(Nat)) : u = Told(c, k, n + 1) /\ Len(u) = n + 1
    BY <1>6, <2>1
  <2>4. PICK x \in Seq(Nat) : x = p[n + 1][2]
    BY <1>4, <2>1
  <2>5. \A j \in 1 .. n : t[j] = p[j][2]
    BY <2>2, Zenon DEF Told, p
  <2>6. \A j \in 1 .. n + 1 : u[j] = p[j][2]
    BY <2>3, Zenon DEF Told, p
  <2>7. /\ Append(t, x) \in Seq(Seq(Nat)) /\ Len(Append(t, x)) = n + 1
        /\ \A j \in 1 .. n : Append(t, x)[j] = t[j]
        /\ Append(t, x)[n + 1] = x
    <3>1. /\ Append(t, x) \in Seq(Seq(Nat)) /\ Len(Append(t, x)) = Len(t) + 1
          /\ \A j \in 1 .. Len(t) : Append(t, x)[j] = t[j]
          /\ Append(t, x)[Len(t) + 1] = x
      BY AppendProperties
    <3>2. QED
      BY <2>2, <3>1, Zenon
  <2>8. \A j \in 1 .. n + 1 : Append(t, x)[j] = u[j]
    <3> SUFFICES ASSUME NEW j \in 1 .. n + 1
                 PROVE  Append(t, x)[j] = u[j]
      OBVIOUS
    <3>1. CASE j = n + 1
      BY <2>4, <2>6, <2>7, <3>1, Zenon
    <3>2. CASE j # n + 1
      <4>1. j \in 1 .. n
        BY <1>3, <3>2
      <4>2. QED
        BY <2>5, <2>6, <2>7, <4>1, Zenon
    <3>3. QED
      BY <3>1, <3>2
  <2>9. Append(t, x) = u
    BY <2>3, <2>7, <2>8, SeqEqual
  <2>10. QED
    BY <2>2, <2>3, <2>4, <2>9, Zenon
<1>11. QED
  BY <1>6, <1>7, <1>8, <1>9, <1>10, Zenon DEF p

(* What a run draws alone depends on its recipe, and not on how far it is.   *)
LEMMA AloneKept ==
  ASSUME NEW c \in Conf, NEW d \in Conf, Recipe(c) = Recipe(d), NEW k \in Nat, NEW l \in Nat, k <= l
  PROVE  /\ \A n \in 0 .. Len(ProgramUpTo(c, k)) : Told(c, k, n) = Told(d, l, n)
         /\ \A i \in 1 .. Len(ProgramUpTo(c, k)) : Alone(c, k, i) = Alone(d, l, i)
<1>1. ProgramUpTo(d, l) = ProgramUpTo(c, l)
  BY RecipeProgram, Zenon
<1>2. \A i \in 1 .. Len(ProgramUpTo(c, k)) : ProgramUpTo(d, l)[i] = ProgramUpTo(c, k)[i]
  <2>1. \A i \in 1 .. Len(ProgramUpTo(c, k)) : ProgramUpTo(c, l)[i] = ProgramUpTo(c, k)[i]
    BY LaterProgram, Zenon
  <2>2. QED
    BY <1>1, <2>1, Zenon
<1>3. Len(ProgramUpTo(c, k)) \in Nat
  BY ProgramType, LenProperties, Zenon
<1>4. ASSUME NEW n \in 0 .. Len(ProgramUpTo(c, k))
      PROVE  Told(c, k, n) = Told(d, l, n)
  <2>1. \A j \in 1 .. n : j \in 1 .. Len(ProgramUpTo(c, k))
    BY <1>3
  <2>2. \A j \in 1 .. n : ProgramUpTo(c, k)[j][2] = ProgramUpTo(d, l)[j][2]
    BY <1>2, <2>1, Zenon
  <2>3. QED
    BY <2>2, Zenon DEF Told
<1>5. ASSUME NEW i \in 1 .. Len(ProgramUpTo(c, k))
      PROVE  Alone(c, k, i) = Alone(d, l, i)
  <2>1. i - 1 \in 0 .. Len(ProgramUpTo(c, k))
    BY <1>3
  <2>2. Told(c, k, i - 1) = Told(d, l, i - 1)
    BY <1>4, <2>1
  <2>3. c.seed = d.seed /\ c.backend = d.backend
    BY RecipeType, Zenon
  <2>4. QED
    BY <1>2, <2>2, <2>3, Zenon DEF Alone
<1>6. QED
  BY <1>4, <1>5

LEMMA CleanType ==
  ASSUME TypeInv, NEW r \in Runs, RunFits(r)
  PROVE  Len(drawn[r]) \in Nat /\ Clean(r) \in 0 .. Len(drawn[r])
<1>1. Len(drawn[r]) \in Nat /\ touched[r] \in Nat \cup {Never}
  BY DEF TypeInv
<1>2. touched[r] # Never => touched[r] \in 0 .. Len(drawn[r])
  BY Zenon DEF RunFits
<1>3. QED
  BY <1>1, <1>2 DEF Clean

LEMMA DrawInit == Init => DrawInv
<1> SUFFICES ASSUME Init, NEW r \in Runs
             PROVE  RunFits(r)
  BY TypeInit DEF DrawInv
<1>1. pc[r] = "start" /\ drawn[r] = <<>> /\ touched[r] = Never /\ step[r] = 0
  BY DEF Init
<1>2. Len(drawn[r]) = 0 /\ Clean(r) = 0
  BY <1>1 DEF Clean
<1>3. \A i : i \notin 1 .. 0
  OBVIOUS
<1>4. "start" \notin Seeded
  BY DEF Seeded
<1>5. config[r] \in Conf /\ step[r] + 1 \in Nat
  BY <1>1, TypeInit, ConfigOf
<1>6. 0 <= Len(ProgramUpTo(config[r], step[r] + 1))
  BY <1>5, ProgramType
<1>7. QED
  BY <1>1, <1>2, <1>3, <1>4, <1>6, Zenon DEF RunFits

(* A run that does nothing, whatever another does to its generator.          *)
LEMMA OthersFit ==
  ASSUME TypeInv, NEW r \in Runs, NEW s \in Runs, s # r, RunFits(s), Touch(r),
         config' = config, step' = step, pc'[s] = pc[s], drawn'[s] = drawn[s],
         \A g \in Gens : g # Gen(r) => rng'[g] = rng[g]
  PROVE  RunFits(s)'
<1>1. pc[s] \in Places
  BY DEF TypeInv
<1>2. pc[s] \in Seeded <=> pc[s] \notin {"start", "seed", "ended"}
  BY <1>1, Zenon DEF Seeded
<1>3. touched'[s] = IF Gen(s) = Gen(r) /\ pc[s] \in Seeded /\ touched[s] = Never
                      THEN Len(drawn[s]) ELSE touched[s]
  BY <1>2, Zenon DEF Touch
<1>4. Len(drawn[s]) \in Nat /\ Len(drawn[s]) # Never /\ touched[s] \in Nat \cup {Never}
  <2>1. Len(drawn[s]) \in Nat /\ touched[s] \in Nat \cup {Never}
    BY DEF TypeInv
  <2>2. QED
    BY <2>1 DEF Never
<1>5. Clean(s)' = Clean(s)
  BY <1>3, <1>4, Zenon DEF Clean
<1>6. touched'[s] # Never => touched'[s] \in 0 .. Len(drawn[s])
  <2>1. Len(drawn[s]) \in 0 .. Len(drawn[s])
    BY <1>4
  <2>2. QED
    BY <1>3, <2>1, Zenon DEF RunFits
<1>7. Gen(s)' = Gen(s)
  BY Zenon DEF Gen
<1>8. pc[s] \in Seeded /\ touched'[s] = Never =>
        touched[s] = Never /\ rng'[Gen(s)] = rng[Gen(s)]
  <2>1. Gen(s) \in Gens
    BY ConfigOf, Zenon
  <2>2. QED
    BY <1>3, <1>4, <2>1, Zenon
<1>9. pc[s] \in {"start", "seed"} => touched'[s] = touched[s]
  BY <1>3, Zenon DEF Seeded
<1>10. QED
  BY <1>5, <1>6, <1>7, <1>8, <1>9, Zenon DEF RunFits

LEMMA SeedFits ==
  ASSUME DrawInv, NEW r \in Runs, Seed(r)
  PROVE  DrawInv'
<1>1. TypeInv /\ TypeInv'
  BY TypeNext, Zenon DEF DrawInv, Next
<1>2. /\ pc[r] = "seed" /\ Touch(r) /\ To(r, "run")
      /\ rng' = [rng EXCEPT ![Gen(r)] = [seed |-> config[r].seed, shapes |-> <<>>, by |-> {r}]]
      /\ config' = config /\ drawn' = drawn /\ step' = step
  BY Zenon DEF Seed
<1>3. Gen(r) \in Gens /\ Gen(r)' = Gen(r)
  BY <1>1, <1>2, ConfigOf, Zenon DEF Gen
<1>4. pc'[r] = "run" /\ \A s \in Runs : s # r => pc'[s] = pc[s]
  <2>1. "run" \in Places
    BY DEF Places
  <2>2. QED
    BY <1>1, <1>2, <2>1, ToType, Zenon
<1>5. drawn[r] = <<>> /\ touched[r] = Never /\ touched'[r] = Never
  BY <1>1, <1>2, TouchType, Zenon DEF DrawInv, RunFits
<1>6. /\ rng'[Gen(r)] = [seed |-> config[r].seed, shapes |-> <<>>, by |-> {r}]
      /\ \A g \in Gens : g # Gen(r) => rng'[g] = rng[g]
  BY <1>1, <1>2, <1>3, Zenon DEF TypeInv
<1>7. RunFits(r)'
  <2>1. config[r] \in Conf /\ step[r] + 1 \in Nat
    BY <1>1, ConfigOf DEF TypeInv
  <2>2. Len(<<>>) = 0 /\ 0 \in 0 .. Len(ProgramUpTo(config[r], step[r] + 1))
    BY <2>1, ProgramType
  <2>3. Told(config[r], step[r] + 1, 0) = <<>>
    BY <2>1, <2>2, ToldType, Zenon
  <2>4. Clean(r)' = Clean(r)
    BY <1>2, <1>5, Zenon DEF Clean
  <2>5. "run" \notin {"start", "seed"}
    OBVIOUS
  <2>6. rng'[Gen(r)'] = [seed |-> config'[r].seed, shapes |-> Told(config'[r], step'[r] + 1, Len(drawn'[r])), by |-> {r}]
    BY <1>2, <1>3, <1>5, <1>6, <2>2, <2>3, Zenon
  <2>7. QED
    BY <1>2, <1>4, <1>5, <2>4, <2>5, <2>6, Zenon DEF DrawInv, RunFits
<1>8. ASSUME NEW s \in Runs, s # r
      PROVE  RunFits(s)'
  BY <1>1, <1>2, <1>4, <1>6, <1>8, OthersFit, Zenon DEF DrawInv
<1>9. QED
  BY <1>1, <1>7, <1>8, Zenon DEF DrawInv

LEMMA DrawNextFits ==
  ASSUME DrawInv, NEW r \in Runs, DrawNext(r)
  PROVE  DrawInv'
<1> DEFINE c == config[r]
           k == step[r] + 1
           p == ProgramUpTo(c, k)
           n == Len(drawn[r])
           item == p[n + 1]
           state == Shared(rng[Gen(r)], r)
           d == Draw(c.backend, state, item)
<1>1. TypeInv /\ TypeInv' /\ RunFits(r)
  BY TypeNext, Zenon DEF DrawInv, Next
<1>2. /\ pc[r] = "run" /\ n < Len(p) /\ Touch(r)
      /\ drawn' = [drawn EXCEPT ![r] = Append(@, d)]
      /\ rng' = [rng EXCEPT ![Gen(r)] = Drew(state, item)]
      /\ pc' = pc /\ config' = config /\ step' = step
  BY Zenon DEF DrawNext
<1>3. Gen(r) \in Gens /\ Gen(r)' = Gen(r) /\ c \in Conf /\ k \in Nat /\ n \in Nat /\ Clean(r) \in 0 .. n
  <2>1. Gen(r) \in Gens /\ Gen(r)' = Gen(r) /\ c \in Conf
    BY <1>1, <1>2, ConfigOf, Zenon DEF Gen
  <2>2. k \in Nat
    BY <1>1 DEF TypeInv
  <2>3. n \in Nat /\ Clean(r) \in 0 .. n
    BY <1>1, CleanType, Zenon
  <2>4. QED
    BY <2>1, <2>2, <2>3, Zenon
<1>4. item \in Item
  BY <1>1, <1>2, NextItem, Zenon
<1>5. rng[Gen(r)] \in States
  BY <1>1, <1>3, Zenon DEF TypeInv
<1>6. state \in States
  BY <1>4, <1>5, StatesKept, Zenon
<1>7. d \in Draws /\ d.of = item[1]
  BY <1>1, <1>4, <1>6, ConfigOf, DrawType, Zenon
<1>8. touched'[r] = touched[r]
  BY <1>1, <1>2, TouchType, Zenon
<1>9. drawn[r] \in Seq(Draws) /\ drawn'[r] = Append(drawn[r], d) /\ \A s \in Runs : s # r => drawn'[s] = drawn[s]
  BY <1>1, <1>2, Zenon DEF TypeInv
<1>10. /\ rng'[Gen(r)] = Drew(state, item)
       /\ \A g \in Gens : g # Gen(r) => rng'[g] = rng[g]
  BY <1>1, <1>2, <1>3, Zenon DEF TypeInv
<1>11. /\ Len(drawn'[r]) = n + 1
       /\ \A i \in 1 .. n : drawn'[r][i] = drawn[r][i]
       /\ drawn'[r][n + 1] = d
  <2> HIDE DEF d
  <2>1. PICK q \in Seq(Draws) : q = drawn[r]
    BY <1>9
  <2>2. /\ Len(Append(q, d)) = Len(q) + 1
        /\ \A i \in 1 .. Len(q) : Append(q, d)[i] = q[i]
        /\ Append(q, d)[Len(q) + 1] = d
    BY <1>7, AppendProperties
  <2>3. QED
    BY <1>9, <2>1, <2>2, Zenon
<1>12. pc[r] \in Seeded /\ pc[r] \notin {"start", "seed"}
  <2>1. "run" \in Seeded /\ "run" \notin {"start", "seed"}
    BY DEF Seeded, Places
  <2>2. QED
    BY <1>2, <2>1, Zenon
<1> HIDE DEF c, k, p, n, item, state, d
<1>13. Len(p) \in Nat
  BY <1>3, ProgramType, LenProperties, Zenon DEF p
<1>14. \A i \in 1 .. n + 1 : drawn'[r][i].of = p[i][1]
  <2> SUFFICES ASSUME NEW i \in 1 .. n + 1
               PROVE  drawn'[r][i].of = p[i][1]
    OBVIOUS
  <2>1. CASE i = n + 1
    BY <1>7, <1>11, <2>1, Zenon DEF item
  <2>2. CASE i # n + 1
    <3>1. i \in 1 .. n
      BY <1>3, <2>2
    <3>2. QED
      BY <1>1, <1>11, <3>1, Zenon DEF RunFits, c, k, p, n
  <2>3. QED
    BY <2>1, <2>2
<1>15. touched[r] # Never => touched[r] \in 0 .. n + 1
  <2>1. touched[r] # Never => touched[r] \in 0 .. n
    BY <1>1, Zenon DEF RunFits, n
  <2>2. QED
    BY <1>3, <2>1
<1>16. \A i \in 1 .. Clean(r) : drawn'[r][i] = Alone(c, k, i)
  <2>1. \A i \in 1 .. Clean(r) : i \in 1 .. n
    BY <1>3
  <2>2. QED
    BY <1>1, <1>11, <2>1, Zenon DEF RunFits, c, k
<1>17. ASSUME touched[r] = Never
       PROVE  /\ Clean(r)' = n + 1 /\ Clean(r) = n
              /\ drawn'[r][n + 1] = Alone(c, k, n + 1)
              /\ rng'[Gen(r)] = [seed |-> c.seed, shapes |-> Told(c, k, n + 1), by |-> {r}]
  <2>1. Clean(r)' = n + 1 /\ Clean(r) = n
    BY <1>8, <1>11, <1>17, Zenon DEF Clean, n
  <2>2. rng[Gen(r)] = [seed |-> c.seed, shapes |-> Told(c, k, n), by |-> {r}]
    BY <1>1, <1>12, <1>17, Zenon DEF RunFits, c, k, n
  <2>3. rng[Gen(r)].by = {r} /\ rng[Gen(r)].seed = c.seed /\ rng[Gen(r)].shapes = Told(c, k, n)
    BY <2>2
  <2>4. state = rng[Gen(r)]
    BY <1>4, <1>5, <2>3, StatesKept, Zenon DEF state
  <2>5. n \in 0 .. Len(p)
    BY <1>2, <1>3, <1>13
  <2>6. /\ Told(c, k, n) # Mixed
        /\ n < Len(p) => Append(Told(c, k, n), p[n + 1][2]) = Told(c, k, n + 1)
    BY <1>3, <2>5, ToldType, Zenon DEF p
  <2>7. Append(Told(c, k, n), item[2]) = Told(c, k, n + 1)
    BY <1>2, <2>6, Zenon DEF item
  <2>8. Drew(state, item) = [state EXCEPT !.shapes = Append(@, item[2])]
    BY <2>3, <2>4, <2>6, Zenon DEF Drew
  <2>9. Drew(state, item) = [seed |-> c.seed, shapes |-> Append(Told(c, k, n), item[2]), by |-> {r}]
    <3>1. \A a, b, e, x : [[seed |-> a, shapes |-> b, by |-> e] EXCEPT !.shapes = x]
                           = [seed |-> a, shapes |-> x, by |-> e]
      OBVIOUS
    <3>2. state = [seed |-> c.seed, shapes |-> Told(c, k, n), by |-> {r}] /\ state.shapes = Told(c, k, n)
      BY <2>2, <2>3, <2>4, Zenon
    <3>3. QED
      BY <2>8, <3>1, <3>2, Zenon
  <2>10. rng'[Gen(r)] = [seed |-> c.seed, shapes |-> Told(c, k, n + 1), by |-> {r}]
    BY <1>10, <2>7, <2>9, Zenon
  <2>11. (n + 1) - 1 = n
    BY <1>3
  <2>12. d = Alone(c, k, n + 1)
    <3>1. Alone(c, k, n + 1) = Draw(c.backend, [seed |-> c.seed, shapes |-> Told(c, k, n)], item)
      BY <2>11, Zenon DEF Alone, item, p
    <3>2. \A b, st, it : Draw(b, st, it) = [of |-> it[1], on |-> b, seed |-> st.seed, after |-> st.shapes, shape |-> it[2]]
      BY Zenon DEF Draw
    <3>3. /\ [seed |-> c.seed, shapes |-> Told(c, k, n)].seed = c.seed
          /\ [seed |-> c.seed, shapes |-> Told(c, k, n)].shapes = Told(c, k, n)
      OBVIOUS
    <3>4. d = Draw(c.backend, state, item)
      BY Zenon DEF d
    <3>5. QED
      BY <2>3, <2>4, <3>1, <3>2, <3>3, <3>4, Zenon
  <2>13. QED
    BY <1>11, <2>1, <2>10, <2>12, Zenon
<1>18. \A i \in 1 .. Clean(r)' : drawn'[r][i] = Alone(c, k, i)
  <2>1. CASE touched[r] = Never
    <3>1. \A i \in 1 .. n + 1 : i \in 1 .. n \/ i = n + 1
      BY <1>3
    <3>2. QED
      BY <1>16, <1>17, <2>1, <3>1, Zenon
  <2>2. CASE touched[r] # Never
    <3>1. Clean(r)' = Clean(r)
      BY <1>8, <2>2, Zenon DEF Clean
    <3>2. QED
      BY <1>16, <3>1, Zenon
  <2>3. QED
    BY <2>1, <2>2
<1>19. n + 1 <= Len(p)
  BY <1>2, <1>3, <1>13
<1>20. RunFits(r)'
  <2>1. config'[r] = c /\ step'[r] + 1 = k /\ ProgramUpTo(c, k) = p
    BY <1>2, Zenon DEF c, k, p
  <2>2. pc'[r] \notin {"start", "seed"}
    BY <1>2, <1>12, Zenon
  <2>3. QED
    BY <1>3, <1>8, <1>11, <1>14, <1>15, <1>17, <1>18, <1>19, <2>1, <2>2, Zenon DEF RunFits
<1>21. ASSUME NEW s \in Runs, s # r
       PROVE  RunFits(s)'
  <2>1. RunFits(s) /\ pc'[s] = pc[s] /\ drawn'[s] = drawn[s]
    BY <1>2, <1>9, <1>21, Zenon DEF DrawInv
  <2>2. QED
    BY <1>1, <1>2, <1>10, <1>21, <2>1, OthersFit, Zenon
<1>22. QED
  BY <1>1, <1>20, <1>21, Zenon DEF DrawInv

LEMMA TrainStepFits ==
  ASSUME DrawInv, NEW r \in Runs, TrainStep(r)
  PROVE  DrawInv'
<1>1. TypeInv /\ TypeInv' /\ RunFits(r)
  BY TypeNext, Zenon DEF DrawInv, Next
<1>2. /\ pc[r] = "run" /\ To(r, "stepped")
      /\ config' = config /\ drawn' = drawn /\ touched' = touched /\ rng' = rng
      /\ step' = [step EXCEPT ![r] = @ + 1]
  BY Zenon DEF TrainStep
<1>3. step'[r] = step[r] + 1 /\ step[r] \in Nat /\ \A s \in Runs : s # r => step'[s] = step[s]
  BY <1>1, <1>2 DEF TypeInv
<1>4. pc'[r] = "stepped" /\ \A s \in Runs : s # r => pc'[s] = pc[s]
  <2>1. "stepped" \in Places
    BY DEF Places
  <2>2. QED
    BY <1>1, <1>2, <2>1, ToType, Zenon
<1>5. "stepped" \notin {"start", "seed"} /\ "run" \in Seeded
  BY DEF Seeded, Places
<1>6. \A s : Gen(s)' = Gen(s) /\ Clean(s)' = Clean(s)
  BY <1>2, Zenon DEF Gen, Clean
<1> DEFINE c == config[r]
           k == step[r] + 1
           n == Len(drawn[r])
<1>7. c \in Conf /\ k \in Nat /\ k + 1 \in Nat /\ k <= k + 1 /\ n \in Nat /\ Clean(r) \in 0 .. n
  <2>1. c \in Conf /\ n \in Nat /\ Clean(r) \in 0 .. n
    BY <1>1, ConfigOf, CleanType, Zenon
  <2>2. k \in Nat /\ k + 1 \in Nat /\ k <= k + 1
    BY <1>3
  <2>3. QED
    BY <2>1, <2>2, Zenon
<1>8. step'[r] + 1 = k + 1 /\ config'[r] = c /\ drawn'[r] = drawn[r] /\ touched'[r] = touched[r]
  BY <1>2, <1>3, Zenon
<1>9. n <= Len(ProgramUpTo(c, k))
  BY <1>1, Zenon DEF RunFits
<1> HIDE DEF c, k, n
<1>10. /\ Len(ProgramUpTo(c, k)) \in Nat /\ Len(ProgramUpTo(c, k + 1)) \in Nat
       /\ Len(ProgramUpTo(c, k)) <= Len(ProgramUpTo(c, k + 1))
       /\ \A i \in 1 .. Len(ProgramUpTo(c, k)) : ProgramUpTo(c, k + 1)[i] = ProgramUpTo(c, k)[i]
  BY <1>7, ProgramType, LenProperties, ProgramGrows, Zenon
<1>11. /\ \A m \in 0 .. Len(ProgramUpTo(c, k)) : Told(c, k, m) = Told(c, k + 1, m)
       /\ \A i \in 1 .. Len(ProgramUpTo(c, k)) : Alone(c, k, i) = Alone(c, k + 1, i)
  BY <1>7, AloneKept, Zenon
<1>12. n <= Len(ProgramUpTo(c, k + 1))
  BY <1>7, <1>9, <1>10
<1>13. \A i \in 1 .. n : i \in 1 .. Len(ProgramUpTo(c, k))
  BY <1>7, <1>9, <1>10
<1>14. n \in 0 .. Len(ProgramUpTo(c, k)) /\ \A i \in 1 .. Clean(r) : i \in 1 .. n
  BY <1>7, <1>9, <1>10
<1>15. \A i \in 1 .. n : drawn[r][i].of = ProgramUpTo(c, k + 1)[i][1]
  BY <1>1, <1>10, <1>13, Zenon DEF RunFits, c, k, n
<1>16. \A i \in 1 .. Clean(r) : drawn[r][i] = Alone(c, k + 1, i)
  BY <1>1, <1>11, <1>13, <1>14, Zenon DEF RunFits, c, k, n
<1>17. touched[r] = Never =>
         rng[Gen(r)] = [seed |-> c.seed, shapes |-> Told(c, k + 1, n), by |-> {r}]
  <2>1. touched[r] = Never => rng[Gen(r)] = [seed |-> c.seed, shapes |-> Told(c, k, n), by |-> {r}]
    BY <1>1, <1>2, <1>5, Zenon DEF RunFits, c, k, n
  <2>2. QED
    BY <1>11, <1>14, <2>1, Zenon
<1>18. touched[r] # Never => touched[r] \in 0 .. n
  BY <1>1, Zenon DEF RunFits, n
<1>19. n = Len(drawn[r])
  BY DEF n
<1>20. RunFits(r)'
  BY <1>2, <1>4, <1>5, <1>6, <1>8, <1>12, <1>15, <1>16, <1>17, <1>18, <1>19, Zenon DEF RunFits
<1>21. ASSUME NEW s \in Runs, s # r
       PROVE  RunFits(s)'
  <2>1. RunFits(s) /\ pc'[s] = pc[s] /\ step'[s] = step[s] /\ Gen(s)' = Gen(s) /\ Clean(s)' = Clean(s)
    BY <1>3, <1>4, <1>6, <1>21, Zenon DEF DrawInv
  <2>2. QED
    BY <1>2, <2>1, Zenon DEF RunFits
<1>22. QED
  BY <1>1, <1>20, <1>21, Zenon DEF DrawInv

LEMMA MovedFits ==
  ASSUME DrawInv, TypeInv', NEW r \in Runs, Moved(r),
         pc'[r] \in Seeded => pc[r] \in Seeded,
         pc'[r] \in {"start", "seed"} => pc[r] \in {"start", "seed"}
  PROVE  DrawInv'
<1> SUFFICES ASSUME NEW s \in Runs
             PROVE  RunFits(s)'
  BY Zenon DEF DrawInv
<1>1. /\ config' = config /\ rng' = rng /\ drawn' = drawn /\ step' = step /\ touched' = touched
      /\ Gen(s)' = Gen(s) /\ Clean(s)' = Clean(s)
  BY Zenon DEF Moved, Gen, Clean
<1>2. /\ pc'[s] \in Seeded => pc[s] \in Seeded
      /\ pc'[s] \in {"start", "seed"} => pc[s] \in {"start", "seed"}
  BY Zenon DEF Moved
<1>3. QED
  BY <1>1, <1>2, Zenon DEF RunFits, DrawInv

LEMMA DrawInvNext == DrawInv /\ [Next]_vars => DrawInv'
<1> SUFFICES ASSUME DrawInv, [Next]_vars
             PROVE  DrawInv'
  OBVIOUS
<1>1. TypeInv /\ TypeInv'
  BY TypeNext, Zenon DEF DrawInv
<1>2. CASE UNCHANGED vars
  <2>1. \A s \in Runs : RunFits(s)'
    BY <1>2, Zenon DEF vars, DrawInv, RunFits, Gen, Clean
  <2>2. QED
    BY <1>1, <2>1, Zenon DEF DrawInv
<1>3. ASSUME NEW r \in Runs, \/ Validate(r) \/ Checkpoint(r) \/ Sample(r) \/ OpenTensors(r) \/ WriteTensors(r)
                             \/ OpenSidecar(r) \/ WriteSidecar(r) \/ Stop(r)
      PROVE  DrawInv'
  <2>1. /\ "stepped" \in Seeded /\ "sample" \in Seeded /\ "save" \in Seeded /\ "tensors" \in Seeded
        /\ "saved" \in Seeded /\ "sidecar" \in Seeded
        /\ "seed" \notin Seeded /\ "ended" \notin Seeded
        /\ "run" \notin {"start", "seed"} /\ "sample" \notin {"start", "seed"}
        /\ "save" \notin {"start", "seed"} /\ "tensors" \notin {"start", "seed"}
        /\ "saved" \notin {"start", "seed"} /\ "sidecar" \notin {"start", "seed"}
        /\ "ended" \notin {"start", "seed"}
    BY DEF Seeded, Places
  <2>2. /\ Moved(r)
        /\ pc'[r] \in Seeded => pc[r] \in Seeded
        /\ pc'[r] \in {"start", "seed"} => pc[r] \in {"start", "seed"}
    BY <1>1, <1>3, <2>1, MovedIs, Zenon
  <2>3. QED
    BY <1>1, <2>2, MovedFits, Zenon
<1>4. QED
  BY <1>2, <1>3, SeedFits, DrawNextFits, TrainStepFits, Zenon DEF Next

LEMMA DrawInvariant == Spec => []DrawInv
<1>1. QED
  BY DrawInit, DrawInvNext, PTL DEF Spec

-----------------------------------------------------------------------------
(* Reproducing a run *)

LEMMA ReplayIs ==
  ASSUME NEW b, NEW seed, NEW items \in Seq(Item)
  PROVE  /\ DOMAIN Replay(b, seed, items) = 1 .. Len(items)
         /\ Len(Replay(b, seed, items)) = Len(items)
         /\ \A i \in 1 .. Len(items) :
              Replay(b, seed, items)[i] =
                Draw(b, [seed |-> seed, shapes |-> [j \in 1 .. i - 1 |-> items[j][2]]], items[i])
<1> DEFINE n == Len(items)
           shapes == [i \in 1 .. n |-> items[i][2]]
           D(i) == Draw(b, [seed |-> seed, shapes |-> SubSeq(shapes, 1, i - 1)], items[i])
<1>1. n \in Nat
  OBVIOUS
<1>2. \A i \in 1 .. n : items[i][2] \in Seq(Nat)
  <2>1. \A i \in 1 .. n : items[i] \in Item
    BY ElementOfSeq, Zenon
  <2>2. QED
    BY <2>1 DEF Item
<1>3. \A i \in 1 .. n : shapes[i] = items[i][2]
  OBVIOUS
<1>4. Replay(b, seed, items) = [i \in 1 .. n |-> D(i)]
  BY Zenon DEF Replay
<1> HIDE DEF n, shapes, D
<1>5. ASSUME NEW i \in 1 .. n
      PROVE  SubSeq(shapes, 1, i - 1) = [j \in 1 .. i - 1 |-> items[j][2]]
  <2>1. i - 1 \in Int /\ i - 1 \in Nat /\ 1 \in Int
    BY <1>1
  <2>2. \A j \in 1 .. i - 1 : j \in 1 .. n
    BY <1>1
  <2>3. \A j \in 1 .. i - 1 : shapes[j] = items[j][2] /\ shapes[j] \in Seq(Nat)
    BY <1>2, <1>3, <2>2, Zenon
  <2> DEFINE u == SubSeq(shapes, 1, i - 1)
             v == [j \in 1 .. i - 1 |-> items[j][2]]
             m == i - 1
  <2>4. u \in Seq(Seq(Nat)) /\ Len(u) = m /\ \A j \in 1 .. m : u[j] = shapes[j]
    <3>1. \A j \in 1 .. m : shapes[j] \in Seq(Nat)
      BY <2>3, Zenon
    <3>2. /\ u \in Seq(Seq(Nat))
          /\ Len(u) = IF 1 <= m THEN m - 1 + 1 ELSE 0
          /\ \A j \in 1 .. m - 1 + 1 : u[j] = shapes[1 + j - 1]
      <4> HIDE DEF m
      <4>1. QED
        BY <2>1, <3>1, SubSeqProperties DEF m
    <3>3. \A j \in 1 .. m : j \in 1 .. m - 1 + 1 /\ 1 + j - 1 = j
      BY <2>1
    <3>4. \A j \in 1 .. m : u[j] = shapes[j]
      <4> HIDE DEF u, m
      <4>1. QED
        BY <3>2, <3>3
    <3>5. Len(u) = m
      BY <2>1, <3>2
    <3>6. QED
      BY <3>2, <3>4, <3>5
  <2>5. v \in [1 .. m -> Seq(Nat)] /\ \A j \in 1 .. m : v[j] = items[j][2]
    <3>1. \A j \in 1 .. m : items[j][2] \in Seq(Nat)
      BY <2>3, Zenon
    <3>2. QED
      BY <3>1
  <2>6. v \in Seq(Seq(Nat)) /\ Len(v) = m
    <3> HIDE DEF v
    <3>1. QED
      BY <2>1, <2>5
  <2> HIDE DEF u, v, m
  <2>7. \A j \in 1 .. Len(u) : u[j] = v[j]
    BY <2>3, <2>4, <2>5, Zenon DEF m
  <2>8. u = v
    BY <2>4, <2>6, <2>7, SeqEqual, Zenon
  <2>9. QED
    BY <2>8, Zenon DEF u, v
<1>6. \A i \in 1 .. n : Replay(b, seed, items)[i] =
                Draw(b, [seed |-> seed, shapes |-> [j \in 1 .. i - 1 |-> items[j][2]]], items[i])
  BY <1>4, <1>5, Zenon DEF D
<1>7. DOMAIN Replay(b, seed, items) = 1 .. n
  BY <1>4, Zenon
<1>8. Len(Replay(b, seed, items)) = n
  BY <1>1, <1>4
<1>9. QED
  BY <1>6, <1>7, <1>8, Zenon DEF n

(* A classifier without dropout has drawn the reference's inputs at its      *)
(* first step.                                                               *)
SyntheticItems(c) == NewDraws(Dims(c)) \o DataDraws(c) \o LazyBase(Dims(c)) \o <<LoraA(c)>>

LEMMA SyntheticProgram ==
  ASSUME NEW c \in Conf, ~c.dropout
  PROVE  ProgramUpTo(c, 1) = SyntheticItems(c) /\ SyntheticItems(c) \in Seq(Item)
<1>1. 0 \in Nat /\ 1 \in Nat /\ 0 + 1 = 1 /\ ~(1 > 1)
  OBVIOUS
<1> DEFINE first == NewDraws(Dims(c)) \o DataDraws(c)
<1>2. ProgramUpTo(c, 0) = first /\ ProgramUpTo(c, 1) = first \o StepDraws(c, 1)
  <2>1. \A m \in Nat : ProgramUpTo(c, m + 1) = ProgramUpTo(c, m) \o StepDraws(c, m + 1)
    BY ProgramIs, Zenon
  <2>2. ProgramUpTo(c, 0 + 1) = ProgramUpTo(c, 0) \o StepDraws(c, 0 + 1)
    BY <1>1, <2>1, Zenon
  <2>3. QED
    BY <1>1, <2>2, ProgramIs, Zenon
<1>3. first \in Seq(Item) /\ ProgramUpTo(c, 1) \in Seq(Item)
  BY <1>1, <1>2, ProgramType, Zenon
<1> DEFINE lora == <<LoraA(c)>>
<1>4. StepDraws(c, 1) = <<>> \o ((<<>> \o <<>>) \o lora)
  <2>1. ForwardDraws(c, 1) = (<<>> \o <<>>) \o lora
    BY NothingLazy, Zenon DEF ForwardDraws
  <2>2. StepDraws(c, 1) = <<>> \o ForwardDraws(c, 1)
    BY <1>1, Zenon DEF StepDraws
  <2>3. QED
    BY <2>1, <2>2, Zenon
<1>5. SyntheticItems(c) = (first \o <<>>) \o lora
  BY NothingLazy, Zenon DEF SyntheticItems
<1> HIDE DEF first
<1>6. lora \in Seq({LoraA(c)})
  <2>1. \A x : <<x>> \in Seq({x})
    OBVIOUS
  <2>2. QED
    BY <2>1, Zenon
<1> HIDE DEF lora
<1>7. <<>> \o <<>> = <<>> /\ <<>> \o lora = lora
  <2>1. <<>> \in Seq({LoraA(c)})
    BY EmptySeq, Zenon
  <2>2. QED
    BY <1>6, <2>1, ConcatEmptySeq, Zenon
<1>8. first \o <<>> = first
  BY <1>3, ConcatEmptySeq, Zenon
<1>9. QED
  BY <1>2, <1>3, <1>4, <1>5, <1>7, <1>8, Zenon

LEMMA SyntheticAlone ==
  ASSUME NEW c \in Conf, ~c.dropout, NEW k \in Nat \ {0}
  PROVE  /\ Len(SyntheticRunInputs(c)) = Len(SyntheticItems(c))
         /\ Len(SyntheticRunInputs(c)) \in Nat
         /\ \A i \in 1 .. Len(SyntheticItems(c)) : SyntheticRunInputs(c)[i] = Alone(c, k, i)
<1>1. ProgramUpTo(c, 1) = SyntheticItems(c) /\ SyntheticItems(c) \in Seq(Item)
  BY SyntheticProgram, Zenon
<1>2. SyntheticRunInputs(c) = Replay(c.backend, c.seed, SyntheticItems(c))
  BY Zenon DEF SyntheticRunInputs, SyntheticItems
<1>3. 1 \in Nat /\ k \in Nat /\ 1 <= k
  OBVIOUS
<1>4. \A i \in 1 .. Len(ProgramUpTo(c, 1)) : Alone(c, 1, i) = Alone(c, k, i)
  <2>1. Recipe(c) = Recipe(c)
    OBVIOUS
  <2>2. QED
    BY <1>3, <2>1, AloneKept, Zenon
<1>5. /\ Len(SyntheticRunInputs(c)) = Len(SyntheticItems(c)) /\ Len(SyntheticItems(c)) \in Nat
      /\ \A i \in 1 .. Len(SyntheticItems(c)) : SyntheticRunInputs(c)[i] =
           Draw(c.backend, [seed |-> c.seed, shapes |-> [j \in 1 .. i - 1 |-> SyntheticItems(c)[j][2]]],
                SyntheticItems(c)[i])
  <2>1. PICK q \in Seq(Item) : q = SyntheticItems(c)
    BY <1>1, Zenon
  <2>2. /\ Len(Replay(c.backend, c.seed, q)) = Len(q)
        /\ \A i \in 1 .. Len(q) : Replay(c.backend, c.seed, q)[i] =
             Draw(c.backend, [seed |-> c.seed, shapes |-> [j \in 1 .. i - 1 |-> q[j][2]]], q[i])
    BY ReplayIs
  <2>3. Len(q) \in Nat
    OBVIOUS
  <2>4. QED
    BY <1>2, <2>1, <2>2, <2>3, Zenon
<1>6. \A i \in 1 .. Len(SyntheticItems(c)) : SyntheticRunInputs(c)[i] = Alone(c, 1, i)
  BY <1>1, <1>5, Zenon DEF Alone, Told
<1>7. QED
  BY <1>1, <1>4, <1>5, <1>6, Zenon

LEMMA DrawnAlone ==
  ASSUME DrawInv, NEW r \in Runs
  PROVE  /\ Len(drawn[r]) \in Nat /\ Clean(r) \in 0 .. Len(drawn[r])
         /\ step[r] + 1 \in Nat \ {0} /\ config[r] \in Conf
         /\ Len(ProgramUpTo(config[r], step[r] + 1)) \in Nat
         /\ Len(drawn[r]) <= Len(ProgramUpTo(config[r], step[r] + 1))
         /\ \A i \in 1 .. Clean(r) : /\ drawn[r][i] = Alone(config[r], step[r] + 1, i)
                                     /\ i \in 1 .. Len(ProgramUpTo(config[r], step[r] + 1))
<1>1. TypeInv /\ RunFits(r)
  BY Zenon DEF DrawInv
<1>2. Len(drawn[r]) \in Nat /\ Clean(r) \in 0 .. Len(drawn[r]) /\ config[r] \in Conf
  BY <1>1, CleanType, ConfigOf, Zenon
<1>3. step[r] + 1 \in Nat \ {0} /\ step[r] + 1 \in Nat
  BY <1>1 DEF TypeInv
<1>4. Len(ProgramUpTo(config[r], step[r] + 1)) \in Nat
  BY <1>2, <1>3, ProgramType, LenProperties, Zenon
<1>5. /\ Len(drawn[r]) <= Len(ProgramUpTo(config[r], step[r] + 1))
      /\ \A i \in 1 .. Clean(r) : drawn[r][i] = Alone(config[r], step[r] + 1, i)
  BY <1>1, Zenon DEF RunFits
<1>6. \A i \in 1 .. Clean(r) : i \in 1 .. Len(ProgramUpTo(config[r], step[r] + 1))
  BY <1>2, <1>4, <1>5
<1>7. QED
  BY <1>2, <1>3, <1>4, <1>5, <1>6, Zenon

(* Two runs that train the same thing draw the same numbers, whatever their  *)
(* directories, checkpoints and samples, until another run shares a          *)
(* generator of theirs; and a classifier without dropout draws what the      *)
(* reference is given (run_training, run_sample, synthetic_run_inputs).      *)
THEOREM TheyReproduce == Spec => []RunsReproduce
<1>1. DrawInv => RunsReproduce
  <2> SUFFICES ASSUME DrawInv
               PROVE  RunsReproduce
    OBVIOUS
  <2>1. ASSUME NEW r \in Runs, NEW s \in Runs, Recipe(config[r]) = Recipe(config[s]),
               step[r] + 1 <= step[s] + 1,
               NEW i \in 1 .. Clean(r), i \in 1 .. Clean(s)
        PROVE  drawn[r][i] = drawn[s][i]
    <3>1. /\ config[r] \in Conf /\ config[s] \in Conf /\ step[r] + 1 \in Nat /\ step[s] + 1 \in Nat
          /\ i \in 1 .. Len(ProgramUpTo(config[r], step[r] + 1))
          /\ drawn[r][i] = Alone(config[r], step[r] + 1, i)
          /\ drawn[s][i] = Alone(config[s], step[s] + 1, i)
      <4>1. \A x \in Runs : step[x] + 1 \in Nat
        BY DEF DrawInv, TypeInv
      <4>2. QED
        BY <2>1, <4>1, DrawnAlone, Zenon
    <3>2. \A j \in 1 .. Len(ProgramUpTo(config[r], step[r] + 1)) :
            Alone(config[r], step[r] + 1, j) = Alone(config[s], step[s] + 1, j)
      BY <2>1, <3>1, AloneKept, Zenon
    <3>3. QED
      BY <3>1, <3>2, Zenon
  <2>2. ASSUME NEW r \in Runs, NEW s \in Runs, Recipe(config[r]) = Recipe(config[s])
        PROVE  SameStart(drawn[r], drawn[s], IF Clean(r) < Clean(s) THEN Clean(r) ELSE Clean(s))
    <3>1. Clean(r) \in Nat /\ Clean(s) \in Nat /\ step[r] + 1 \in Nat /\ step[s] + 1 \in Nat
      <4>1. /\ Len(drawn[r]) \in Nat /\ Clean(r) \in 0 .. Len(drawn[r])
            /\ Len(drawn[s]) \in Nat /\ Clean(s) \in 0 .. Len(drawn[s])
        BY DrawnAlone, Zenon
      <4>2. step[r] + 1 \in Nat /\ step[s] + 1 \in Nat
        BY DEF DrawInv, TypeInv
      <4>3. QED
        BY <4>1, <4>2
    <3>2. ASSUME NEW i \in 1 .. IF Clean(r) < Clean(s) THEN Clean(r) ELSE Clean(s)
          PROVE  drawn[r][i] = drawn[s][i]
      <4>1. i \in 1 .. Clean(r) /\ i \in 1 .. Clean(s)
        BY <3>1
      <4>2. CASE step[r] + 1 <= step[s] + 1
        BY <2>1, <2>2, <4>1, <4>2, Zenon
      <4>3. CASE step[s] + 1 <= step[r] + 1
        BY <2>1, <2>2, <4>1, <4>3, Zenon
      <4>4. QED
        BY <3>1, <4>2, <4>3
    <3>3. QED
      BY <3>2, Zenon DEF SameStart
  <2>3. ASSUME NEW r \in Runs, ~config[r].dropout
        PROVE  SameStart(drawn[r], SyntheticRunInputs(config[r]), Clean(r))
    <3> DEFINE c == config[r]
               k == step[r] + 1
    <3>1. c \in Conf /\ k \in Nat \ {0} /\ Clean(r) \in Nat
          /\ \A i \in 1 .. Clean(r) : drawn[r][i] = Alone(c, k, i)
      <4>1. Len(drawn[r]) \in Nat /\ Clean(r) \in 0 .. Len(drawn[r])
        BY DrawnAlone, Zenon
      <4>2. Clean(r) \in Nat
        BY <4>1
      <4>3. QED
        BY <4>2, DrawnAlone, Zenon
    <3> HIDE DEF k
    <3>2. /\ Len(SyntheticRunInputs(c)) = Len(SyntheticItems(c))
          /\ Len(SyntheticRunInputs(c)) \in Nat
          /\ \A i \in 1 .. Len(SyntheticItems(c)) : SyntheticRunInputs(c)[i] = Alone(c, k, i)
      BY <2>3, <3>1, SyntheticAlone, Zenon
    <3>3. ASSUME NEW i \in 1 .. Clean(r), i <= Len(SyntheticRunInputs(c))
          PROVE  drawn[r][i] = SyntheticRunInputs(c)[i]
      <4>1. i \in 1 .. Len(SyntheticItems(c))
        <5>1. PICK n \in Nat : n = Len(SyntheticRunInputs(c))
          BY <3>2
        <5>2. i \in 1 .. n
          BY <3>1, <3>3, <5>1
        <5>3. QED
          BY <3>2, <5>1, <5>2, Zenon
      <4>2. QED
        BY <3>1, <3>2, <4>1, Zenon
    <3>4. QED
      BY <3>3, Zenon DEF SameStart
  <2>4. QED
    BY <2>2, <2>3, Zenon DEF RunsReproduce
<1>2. QED
  BY <1>1, DrawInvariant, PTL

-----------------------------------------------------------------------------
(* What is on disk *)

Writing == {"save", "tensors", "saved", "sidecar"}

(* A run that writes is finite, and writes its final adapter or the          *)
(* checkpoint of its step.                                                   *)
RunAt(r) ==
  /\ step[r] <= Total(r)
  /\ pc[r] = "stepped" => step[r] >= 1
  /\ pc[r] \in Writing =>
       /\ finite[r]
       /\ path[r] = FinalPath(r) \/ (path[r] = CheckpointPath(r) /\ step[r] >= 1)
  /\ \A p : pc[r] \in {"saved", "sidecar"} /\ p = path[r] /\ Pair(p).tensors.by = r =>
       Pair(p).tensors = TensorsOf(r)

(* A whole file is what one run writes.                                      *)
GoodTensors(t) == t.state = "whole" =>
  \E r \in Runs : /\ t.by = r /\ t.finite
                  /\ t.a = <<Dims(config[r])[2], Rank(config[r].rank)>>
                  /\ t.b = <<Rank(config[r].rank), Dims(config[r])[3]>>
GoodSidecar(s) == s.state = "whole" => \E r \in Runs : s = SidecarOf(r)
FileAt(p) == GoodTensors(Pair(p).tensors) /\ GoodSidecar(Pair(p).sidecar)

(* A run is past p: it never writes there again.                             *)
Past(r, p) ==
  \/ p = FinalPath(r) /\ pc[r] = "ended"
  \/ \E k \in 1 .. step[r] :
       /\ p = <<config[r].dir, <<<<"checkpoint", k>>>>>>
       /\ k = step[r] => pc[r] # "stepped" /\ (pc[r] \in Writing => path[r] = FinalPath(r))

AnnouncedAt(e) ==
  /\ e.by \in Runs
  /\ Past(e.by, e.path)
  /\ Pair(e.path).tensors.by = e.by =>
       Pair(e.path).tensors.state = "whole" /\ Pair(e.path).tensors.factors = e.factors
  /\ Pair(e.path).sidecar.by = e.by => Pair(e.path).sidecar.state = "whole"

RunsAt == \A r \in Runs : RunAt(r)
FilesAt == \A p : FileAt(p)
AllAnnouncedAt == \A e \in announced : AnnouncedAt(e)

FilesInv == RunsAt /\ FilesAt /\ AllAnnouncedAt

LEMMA ContentIs ==
  ASSUME NEW r
  PROVE  /\ TensorsOf(r).state = "whole" /\ TensorsOf(r).by = r
         /\ TensorsOf(r).factors = Factors(r) /\ TensorsOf(r).finite = finite[r]
         /\ TensorsOf(r).a = <<Dims(config[r])[2], Rank(config[r].rank)>>
         /\ TensorsOf(r).b = <<Rank(config[r].rank), Dims(config[r])[3]>>
         /\ SidecarOf(r).state = "whole" /\ SidecarOf(r).by = r
         /\ SidecarOf(r).seed = config[r].seed /\ SidecarOf(r).rank = Rank(config[r].rank)
         /\ SidecarOf(r).alpha = config[r].alpha /\ SidecarOf(r).dims = Dims(config[r])
         /\ SidecarOf(r).task = config[r].task
<1>1. /\ TensorsOf(r).state = "whole" /\ TensorsOf(r).by = r
      /\ TensorsOf(r).factors = Factors(r)
      /\ TensorsOf(r).a = <<Dims(config[r])[2], Rank(config[r].rank)>>
      /\ TensorsOf(r).b = <<Rank(config[r].rank), Dims(config[r])[3]>>
  BY DEF TensorsOf
<1>2. TensorsOf(r).finite = finite[r]
  <2>1. \A by, factors, fin, a, b :
          [state |-> "whole", by |-> by, factors |-> factors, finite |-> fin, a |-> a, b |-> b].finite = fin
    OBVIOUS
  <2>2. QED
    BY <2>1, Zenon DEF TensorsOf
<1>3. /\ SidecarOf(r).state = "whole" /\ SidecarOf(r).by = r
      /\ SidecarOf(r).seed = config[r].seed /\ SidecarOf(r).rank = Rank(config[r].rank)
      /\ SidecarOf(r).alpha = config[r].alpha /\ SidecarOf(r).dims = Dims(config[r])
      /\ SidecarOf(r).task = config[r].task
  BY DEF SidecarOf
<1>4. QED
  BY <1>1, <1>2, <1>3, Zenon

LEMMA TornIs ==
  ASSUME NEW x
  PROVE  Torn(x).state = "torn" /\ Torn(x).by = x /\ Torn(x).state # "whole"
         /\ Absent.state # "whole" /\ Absent.by = "nobody"
BY DEF Torn, Absent

LEMMA PutIs ==
  ASSUME NEW p, NEW pair, Put(p, pair)
  PROVE  \A q : Pair(q)' = IF q = p THEN pair ELSE Pair(q)
<1> SUFFICES ASSUME NEW q
             PROVE  Pair(q)' = IF q = p THEN pair ELSE Pair(q)
  OBVIOUS
<1>1. files' = [x \in DOMAIN files \cup {p} |-> IF x = p THEN pair ELSE files[x]]
  BY Zenon DEF Put
<1>2. DOMAIN files' = DOMAIN files \cup {p}
     /\ \A x \in DOMAIN files \cup {p} : files'[x] = IF x = p THEN pair ELSE files[x]
  BY <1>1, Zenon
<1>3. CASE q = p
  BY <1>2, <1>3, Zenon DEF Pair
<1>4. CASE q # p /\ q \in DOMAIN files
  BY <1>2, <1>4, Zenon DEF Pair
<1>5. CASE q # p /\ q \notin DOMAIN files
  BY <1>2, <1>5, Zenon DEF Pair
<1>6. QED
  BY <1>3, <1>4, <1>5, Zenon

(* What an action that writes may do to the files.                           *)
Writes(r, tensors, sidecar) ==
  /\ pc[r] \in Writing /\ path' = path /\ finite' = finite
  /\ \A q : Pair(q)' = IF q = path[r] THEN [tensors |-> tensors, sidecar |-> sidecar] ELSE Pair(q)

LEMMA WritesAre ==
  ASSUME NEW r \in Runs
  PROVE  /\ OpenTensors(r) => Writes(r, Torn(r), Pair(path[r]).sidecar) /\ announced' = announced
         /\ WriteTensors(r) => /\ announced' = announced
                               /\ \E content \in {TensorsOf(r), Torn("both")} :
                                    Writes(r, content, Pair(path[r]).sidecar)
         /\ OpenSidecar(r) => Writes(r, Pair(path[r]).tensors, Torn(r)) /\ announced' = announced
         /\ WriteSidecar(r) =>
              /\ announced' = announced \cup {[path |-> path[r], by |-> r, factors |-> Factors(r)]}
              /\ \E content \in {SidecarOf(r), Torn("both")} :
                   Writes(r, Pair(path[r]).tensors, content)
<1>1. "save" \in Writing /\ "tensors" \in Writing /\ "saved" \in Writing /\ "sidecar" \in Writing
  BY DEF Writing
<1>2. ASSUME OpenTensors(r)
      PROVE  Writes(r, Torn(r), Pair(path[r]).sidecar) /\ announced' = announced
  <2>1. /\ pc[r] = "save" /\ path' = path /\ finite' = finite /\ announced' = announced
        /\ Put(path[r], [tensors |-> Torn(r), sidecar |-> Pair(path[r]).sidecar])
    BY <1>2, Zenon DEF OpenTensors, PutTensors
  <2>2. QED
    BY <1>1, <2>1, PutIs, Zenon DEF Writes
<1>3. ASSUME WriteTensors(r)
      PROVE  /\ announced' = announced
             /\ \E content \in {TensorsOf(r), Torn("both")} : Writes(r, content, Pair(path[r]).sidecar)
  <2>1. PICK content \in Contents(r, "tensors", Pair(path[r]).tensors, TensorsOf(r)) :
          PutTensors(path[r], content)
    BY <1>3, Zenon DEF WriteTensors
  <2>2. content \in {TensorsOf(r), Torn("both")}
    BY <2>1, Zenon DEF Contents
  <2>3. /\ pc[r] = "tensors" /\ path' = path /\ finite' = finite /\ announced' = announced
        /\ Put(path[r], [tensors |-> content, sidecar |-> Pair(path[r]).sidecar])
    BY <1>3, <2>1, Zenon DEF WriteTensors, PutTensors
  <2>4. Writes(r, content, Pair(path[r]).sidecar)
    BY <1>1, <2>3, PutIs, Zenon DEF Writes
  <2>5. QED
    BY <2>2, <2>3, <2>4, Zenon
<1>4. ASSUME OpenSidecar(r)
      PROVE  Writes(r, Pair(path[r]).tensors, Torn(r)) /\ announced' = announced
  <2>1. /\ pc[r] = "saved" /\ path' = path /\ finite' = finite /\ announced' = announced
        /\ Put(path[r], [tensors |-> Pair(path[r]).tensors, sidecar |-> Torn(r)])
    BY <1>4, Zenon DEF OpenSidecar, PutSidecar
  <2>2. QED
    BY <1>1, <2>1, PutIs, Zenon DEF Writes
<1>5. ASSUME WriteSidecar(r)
      PROVE  /\ announced' = announced \cup {[path |-> path[r], by |-> r, factors |-> Factors(r)]}
             /\ \E content \in {SidecarOf(r), Torn("both")} : Writes(r, Pair(path[r]).tensors, content)
  <2>1. PICK content \in Contents(r, "sidecar", Pair(path[r]).sidecar, SidecarOf(r)) :
          PutSidecar(path[r], content)
    BY <1>5, Zenon DEF WriteSidecar
  <2>2. content \in {SidecarOf(r), Torn("both")}
    BY <2>1, Zenon DEF Contents
  <2>3. /\ pc[r] = "sidecar" /\ path' = path /\ finite' = finite
        /\ announced' = announced \cup {[path |-> path[r], by |-> r, factors |-> Factors(r)]}
        /\ Put(path[r], [tensors |-> Pair(path[r]).tensors, sidecar |-> content])
    BY <1>5, <2>1, Zenon DEF WriteSidecar, PutSidecar
  <2>4. Writes(r, Pair(path[r]).tensors, content)
    BY <1>1, <2>3, PutIs, Zenon DEF Writes
  <2>5. QED
    BY <2>2, <2>3, <2>4, Zenon
<1>6. QED
  BY <1>2, <1>3, <1>4, <1>5, Zenon

TensorChoices(r) == {Pair(path[r]).tensors, Torn(r), Torn("both"), TensorsOf(r)}
SidecarChoices(r) == {Pair(path[r]).sidecar, Torn(r), Torn("both"), SidecarOf(r)}

Written(r, t, u) == \A q :
  /\ Pair(q).tensors' = IF q = path[r] THEN t ELSE Pair(q).tensors
  /\ Pair(q).sidecar' = IF q = path[r] THEN u ELSE Pair(q).sidecar

LEMMA PairAfter ==
  ASSUME NEW r, NEW t, NEW u, Writes(r, t, u)
  PROVE  Written(r, t, u)
<1>1. \A x, y : [tensors |-> x, sidecar |-> y].tensors = x /\ [tensors |-> x, sidecar |-> y].sidecar = y
  OBVIOUS
<1>2. QED
  BY <1>1, Zenon DEF Writes, Written

(* What a run owns of a pair is left alone by the writes of the others.      *)
LEMMA OwnerKept ==
  ASSUME NEW r \in Runs, NEW t \in TensorChoices(r), NEW u \in SidecarChoices(r), Writes(r, t, u),
         NEW s \in Runs, s # r, NEW q
  PROVE  /\ Pair(q).tensors'.by = s => Pair(q).tensors' = Pair(q).tensors
         /\ Pair(q).sidecar'.by = s => Pair(q).sidecar' = Pair(q).sidecar
<1>1. /\ Pair(q).tensors' = IF q = path[r] THEN t ELSE Pair(q).tensors
      /\ Pair(q).sidecar' = IF q = path[r] THEN u ELSE Pair(q).sidecar
  BY PairAfter, ZenonT(60) DEF Written
<1>2. s # "both"
  BY RunsAssumption
<1>3. Torn(r).by # s /\ Torn("both").by # s /\ TensorsOf(r).by # s /\ SidecarOf(r).by # s
  <2>1. Torn(r).by = r /\ Torn("both").by = "both"
    BY TornIs, Zenon
  <2>2. TensorsOf(r).by = r /\ SidecarOf(r).by = r
    BY ContentIs, Zenon
  <2>3. QED
    BY <1>2, <2>1, <2>2, Zenon
<1>4. /\ t # Pair(path[r]).tensors => t.by # s
      /\ u # Pair(path[r]).sidecar => u.by # s
  BY <1>3, Zenon DEF TensorChoices, SidecarChoices
<1>5. QED
  BY <1>1, <1>4, Zenon

LEMMA WritesFiles ==
  ASSUME FilesInv, NEW r \in Runs, NEW t \in TensorChoices(r), NEW u \in SidecarChoices(r),
         Writes(r, t, u), config' = config
  PROVE  FilesAt'
<1> SUFFICES ASSUME NEW q
             PROVE  FileAt(q)'
  BY Zenon DEF FilesAt
<1>1. /\ Pair(q).tensors' = IF q = path[r] THEN t ELSE Pair(q).tensors
      /\ Pair(q).sidecar' = IF q = path[r] THEN u ELSE Pair(q).sidecar
  BY PairAfter, ZenonT(60) DEF Written
<1>2. FileAt(q) /\ FileAt(path[r]) /\ RunAt(r)
  BY Zenon DEF FilesInv, FilesAt, RunsAt
<1>3. finite[r]
  BY <1>2, Zenon DEF RunAt, Writes
<1>4. GoodTensors(t)
  <2>1. CASE t = Pair(path[r]).tensors
    BY <1>2, <2>1, Zenon DEF FileAt
  <2>2. CASE t = Torn(r) \/ t = Torn("both")
    BY <2>2, TornIs, Zenon DEF GoodTensors
  <2>3. CASE t = TensorsOf(r)
    BY <1>3, <2>3, ContentIs, Zenon DEF GoodTensors
  <2>4. QED
    BY <2>1, <2>2, <2>3, Zenon DEF TensorChoices
<1>5. GoodSidecar(u)
  <2>1. CASE u = Pair(path[r]).sidecar
    BY <1>2, <2>1, Zenon DEF FileAt
  <2>2. CASE u = Torn(r) \/ u = Torn("both")
    BY <2>2, TornIs, Zenon DEF GoodSidecar
  <2>3. CASE u = SidecarOf(r)
    BY <2>3, Zenon DEF GoodSidecar
  <2>4. QED
    BY <2>1, <2>2, <2>3, Zenon DEF SidecarChoices
<1>6. GoodTensors(Pair(q).tensors)' /\ GoodSidecar(Pair(q).sidecar)'
  <2>1. \A s : SidecarOf(s)' = SidecarOf(s)
    BY Zenon DEF SidecarOf
  <2>2. GoodTensors(Pair(q).tensors) /\ GoodSidecar(Pair(q).sidecar)
    BY <1>2, Zenon DEF FileAt
  <2>3. CASE q = path[r]
    BY <1>1, <1>4, <1>5, <2>1, <2>3, Zenon DEF GoodTensors, GoodSidecar
  <2>4. CASE q # path[r]
    BY <1>1, <2>1, <2>2, <2>4, Zenon DEF GoodTensors, GoodSidecar
  <2>5. QED
    BY <2>3, <2>4
<1>7. QED
  BY <1>6, Zenon DEF FileAt

(* The others are where they were.                                           *)
OthersStay(r) ==
  /\ config' = config
  /\ \A s \in Runs : s # r => /\ pc'[s] = pc[s] /\ path'[s] = path[s] /\ step'[s] = step[s]
                              /\ finite'[s] = finite[s] /\ drawn'[s] = drawn[s]

LEMMA SameRun ==
  ASSUME NEW s, config' = config, step'[s] = step[s], drawn'[s] = drawn[s], finite'[s] = finite[s]
  PROVE  /\ TensorsOf(s)' = TensorsOf(s) /\ Total(s)' = Total(s)
         /\ FinalPath(s)' = FinalPath(s) /\ CheckpointPath(s)' = CheckpointPath(s)
<1>1. Factors(s)' = Factors(s)
  BY Zenon DEF Factors
<1>2. TensorsOf(s)' = TensorsOf(s)
  BY <1>1, Zenon DEF TensorsOf
<1>3. QED
  BY <1>2, Zenon DEF Total, FinalPath, CheckpointPath

LEMMA TotalType ==
  ASSUME TypeInv, NEW r \in Runs
  PROVE  Total(r) \in Nat /\ Total(r) >= 1 /\ step[r] \in Nat
<1>1. config[r].steps \in Nat /\ step[r] \in Nat
  BY ConfigOf, ConfigType, Zenon DEF TypeInv
<1>2. QED
  BY <1>1 DEF Total, AtLeastOne

LEMMA PastKept ==
  ASSUME TypeInv, TypeInv', NEW r \in Runs, config' = config, step[r] <= step'[r],
         pc[r] # "ended",
         step'[r] = step[r] =>
           /\ pc'[r] = "stepped" => pc[r] = "stepped"
           /\ pc'[r] \in Writing => \/ path'[r] = FinalPath(r) \/ pc[r] = "stepped"
                                    \/ pc[r] \in Writing /\ path'[r] = path[r],
         NEW p, Past(r, p)
  PROVE  Past(r, p)'
<1>1. PICK k \in 1 .. step[r] :
        /\ p = <<config[r].dir, <<<<"checkpoint", k>>>>>>
        /\ k = step[r] => pc[r] # "stepped" /\ (pc[r] \in Writing => path[r] = FinalPath(r))
  BY Zenon DEF Past
<1>2. step[r] \in Nat /\ step'[r] \in Nat
  BY DEF TypeInv
<1>3. k \in 1 .. step'[r] /\ (k = step'[r] => step'[r] = step[r])
  BY <1>1, <1>2
<1>4. FinalPath(r)' = FinalPath(r)
  BY Zenon DEF FinalPath
<1>5. k = step'[r] => pc'[r] # "stepped" /\ (pc'[r] \in Writing => path'[r] = FinalPath(r)')
  BY <1>1, <1>3, <1>4, Zenon
<1>6. QED
  BY <1>1, <1>3, <1>5, Zenon DEF Past

LEMMA OthersPast ==
  ASSUME NEW r \in Runs, OthersStay(r), NEW s \in Runs, s # r, NEW p, Past(s, p)
  PROVE  Past(s, p)'
<1>1. FinalPath(s)' = FinalPath(s)
  BY Zenon DEF FinalPath, OthersStay
<1>2. QED
  BY <1>1, Zenon DEF Past, OthersStay

(* A run is never at the path of an adapter it announced.                    *)
LEMMA NeverAgain ==
  ASSUME TypeInv, NEW r \in Runs, RunAt(r), NEW p, Past(r, p), pc[r] \in Writing
  PROVE  path[r] # p
<1>1. "ended" \notin Writing
  BY DEF Writing
<1>2. PICK k \in 1 .. step[r] :
        /\ p = <<config[r].dir, <<<<"checkpoint", k>>>>>>
        /\ k = step[r] => pc[r] # "stepped" /\ (pc[r] \in Writing => path[r] = FinalPath(r))
  BY <1>1, Zenon DEF Past
<1>3. FinalPath(r) = <<config[r].dir, Stem(config[r].name)>>
  BY Zenon DEF FinalPath
<1>4. \A j \in 1 .. step[r] : FinalPath(r) # <<config[r].dir, <<<<"checkpoint", j>>>>>>
  <2> SUFFICES ASSUME NEW j \in 1 .. step[r]
               PROVE  FinalPath(r) # <<config[r].dir, <<<<"checkpoint", j>>>>>>
    OBVIOUS
  <2>1. config[r] \in Configs[r] /\ step[r] <= Total(r)
    BY Zenon DEF TypeInv, RunAt
  <2>2. j \in 1 .. AtLeastOne(config[r].steps)
    BY <2>1, TotalType DEF Total
  <2>3. Stem(config[r].name) # <<<<"checkpoint", j>>>>
    BY <2>1, <2>2, NamesAssumption, Zenon
  <2>4. QED
    BY <1>3, <2>3
<1>5. CASE path[r] = FinalPath(r)
  BY <1>2, <1>4, <1>5, Zenon
<1>6. CASE path[r] # FinalPath(r)
  <2>1. path[r] = <<config[r].dir, <<<<"checkpoint", step[r]>>>>>> /\ k # step[r]
    BY <1>2, <1>6, Zenon DEF RunAt, CheckpointPath
  <2>2. QED
    BY <1>2, <2>1
<1>7. QED
  BY <1>5, <1>6

(* What draws, steps or stops leaves the files and the announcements.        *)
LEMMA QuietKeeps ==
  ASSUME FilesInv, NEW r \in Runs, files' = files, announced' = announced, OthersStay(r),
         RunAt(r)', \A p : Past(r, p) => Past(r, p)'
  PROVE  FilesInv'
<1>1. \A q : Pair(q)' = Pair(q)
  BY Zenon DEF Pair
<1>2. config' = config
  BY Zenon DEF OthersStay
<1>3. FilesAt'
  <2>1. \A s : SidecarOf(s)' = SidecarOf(s)
    BY <1>2, Zenon DEF SidecarOf
  <2>2. QED
    BY <1>1, <1>2, <2>1, Zenon DEF FilesInv, FilesAt, FileAt, GoodTensors, GoodSidecar
<1>4. ASSUME NEW s \in Runs
      PROVE  RunAt(s)'
  <2>1. CASE s = r
    BY <2>1
  <2>2. CASE s # r
    <3>1. RunAt(s)
      BY Zenon DEF FilesInv, RunsAt
    <3>2. pc'[s] = pc[s] /\ path'[s] = path[s] /\ step'[s] = step[s] /\ finite'[s] = finite[s] /\ drawn'[s] = drawn[s]
      BY <2>2, Zenon DEF OthersStay
    <3>3. /\ TensorsOf(s)' = TensorsOf(s) /\ Total(s)' = Total(s)
          /\ FinalPath(s)' = FinalPath(s) /\ CheckpointPath(s)' = CheckpointPath(s)
      BY <1>2, <3>2, SameRun, Zenon
    <3>4. QED
      BY <1>1, <3>1, <3>2, <3>3, Zenon DEF RunAt
  <2>3. QED
    BY <2>1, <2>2
<1>5. ASSUME NEW e \in announced
      PROVE  AnnouncedAt(e)'
  <2>1. AnnouncedAt(e)
    BY Zenon DEF FilesInv, AllAnnouncedAt
  <2>2. Past(e.by, e.path)'
    BY <2>1, OthersPast, Zenon DEF AnnouncedAt
  <2>3. QED
    BY <1>1, <2>1, <2>2, Zenon DEF AnnouncedAt
<1>6. QED
  BY <1>3, <1>4, <1>5, Zenon DEF FilesInv, RunsAt, AllAnnouncedAt

LEMMA IdleKeeps ==
  ASSUME TypeInv, TypeInv', FilesInv, NEW r \in Runs, files' = files, announced' = announced, OthersStay(r),
         step'[r] = step[r], pc[r] # "ended", pc'[r] \notin Writing, pc'[r] # "stepped"
  PROVE  FilesInv'
<1>1. config' = config
  BY Zenon DEF OthersStay
<1>2. RunAt(r)'
  <2>1. RunAt(r) /\ Total(r)' = Total(r)
    BY <1>1, Zenon DEF FilesInv, RunsAt, Total
  <2>2. {"saved", "sidecar"} \subseteq Writing
    BY DEF Writing
  <2>3. QED
    BY <2>1, <2>2, Zenon DEF RunAt
<1>3. step[r] <= step'[r]
  BY TotalType
<1>4. \A p : Past(r, p) => Past(r, p)'
  BY <1>1, <1>3, PastKept, Zenon
<1>5. QED
  BY <1>2, <1>4, QuietKeeps, Zenon

LEMMA SaveKeeps ==
  ASSUME TypeInv, TypeInv', FilesInv, NEW r \in Runs, files' = files, announced' = announced, OthersStay(r),
         step' = step, finite' = finite, NEW p, SaveTo(r, p), pc[r] # "ended",
         \/ p = FinalPath(r)
         \/ p = CheckpointPath(r) /\ step[r] >= 1 /\ pc[r] = "stepped"
  PROVE  FilesInv'
<1>1. config' = config
  BY Zenon DEF OthersStay
<1>2. "save" \in Places /\ "ended" \in Places /\ "save" # "stepped" /\ "ended" # "stepped"
      /\ "ended" \notin Writing /\ "save" \notin {"saved", "sidecar"}
  BY DEF Places, Writing
<1>3. CASE finite[r]
  <2>1. path' = [path EXCEPT ![r] = p] /\ pc'[r] = "save"
    BY <1>2, <1>3, ToType, Zenon DEF SaveTo
  <2>2. path'[r] = p
    BY <2>1 DEF TypeInv
  <2>3. FinalPath(r)' = FinalPath(r) /\ CheckpointPath(r)' = CheckpointPath(r) /\ Total(r)' = Total(r)
    BY <1>1, Zenon DEF FinalPath, CheckpointPath, Total
  <2>4. RunAt(r) /\ finite'[r]
    BY <1>3, Zenon DEF FilesInv, RunsAt
  <2>5. RunAt(r)'
    BY <1>2, <2>1, <2>2, <2>3, <2>4, Zenon DEF RunAt
  <2>6. step[r] <= step'[r]
    BY TotalType
  <2>7. \A q : Past(r, q) => Past(r, q)'
    BY <1>1, <1>2, <2>1, <2>2, <2>6, PastKept, Zenon
  <2>8. QED
    BY <2>5, <2>7, QuietKeeps, Zenon
<1>4. CASE ~finite[r]
  <2>1. pc'[r] = "ended"
    BY <1>2, <1>4, ToType, Zenon DEF SaveTo
  <2>2. QED
    BY <1>2, <2>1, IdleKeeps, Zenon
<1>5. QED
  BY <1>3, <1>4

LEMMA StepKeeps ==
  ASSUME TypeInv, TypeInv', FilesInv, NEW r \in Runs, TrainStep(r)
  PROVE  FilesInv'
<1>1. /\ pc[r] = "run" /\ step[r] < Total(r) /\ step' = [step EXCEPT ![r] = @ + 1]
      /\ config' = config /\ drawn' = drawn /\ path' = path /\ files' = files /\ announced' = announced
      /\ To(r, "stepped")
  BY Zenon DEF TrainStep
<1>2. "stepped" \in Places /\ "stepped" \notin Writing /\ "stepped" \notin {"saved", "sidecar"} /\ "run" # "ended"
  BY DEF Places, Writing
<1>3. pc'[r] = "stepped" /\ \A s \in Runs : s # r => pc'[s] = pc[s]
  BY <1>1, <1>2, ToType, Zenon
<1>4. /\ step'[r] = step[r] + 1 /\ step[r] \in Nat /\ Total(r) \in Nat
      /\ \A s \in Runs : s # r => step'[s] = step[s]
  BY <1>1, TotalType DEF TypeInv
<1>5. \A s \in Runs : s # r => finite'[s] = finite[s]
  <2>1. PICK d \in BOOLEAN : finite' = [finite EXCEPT ![r] = finite[r] /\ ~d]
    BY Zenon DEF TrainStep
  <2>2. QED
    BY <2>1, Zenon DEF TypeInv
<1>6. OthersStay(r)
  BY <1>1, <1>3, <1>4, <1>5, Zenon DEF OthersStay
<1>7. step'[r] <= Total(r) /\ step'[r] >= 1 /\ step[r] <= step'[r] /\ step'[r] # step[r]
  BY <1>1, <1>4
<1>8. Total(r)' = Total(r)
  BY <1>1, Zenon DEF Total
<1>9. RunAt(r)'
  BY <1>2, <1>3, <1>7, <1>8, Zenon DEF RunAt
<1>10. \A p : Past(r, p) => Past(r, p)'
  BY <1>1, <1>2, <1>7, PastKept, Zenon
<1>11. QED
  BY <1>1, <1>6, <1>9, <1>10, QuietKeeps, Zenon

(* A write of a file, after which the run may announce.                      *)
LEMMA WriteKeeps ==
  ASSUME TypeInv, TypeInv', FilesInv, NEW r \in Runs,
         NEW t \in TensorChoices(r), NEW u \in SidecarChoices(r), Writes(r, t, u),
         OthersStay(r), step' = step, drawn' = drawn, pc'[r] # "stepped",
         pc'[r] \in {"saved", "sidecar"} /\ t.by = r => t = TensorsOf(r)
  PROVE  /\ RunsAt' /\ FilesAt'
         /\ \A e \in announced : AnnouncedAt(e)'
<1>1. config' = config /\ path' = path /\ finite' = finite /\ pc[r] \in Writing
  BY Zenon DEF OthersStay, Writes
<1>2. \A q : /\ Pair(q).tensors' = IF q = path[r] THEN t ELSE Pair(q).tensors
             /\ Pair(q).sidecar' = IF q = path[r] THEN u ELSE Pair(q).sidecar
  <2>1. Written(r, t, u)
    BY PairAfter
  <2>2. QED
    BY <2>1, Zenon DEF Written
<1>3. FilesAt'
  BY <1>1, WritesFiles, Zenon
<1>4. \A s : /\ TensorsOf(s)' = TensorsOf(s) /\ Total(s)' = Total(s)
             /\ FinalPath(s)' = FinalPath(s) /\ CheckpointPath(s)' = CheckpointPath(s)
  BY <1>1, SameRun, Zenon
<1>5. "ended" \notin Writing
  BY DEF Writing
<1>6. \A q : Past(r, q) => Past(r, q)'
  <2>1. step[r] <= step'[r] /\ pc[r] # "ended"
    BY <1>1, <1>5, TotalType
  <2>2. QED
    BY <1>1, <2>1, PastKept, Zenon
<1>7. ASSUME NEW s \in Runs
      PROVE  RunAt(s)'
  <2>1. RunAt(s)
    BY Zenon DEF FilesInv, RunsAt
  <2>2. CASE s = r
    <3>1. \A p : pc'[r] \in {"saved", "sidecar"} /\ p = path'[r] /\ Pair(p).tensors'.by = r =>
            Pair(p).tensors' = TensorsOf(r)'
      BY <1>1, <1>2, <1>4, Zenon
    <3>2. QED
      BY <1>1, <1>4, <2>1, <2>2, <3>1, Zenon DEF RunAt
  <2>3. CASE s # r
    <3>1. pc'[s] = pc[s] /\ path'[s] = path[s]
      BY <2>3, Zenon DEF OthersStay
    <3>2. \A p : pc'[s] \in {"saved", "sidecar"} /\ p = path'[s] /\ Pair(p).tensors'.by = s =>
            Pair(p).tensors' = TensorsOf(s)'
      <4> SUFFICES ASSUME NEW p, pc'[s] \in {"saved", "sidecar"}, p = path'[s], Pair(p).tensors'.by = s
                   PROVE  Pair(p).tensors' = TensorsOf(s)'
        OBVIOUS
      <4>1. Pair(p).tensors' = Pair(p).tensors
        BY <2>3, OwnerKept, Zenon
      <4>2. QED
        BY <1>4, <2>1, <3>1, <4>1, Zenon DEF RunAt
    <3>3. QED
      BY <1>1, <1>4, <2>1, <3>1, <3>2, Zenon DEF RunAt
  <2>4. QED
    BY <2>2, <2>3
<1>8. ASSUME NEW e \in announced
      PROVE  AnnouncedAt(e)'
  <2>1. AnnouncedAt(e)
    BY Zenon DEF FilesInv, AllAnnouncedAt
  <2>2. Past(e.by, e.path)'
    BY <1>6, <2>1, OthersPast, Zenon DEF AnnouncedAt
  <2>3. CASE e.by = r
    <3>1. e.path # path[r]
      BY <1>1, <2>1, <2>3, NeverAgain, Zenon DEF AnnouncedAt, FilesInv, RunsAt
    <3>2. Pair(e.path).tensors' = Pair(e.path).tensors /\ Pair(e.path).sidecar' = Pair(e.path).sidecar
      BY <1>2, <3>1, Zenon
    <3>3. QED
      BY <2>1, <2>2, <3>2, Zenon DEF AnnouncedAt
  <2>4. CASE e.by # r
    <3>1. /\ Pair(e.path).tensors'.by = e.by => Pair(e.path).tensors' = Pair(e.path).tensors
          /\ Pair(e.path).sidecar'.by = e.by => Pair(e.path).sidecar' = Pair(e.path).sidecar
      BY <2>1, <2>4, OwnerKept, Zenon DEF AnnouncedAt
    <3>2. QED
      BY <2>1, <2>2, <3>1, Zenon DEF AnnouncedAt
  <2>5. QED
    BY <2>3, <2>4
<1>9. QED
  BY <1>3, <1>7, <1>8, Zenon DEF RunsAt

LEMMA SameAnnounced ==
  ASSUME announced' = announced, RunsAt', FilesAt', \A e \in announced : AnnouncedAt(e)'
  PROVE  FilesInv'
BY Zenon DEF FilesInv, AllAnnouncedAt

(* The sidecar is the last file: what is announced is the run that writes.   *)
LEMMA AnnounceKeeps ==
  ASSUME TypeInv, TypeInv', FilesInv, NEW r \in Runs, WriteSidecar(r), OthersStay(r)
  PROVE  FilesInv'
<1>1. /\ pc[r] = "sidecar" /\ config' = config /\ step' = step /\ drawn' = drawn /\ path' = path
      /\ To(r, IF path[r] = FinalPath(r) THEN "ended" ELSE "sample")
  BY Zenon DEF WriteSidecar
<1>2. "ended" \in Places /\ "sample" \in Places /\ "ended" \notin Writing /\ "sample" \notin Writing
      /\ "ended" # "stepped" /\ "sample" # "stepped" /\ "sidecar" \in Writing /\ "sidecar" # "stepped"
      /\ "ended" \notin {"saved", "sidecar"} /\ "sample" \notin {"saved", "sidecar"}
  BY DEF Places, Writing
<1>3. /\ path[r] = FinalPath(r) => pc'[r] = "ended"
      /\ path[r] # FinalPath(r) => pc'[r] = "sample"
  BY <1>1, <1>2, ToType, Zenon
<1>4. pc'[r] # "stepped" /\ pc'[r] \notin Writing /\ pc'[r] \notin {"saved", "sidecar"}
  BY <1>2, <1>3, Zenon
<1> DEFINE new == [path |-> path[r], by |-> r, factors |-> Factors(r)]
<1>5. PICK t, u : /\ t = Pair(path[r]).tensors /\ u \in {SidecarOf(r), Torn("both")}
                  /\ Writes(r, t, u)
  <2>1. PICK u \in {SidecarOf(r), Torn("both")} : Writes(r, Pair(path[r]).tensors, u)
    BY WritesAre, Zenon
  <2>2. PICK t : t = Pair(path[r]).tensors
    OBVIOUS
  <2>3. Writes(r, t, u)
    BY <2>1, <2>2, Zenon
  <2>4. QED
    BY <2>1, <2>2, <2>3
<1>6. announced' = announced \cup {new}
  BY WritesAre, Zenon
<1>7. t \in TensorChoices(r) /\ u \in SidecarChoices(r)
  BY <1>5, Zenon DEF TensorChoices, SidecarChoices
<1>8. new.path = path[r] /\ new.by = r /\ new.factors = Factors(r)
  OBVIOUS
<1> HIDE DEF new
<1>9. RunsAt' /\ FilesAt' /\ \A e \in announced : AnnouncedAt(e)'
  BY <1>1, <1>4, <1>5, <1>7, WriteKeeps, Zenon
<1>10. PICK p : p = path[r]
  OBVIOUS
<1>11. Past(r, p)'
  <2>1. CASE p = FinalPath(r)
    <3>1. FinalPath(r)' = FinalPath(r)
      BY <1>1, Zenon DEF FinalPath
    <3>2. QED
      BY <1>3, <1>10, <2>1, <3>1, Zenon DEF Past
  <2>2. CASE p # FinalPath(r)
    <3>1. p = <<config[r].dir, <<<<"checkpoint", step[r]>>>>>> /\ step[r] >= 1
      BY <1>1, <1>2, <1>10, <2>2, Zenon DEF FilesInv, RunsAt, RunAt, CheckpointPath
    <3>2. step[r] \in 1 .. step'[r] /\ config'[r] = config[r]
      BY <1>1, <3>1, TotalType
    <3>3. QED
      BY <1>1, <1>4, <3>1, <3>2, Zenon DEF Past
  <2>3. QED
    BY <2>1, <2>2
<1>12. /\ Pair(p).tensors' = t /\ Pair(p).sidecar' = u
  <2>1. Written(r, t, u)
    BY <1>5, PairAfter
  <2>2. QED
    BY <1>5, <1>10, <2>1, Zenon DEF Written
<1>13. t.by = r => t.state = "whole" /\ t.factors = Factors(r)
  <2>1. RunAt(r) /\ pc[r] \in {"saved", "sidecar"}
    BY <1>1, Zenon DEF FilesInv, RunsAt
  <2>2. t.by = r => t = TensorsOf(r)
    BY <1>5, <2>1, Zenon DEF RunAt
  <2>3. TensorsOf(r).state = "whole" /\ TensorsOf(r).factors = Factors(r)
    BY ContentIs, Zenon
  <2>4. QED
    BY <2>2, <2>3, Zenon
<1>14. u.by = r => u.state = "whole"
  <2>1. Torn("both").by = "both" /\ r # "both"
    BY TornIs, RunsAssumption
  <2>2. SidecarOf(r).state = "whole"
    BY ContentIs, Zenon
  <2>3. QED
    BY <1>5, <2>1, <2>2, Zenon
<1>15. PICK n : n = new
  OBVIOUS
<1>16. n.path = p /\ n.by = r /\ n.factors = Factors(r)
  BY <1>8, <1>10, <1>15, Zenon
<1>17. AnnouncedAt(n)'
  BY <1>11, <1>12, <1>13, <1>14, <1>16, Zenon DEF AnnouncedAt
<1>18. AllAnnouncedAt'
  BY <1>6, <1>9, <1>15, <1>17, Zenon DEF AllAnnouncedAt
<1>19. QED
  BY <1>9, <1>18, Zenon DEF FilesInv

LEMMA OthersStayAre ==
  ASSUME NEW r \in Runs, Moved(r), finite' = finite
  PROVE  OthersStay(r)
BY Zenon DEF Moved, OthersStay

LEMMA FilesInit == Init => FilesInv
<1> SUFFICES ASSUME Init
             PROVE  FilesInv
  OBVIOUS
<1>1. TypeInv
  BY TypeInit
<1>2. ASSUME NEW r \in Runs
      PROVE  RunAt(r)
  <2>1. pc[r] = "start" /\ step[r] = 0
    BY DEF Init
  <2>2. "start" \notin Writing /\ "start" # "stepped" /\ "start" \notin {"saved", "sidecar"}
    BY DEF Writing
  <2>3. step[r] <= Total(r)
    BY <1>1, TotalType, <2>1
  <2>4. QED
    BY <2>1, <2>2, <2>3, Zenon DEF RunAt
<1>3. ASSUME NEW p
      PROVE  FileAt(p)
  <2>1. \A x, y : [tensors |-> x, sidecar |-> y].tensors = x /\ [tensors |-> x, sidecar |-> y].sidecar = y
    OBVIOUS
  <2>2. DOMAIN files = {}
    BY DEF Init
  <2>3. Pair(p) = [tensors |-> Absent, sidecar |-> Absent]
    BY <2>2, Zenon DEF Pair
  <2>4. Pair(p).tensors = Absent /\ Pair(p).sidecar = Absent
    BY <2>1, <2>3, Zenon
  <2>5. Absent.state # "whole"
    BY TornIs, Zenon
  <2>6. QED
    BY <2>4, <2>5, Zenon DEF FileAt, GoodTensors, GoodSidecar
<1>4. announced = {}
  BY DEF Init
<1>5. QED
  BY <1>2, <1>3, <1>4, Zenon DEF FilesInv, RunsAt, FilesAt, AllAnnouncedAt

LEMMA FilesNext == TypeInv /\ FilesInv /\ [Next]_vars => FilesInv'
<1> SUFFICES ASSUME TypeInv, FilesInv, [Next]_vars
             PROVE  FilesInv'
  OBVIOUS
<1>1. TypeInv'
  BY TypeNext
<1>2. CASE UNCHANGED vars
  <2>1. /\ pc' = pc /\ config' = config /\ drawn' = drawn /\ step' = step /\ finite' = finite /\ path' = path
        /\ files' = files /\ announced' = announced
    BY <1>2, Zenon DEF vars
  <2>2. \A q : Pair(q)' = Pair(q)
    BY <2>1, Zenon DEF Pair
  <2>3. \A s : /\ TensorsOf(s)' = TensorsOf(s) /\ Total(s)' = Total(s) /\ SidecarOf(s)' = SidecarOf(s)
               /\ FinalPath(s)' = FinalPath(s) /\ CheckpointPath(s)' = CheckpointPath(s)
    BY <2>1, SameRun, Zenon DEF SidecarOf
  <2>4. RunsAt'
    BY <2>1, <2>2, <2>3, Zenon DEF FilesInv, RunsAt, RunAt
  <2>5. FilesAt'
    BY <2>1, <2>2, <2>3, Zenon DEF FilesInv, FilesAt, FileAt, GoodTensors, GoodSidecar
  <2>6. AllAnnouncedAt'
    BY <2>1, <2>2, <2>3, Zenon DEF FilesInv, AllAnnouncedAt, AnnouncedAt, Past
  <2>7. QED
    BY <2>4, <2>5, <2>6, Zenon DEF FilesInv
<1>3. ASSUME NEW r \in Runs, \/ Validate(r) \/ Stop(r)
      PROVE  FilesInv'
  <2>1. Moved(r) /\ pc[r] # "ended" /\ pc'[r] \in {"seed", "ended"}
    <3>1. "start" # "ended"
      OBVIOUS
    <3>2. QED
      BY <1>3, <3>1, MovedIs, Zenon
  <2>2. finite' = finite /\ files' = files /\ announced' = announced
    BY <1>3, Zenon DEF Validate, Stop
  <2>3. pc'[r] \notin Writing /\ pc'[r] # "stepped"
    BY <2>1 DEF Writing
  <2>4. OthersStay(r) /\ step'[r] = step[r]
    BY <2>1, <2>2, OthersStayAre, Zenon DEF Moved
  <2>5. QED
    BY <1>1, <2>1, <2>2, <2>3, <2>4, IdleKeeps, Zenon
<1>4. ASSUME NEW r \in Runs, Seed(r)
      PROVE  FilesInv'
  <2>1. /\ pc[r] = "seed" /\ To(r, "run") /\ config' = config /\ drawn' = drawn /\ step' = step
        /\ finite' = finite /\ path' = path /\ files' = files /\ announced' = announced
    BY <1>4, Zenon DEF Seed
  <2>2. "run" \in Places /\ "run" \notin Writing /\ "run" # "stepped" /\ "seed" # "ended"
    BY DEF Places, Writing
  <2>3. pc'[r] = "run" /\ \A s \in Runs : s # r => pc'[s] = pc[s]
    BY <2>1, <2>2, ToType, Zenon
  <2>4. OthersStay(r)
    BY <2>1, <2>3, Zenon DEF OthersStay
  <2>5. QED
    BY <1>1, <2>1, <2>2, <2>3, <2>4, IdleKeeps, Zenon
<1>5. ASSUME NEW r \in Runs, DrawNext(r)
      PROVE  FilesInv'
  <2>1. /\ pc[r] = "run" /\ pc' = pc /\ config' = config /\ step' = step
        /\ finite' = finite /\ path' = path /\ files' = files /\ announced' = announced
        /\ \E d : drawn' = [drawn EXCEPT ![r] = Append(@, d)]
    BY <1>5, Zenon DEF DrawNext
  <2>2. "run" \notin Writing /\ "run" # "stepped" /\ "run" # "ended"
    BY DEF Writing
  <2>3. \A s \in Runs : s # r => drawn'[s] = drawn[s]
    BY <2>1, Zenon DEF TypeInv
  <2>4. OthersStay(r)
    BY <2>1, <2>3, Zenon DEF OthersStay
  <2>5. QED
    BY <1>1, <2>1, <2>2, <2>4, IdleKeeps, Zenon
<1>6. ASSUME NEW r \in Runs, Checkpoint(r)
      PROVE  FilesInv'
  <2>1. /\ pc[r] = "stepped" /\ step' = step /\ finite' = finite /\ files' = files /\ announced' = announced
        /\ SaveTo(r, CheckpointPath(r)) \/ To(r, "sample")
    BY <1>6, Zenon DEF Checkpoint
  <2>2. Moved(r) /\ OthersStay(r)
    BY <1>6, <2>1, MovedIs, OthersStayAre, Zenon
  <2>3. "stepped" # "ended" /\ "sample" \in Places /\ "sample" \notin Writing /\ "sample" # "stepped"
    BY DEF Places, Writing
  <2>4. CASE SaveTo(r, CheckpointPath(r))
    <3>1. step[r] >= 1
      BY <2>1, Zenon DEF FilesInv, RunsAt, RunAt
    <3>2. PICK p : p = CheckpointPath(r)
      OBVIOUS
    <3>3. SaveTo(r, p)
      BY <2>4, <3>2, Zenon
    <3>4. QED
      BY <1>1, <2>1, <2>2, <2>3, <3>1, <3>2, <3>3, SaveKeeps, Zenon
  <2>5. CASE To(r, "sample")
    <3>1. pc'[r] = "sample"
      BY <2>3, <2>5, ToType, Zenon
    <3>2. QED
      BY <1>1, <2>1, <2>2, <2>3, <3>1, IdleKeeps, Zenon
  <2>6. QED
    BY <2>1, <2>4, <2>5
<1>7. ASSUME NEW r \in Runs, Sample(r)
      PROVE  FilesInv'
  <2>1. /\ pc[r] = "sample" /\ step' = step /\ finite' = finite /\ files' = files /\ announced' = announced
        /\ SaveTo(r, FinalPath(r)) \/ To(r, "ended") \/ To(r, "run")
    BY <1>7, Zenon DEF Sample
  <2>2. Moved(r) /\ OthersStay(r)
    BY <1>7, <2>1, MovedIs, OthersStayAre, Zenon
  <2>3. /\ "sample" # "ended" /\ "ended" \in Places /\ "ended" \notin Writing /\ "ended" # "stepped"
        /\ "run" \in Places /\ "run" \notin Writing /\ "run" # "stepped"
    BY DEF Places, Writing
  <2>4. CASE SaveTo(r, FinalPath(r))
    <3>1. PICK p : p = FinalPath(r)
      OBVIOUS
    <3>2. SaveTo(r, p)
      BY <2>4, <3>1, Zenon
    <3>3. QED
      BY <1>1, <2>1, <2>2, <2>3, <3>1, <3>2, SaveKeeps, Zenon
  <2>5. CASE To(r, "ended") \/ To(r, "run")
    <3>1. pc'[r] = "ended" \/ pc'[r] = "run"
      BY <2>3, <2>5, ToType, Zenon
    <3>2. QED
      BY <1>1, <2>1, <2>2, <2>3, <3>1, IdleKeeps, Zenon
  <2>6. QED
    BY <2>1, <2>4, <2>5
<1>8. ASSUME NEW r \in Runs, OpenTensors(r)
      PROVE  FilesInv'
  <2>1. Moved(r) /\ pc'[r] = "tensors" /\ finite' = finite /\ announced' = announced
    BY <1>8, MovedIs, Zenon DEF OpenTensors
  <2>2. PICK u : u = Pair(path[r]).sidecar
    OBVIOUS
  <2>3. PICK t : t = Torn(r)
    OBVIOUS
  <2>4. Writes(r, t, u)
    BY <1>8, <2>2, <2>3, WritesAre, Zenon
  <2>5. t \in TensorChoices(r) /\ u \in SidecarChoices(r)
    BY <2>2, <2>3, Zenon DEF TensorChoices, SidecarChoices
  <2>6. pc'[r] # "stepped" /\ pc'[r] \notin {"saved", "sidecar"}
    BY <2>1
  <2>7. OthersStay(r) /\ step' = step /\ drawn' = drawn
    BY <2>1, OthersStayAre, Zenon DEF Moved
  <2>8. RunsAt' /\ FilesAt' /\ \A e \in announced : AnnouncedAt(e)'
    BY <1>1, <2>4, <2>5, <2>6, <2>7, WriteKeeps, Zenon
  <2>9. QED
    BY <2>1, <2>8, SameAnnounced, Zenon
<1>9. ASSUME NEW r \in Runs, WriteTensors(r)
      PROVE  FilesInv'
  <2>1. Moved(r) /\ pc'[r] = "saved" /\ finite' = finite /\ announced' = announced
    BY <1>9, MovedIs, Zenon DEF WriteTensors
  <2>2. PICK u : u = Pair(path[r]).sidecar
    OBVIOUS
  <2>3. PICK t \in {TensorsOf(r), Torn("both")} : Writes(r, t, u)
    BY <1>9, <2>2, WritesAre, Zenon
  <2>4. t \in TensorChoices(r) /\ u \in SidecarChoices(r)
    BY <2>2, <2>3, Zenon DEF TensorChoices, SidecarChoices
  <2>5. pc'[r] # "stepped"
    BY <2>1
  <2>6. t.by = r => t = TensorsOf(r)
    <3>1. Torn("both").by = "both" /\ r # "both"
      BY TornIs, RunsAssumption
    <3>2. QED
      BY <2>3, <3>1, Zenon
  <2>7. OthersStay(r) /\ step' = step /\ drawn' = drawn
    BY <2>1, OthersStayAre, Zenon DEF Moved
  <2>8. RunsAt' /\ FilesAt' /\ \A e \in announced : AnnouncedAt(e)'
    BY <1>1, <2>3, <2>4, <2>5, <2>6, <2>7, WriteKeeps, Zenon
  <2>9. QED
    BY <2>1, <2>8, SameAnnounced, Zenon
<1>10. ASSUME NEW r \in Runs, OpenSidecar(r)
       PROVE  FilesInv'
  <2>1. Moved(r) /\ pc[r] = "saved" /\ pc'[r] = "sidecar" /\ finite' = finite /\ announced' = announced
    BY <1>10, MovedIs, Zenon DEF OpenSidecar
  <2>2. PICK t : t = Pair(path[r]).tensors
    OBVIOUS
  <2>3. PICK u : u = Torn(r)
    OBVIOUS
  <2>4. Writes(r, t, u)
    BY <1>10, <2>2, <2>3, WritesAre, Zenon
  <2>5. t \in TensorChoices(r) /\ u \in SidecarChoices(r)
    BY <2>2, <2>3, Zenon DEF TensorChoices, SidecarChoices
  <2>6. pc'[r] # "stepped"
    BY <2>1
  <2>7. t.by = r => t = TensorsOf(r)
    <3>1. RunAt(r) /\ pc[r] \in {"saved", "sidecar"}
      BY <2>1, Zenon DEF FilesInv, RunsAt
    <3>2. QED
      BY <2>2, <3>1, Zenon DEF RunAt
  <2>8. OthersStay(r) /\ step' = step /\ drawn' = drawn
    BY <2>1, OthersStayAre, Zenon DEF Moved
  <2>9. RunsAt' /\ FilesAt' /\ \A e \in announced : AnnouncedAt(e)'
    BY <1>1, <2>4, <2>5, <2>6, <2>7, <2>8, WriteKeeps, Zenon
  <2>10. QED
    BY <2>1, <2>9, SameAnnounced, Zenon
<1>11. ASSUME NEW r \in Runs, WriteSidecar(r)
       PROVE  FilesInv'
  <2>1. Moved(r) /\ finite' = finite
    BY <1>11, MovedIs, Zenon DEF WriteSidecar
  <2>2. QED
    BY <1>1, <1>11, <2>1, OthersStayAre, AnnounceKeeps, Zenon
<1>12. QED
  BY <1>1, <1>2, <1>3, <1>4, <1>5, <1>6, <1>7, <1>8, <1>9, <1>10, <1>11, StepKeeps, Zenon DEF Next

LEMMA FilesInvariant == Spec => []FilesInv
<1>1. QED
  BY TypeCorrect, FilesInit, FilesNext, PTL DEF Spec

-----------------------------------------------------------------------------
(* Loading *)

LEMMA LoadIs ==
  ASSUME NEW b, NEW p, LoadAdapter(b, p) # <<>>
  PROVE  /\ Pair(p).tensors.state = "whole" /\ Pair(p).sidecar.state = "whole"
         /\ Pair(p).tensors.a = <<Pair(p).sidecar.dims[2], Rank(Pair(p).sidecar.rank)>>
BY Zenon DEF LoadAdapter

(* A sidecar of the other task has other sizes, so a velocity net never      *)
(* loads as a classifier, whatever two runs and a kill have left at its path *)
(* (sample_adapter refuses the task, load_adapter checks the shapes).        *)
THEOREM NeverClassified == Spec => []VelocityNeverClassified
<1>1. TypeInv /\ FilesInv => VelocityNeverClassified
  <2> SUFFICES ASSUME TypeInv, FilesInv, NEW p \in DOMAIN files, SampleAdapter(p) # <<>>
               PROVE  config[Pair(p).tensors.by].task = Classification
    BY Zenon DEF VelocityNeverClassified
  <2> DEFINE t == Pair(p).tensors
             meta == Pair(p).sidecar
  <2>1. LoadAdapter("ndarray", p) # <<>> /\ ~(meta.state = "whole" /\ meta.task = FlowMatching)
    BY Zenon DEF SampleAdapter
  <2>2. t.state = "whole" /\ meta.state = "whole" /\ t.a = <<meta.dims[2], Rank(meta.rank)>>
    BY <2>1, LoadIs, Zenon
  <2>3. FileAt(p)
    BY Zenon DEF FilesInv, FilesAt
  <2>4. PICK r \in Runs : t.by = r /\ t.a = <<Dims(config[r])[2], Rank(config[r].rank)>>
    BY <2>2, <2>3, Zenon DEF FileAt, GoodTensors
  <2>5. PICK s \in Runs : meta = SidecarOf(s)
    BY <2>2, <2>3, Zenon DEF FileAt, GoodSidecar
  <2> HIDE DEF t, meta
  <2>6. meta.dims = Dims(config[s]) /\ meta.task = config[s].task
    BY <2>5, ContentIs, Zenon
  <2>7. config[s].task # FlowMatching
    BY <2>1, <2>2, <2>6, Zenon
  <2>8. meta.dims[2] = Dims(config[r])[2]
    <3>1. PICK x, y, v, w : x = meta.dims[2] /\ y = Rank(meta.rank) /\ v = Dims(config[r])[2] /\ w = Rank(config[r].rank)
      BY Zenon
    <3>2. <<x, y>> = <<v, w>>
      BY <2>2, <2>4, <3>1, Zenon
    <3>3. x = v
      BY <3>2
    <3>4. QED
      BY <3>1, <3>3, Zenon
  <2>9. Dims(config[s])[2] = 256
    BY <2>7 DEF Dims
  <2>10. config[r].task # FlowMatching
    BY <2>6, <2>8, <2>9 DEF Dims
  <2>11. config[r].task \in {Classification, FlowMatching}
    BY ConfigOf, ConfigType, Zenon
  <2>12. QED
    BY <2>4, <2>10, <2>11, Zenon DEF t
<1>2. QED
  BY <1>1, TypeCorrect, FilesInvariant, PTL

(* The base drawn again is the base of a run that drew it alone.             *)
LEMMA BaseAgain ==
  ASSUME NEW c \in Conf
  PROVE  /\ DOMAIN Replay(c.backend, c.seed, NewDraws(Dims(c)) \o LazyBase(Dims(c))) = 1 .. 4
         /\ \A k \in Nat : \A i \in 1 .. 4 :
              Replay(c.backend, c.seed, NewDraws(Dims(c)) \o LazyBase(Dims(c)))[i] = Alone(c, k, i)
<1>1. PICK q \in Seq(Item) : q = Base(Dims(c)) /\ Len(q) = 4
  BY BaseShape, Zenon
<1>2. NewDraws(Dims(c)) \o LazyBase(Dims(c)) = q
  <2>1. q \o <<>> = q
    BY ConcatEmptySeq
  <2>2. QED
    BY <1>1, <2>1, NothingLazy, Zenon
<1>3. /\ DOMAIN Replay(c.backend, c.seed, q) = 1 .. Len(q)
      /\ \A i \in 1 .. Len(q) : Replay(c.backend, c.seed, q)[i] =
           Draw(c.backend, [seed |-> c.seed, shapes |-> [j \in 1 .. i - 1 |-> q[j][2]]], q[i])
  BY ReplayIs
<1>4. ASSUME NEW k \in Nat, NEW i \in 1 .. 4
      PROVE  Replay(c.backend, c.seed, q)[i] = Alone(c, k, i)
  <2>1. \A j \in 1 .. 4 : ProgramUpTo(c, k)[j] = q[j]
    BY <1>1, ProgramType, Zenon
  <2>2. \A j \in 1 .. i - 1 : j \in 1 .. 4
    OBVIOUS
  <2>3. Told(c, k, i - 1) = [j \in 1 .. i - 1 |-> q[j][2]]
    BY <2>1, <2>2, Zenon DEF Told
  <2>4. QED
    BY <1>1, <1>3, <2>1, <2>3, Zenon DEF Alone
<1>5. QED
  BY <1>1, <1>2, <1>3, <1>4, Zenon

LEMMA BaseDrawn ==
  ASSUME DrawInv, NEW r \in Runs, Clean(r) >= 4
  PROVE  /\ \A i \in 1 .. 4 : drawn[r][i] = Alone(config[r], step[r] + 1, i)
         /\ \A d : d \in BaseOf(r) <=> \E i \in 1 .. 4 : d = drawn[r][i]
<1> DEFINE c == config[r]
           k == step[r] + 1
           p == ProgramUpTo(c, k)
<1>1. c \in Conf /\ k \in Nat /\ Len(drawn[r]) \in Nat /\ Clean(r) \in 0 .. Len(drawn[r]) /\ Len(p) \in Nat
      /\ Len(drawn[r]) <= Len(p)
      /\ \A i \in 1 .. Clean(r) : drawn[r][i] = Alone(c, k, i)
  <2>1. k \in Nat
    BY DEF DrawInv, TypeInv
  <2>2. QED
    BY <2>1, DrawnAlone, Zenon
<1>2. \A i \in 1 .. Len(drawn[r]) : drawn[r][i].of = p[i][1]
  BY Zenon DEF DrawInv, RunFits
<1>3. /\ \A i \in 1 .. 4 : p[i] = Base(Dims(c))[i]
      /\ \A i \in 5 .. Len(p) : p[i] \in Trained
  BY <1>1, ProgramType, Zenon
<1>4. drawn[r] \in Seq(Draws)
  BY DEF DrawInv, TypeInv
<1> HIDE DEF c, k, p
<1>5. \A i \in 1 .. 4 : i \in 1 .. Clean(r) /\ i \in 1 .. Len(drawn[r])
  BY <1>1
<1>6. \A i \in 1 .. 4 : drawn[r][i] = Alone(c, k, i)
  BY <1>1, <1>5, Zenon
<1>7. \A d : d \in ToSet(drawn[r]) <=> \E i \in 1 .. Len(drawn[r]) : d = drawn[r][i]
  BY <1>4 DEF ToSet
<1>8. ASSUME NEW i \in 1 .. 4
      PROVE  drawn[r][i] \in BaseOf(r)
  <2>1. drawn[r][i].of = Base(Dims(c))[i][1]
    BY <1>2, <1>3, <1>5, Zenon
  <2>2. QED
    BY <1>5, <1>7, <2>1, Zenon DEF BaseOf, c
<1>9. ASSUME NEW d \in BaseOf(r)
      PROVE  \E i \in 1 .. 4 : d = drawn[r][i]
  <2>1. d \in ToSet(drawn[r]) /\ \E j \in 1 .. 4 : Base(Dims(c))[j][1] = d.of
    BY Zenon DEF BaseOf, c
  <2>2. PICK i \in 1 .. Len(drawn[r]) : d = drawn[r][i]
    BY <1>7, <2>1, Zenon
  <2>3. d.of \in Frozen
    BY <2>1, BaseShape, Zenon
  <2>4. CASE i \in 1 .. 4
    BY <2>2, <2>4
  <2>5. CASE i \notin 1 .. 4
    <3>1. i \in 5 .. Len(p)
      BY <1>1, <2>5
    <3>2. p[i][1] \in Others
      <4>1. p[i] \in Trained
        BY <1>3, <3>1, Zenon
      <4>2. QED
        BY <4>1 DEF Trained
    <3>3. d.of = p[i][1]
      BY <1>2, <2>2, Zenon
    <3>4. QED
      BY <2>3, <3>2, <3>3, NamesDiffer
  <2>6. QED
    BY <2>4, <2>5
<1>10. QED
  BY <1>6, <1>8, <1>9, Zenon DEF c, k

(* An adapter that was announced, and that no other run has since begun to   *)
(* write, loads with the factors it had then and the scaling of its run, and *)
(* on ndarray with the base that the run drew alone: both files are written  *)
(* before the event, no run comes back to a path it announced, and           *)
(* load_adapter repeats the first draws of a run.                            *)
THEOREM AnnouncedLoads == Spec => []AnnouncedIsTheRun
<1>1. DrawInv /\ FilesInv => AnnouncedIsTheRun
  <2> SUFFICES ASSUME DrawInv, FilesInv, NEW e \in announced,
                      Pair(e.path).tensors.by = e.by, Pair(e.path).sidecar.by = e.by
               PROVE  LET c == config[e.by]
                          model == LoadAdapter("ndarray", e.path)
                      IN  /\ model # <<>>
                          /\ model[1].factors = e.factors
                          /\ model[1].scaling = <<c.alpha, Rank(c.rank)>>
                          /\ c.backend = "ndarray" /\ Clean(e.by) >= 4 => ToSet(model[1].base) = BaseOf(e.by)
    BY Zenon DEF AnnouncedIsTheRun
  <2>1. AnnouncedAt(e) /\ FileAt(e.path) /\ TypeInv
    BY Zenon DEF FilesInv, AllAnnouncedAt, FilesAt, DrawInv
  <2>2. PICK r \in Runs : r = e.by
    BY <2>1, Zenon DEF AnnouncedAt
  <2> DEFINE t == Pair(e.path).tensors
             meta == Pair(e.path).sidecar
             c == config[r]
  <2>3. t.state = "whole" /\ t.factors = e.factors /\ meta.state = "whole"
    BY <2>1, Zenon DEF AnnouncedAt
  <2>4. /\ t.finite /\ t.a = <<Dims(c)[2], Rank(c.rank)>> /\ t.b = <<Rank(c.rank), Dims(c)[3]>>
    BY <2>1, <2>2, <2>3, Zenon DEF FileAt, GoodTensors
  <2>5. meta = SidecarOf(r)
    <3>1. PICK s \in Runs : meta = SidecarOf(s)
      BY <2>1, <2>3, Zenon DEF FileAt, GoodSidecar
    <3>2. meta.by = s
      BY <3>1, ContentIs, Zenon
    <3>3. QED
      BY <2>2, <3>1, <3>2, Zenon
  <2>6. /\ meta.seed = c.seed /\ meta.rank = Rank(c.rank) /\ meta.alpha = c.alpha /\ meta.dims = Dims(c)
    <3>1. /\ SidecarOf(r).seed = c.seed /\ SidecarOf(r).rank = Rank(c.rank)
          /\ SidecarOf(r).alpha = c.alpha /\ SidecarOf(r).dims = Dims(c)
      BY ContentIs, Zenon
    <3>2. QED
      BY <2>5, <3>1, Zenon
  <2>7. Rank(meta.rank) = Rank(c.rank)
    <3>1. c.rank \in Nat
      BY <2>1, ConfigOf, ConfigType, Zenon
    <3>2. Rank(Rank(c.rank)) = Rank(c.rank)
      BY <3>1 DEF Rank
    <3>3. QED
      BY <2>6, <3>2, Zenon
  <2> DEFINE base == Replay("ndarray", c.seed, NewDraws(Dims(c)) \o LazyBase(Dims(c)))
             m == [base |-> base, factors |-> e.factors, scaling |-> <<c.alpha, Rank(c.rank)>>]
  <2>8. LoadAdapter("ndarray", e.path) = <<m>>
    <3>1. LoadAdapter("ndarray", e.path) =
            <<[base |-> Replay("ndarray", meta.seed, NewDraws(meta.dims) \o LazyBase(meta.dims)),
               factors |-> t.factors, scaling |-> <<meta.alpha, Rank(meta.rank)>>]>>
      <4>1. /\ t.state = "whole" /\ meta.state = "whole" /\ t.finite
            /\ t.a = <<meta.dims[2], Rank(meta.rank)>>
            /\ t.b = <<Rank(meta.rank), meta.dims[3]>>
        <5> HIDE DEF t, meta, c
        <5>1. QED
          BY <2>3, <2>4, <2>6, <2>7, Zenon
      <4>2. QED
        BY <4>1, Zenon DEF LoadAdapter
    <3> HIDE DEF t, meta
    <3>2. QED
      BY <2>3, <2>6, <2>7, <3>1, Zenon
  <2>9. /\ <<m>> # <<>> /\ <<m>>[1] = m
        /\ m.base = base /\ m.factors = e.factors /\ m.scaling = <<c.alpha, Rank(c.rank)>>
    <3> HIDE DEF base, c
    <3>1. QED
      OBVIOUS
  <2>10. ASSUME c.backend = "ndarray", Clean(r) >= 4
         PROVE  ToSet(base) = BaseOf(r)
    <3>1. c \in Conf
      BY <2>1, ConfigOf, Zenon
    <3>2. DOMAIN base = 1 .. 4 /\ \A k \in Nat : \A i \in 1 .. 4 : base[i] = Alone(c, k, i)
      BY <2>10, <3>1, BaseAgain, Zenon
    <3>3. step[r] + 1 \in Nat
      BY <2>1 DEF TypeInv
    <3> HIDE DEF base
    <3>4. /\ \A i \in 1 .. 4 : drawn[r][i] = Alone(c, step[r] + 1, i)
          /\ \A d : d \in BaseOf(r) <=> \E i \in 1 .. 4 : d = drawn[r][i]
      BY <2>10, BaseDrawn, Zenon
    <3>5. \A d : d \in ToSet(base) <=> \E i \in 1 .. 4 : d = base[i]
      BY <3>2 DEF ToSet
    <3>6. \A i \in 1 .. 4 : base[i] = drawn[r][i]
      BY <3>2, <3>3, <3>4, Zenon
    <3>7. \A d : d \in ToSet(base) <=> d \in BaseOf(r)
      BY <3>4, <3>5, <3>6, ZenonT(60)
    <3>8. QED
      BY <3>7
  <2> HIDE DEF m, base
  <2>11. QED
    BY <2>2, <2>8, <2>9, <2>10, Zenon
<1>2. QED
  BY <1>1, DrawInvariant, FilesInvariant, PTL
=============================================================================
