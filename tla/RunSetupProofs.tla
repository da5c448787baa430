--------------------------- MODULE RunSetupProofs ---------------------------
(***************************************************************************)
(* TLAPS proofs about the setup of runs, for every number of runs and of   *)
(* processes, every layers of configuration, files and shapes of linears:  *)
(*   - the tokenizer that they share is the pinned one, and stays it;      *)
(*   - a run that has passed the checks is one the dispatch is wired for,  *)
(*     with the base its configuration asks for;                           *)
(*   - a quantized site fits its threshold, chunk by chunk;                *)
(*   - at the first step each frozen parameter is what its file says, with *)
(*     the delta of the training adapter added once.                       *)
(***************************************************************************)
EXTENDS RunSetup, FiniteSetTheorems, SequenceTheorems, WellFoundedInduction, TLAPS

-----------------------------------------------------------------------------
(* What a step of a run's setup does to the tokenizer *)

Stages == {"idle", "override", "lookup", "fetched", "download", "stage", "writing",
           "rename", "loaded", "failed"}
Staged == Contents \ {"other"}

(* The outcomes of Resolve and of Download, without their inputs. *)
Resolved(r) ==
  /\ fetch[r] = "idle"
  /\ \E stage \in {"failed", "override", "lookup"} : GoTo(r, stage)
  /\ UNCHANGED <<pid, disk, fd, tokenizer>>

TokenizerStep(r) == Resolved(r) \/ FetchStep(r) \/ LoadTokenizer(r) \/ Leave(r)

LEMMA ResolveResolves ==
  ASSUME NEW r \in Runs, NEW override, NEW inBase, Resolve(r, override, inBase)
  PROVE  Resolved(r)
BY DEF Resolve, Resolved

LEMMA SetupTouchesTokenizer ==
  ASSUME [Next]_vars
  PROVE  UNCHANGED fetchVars \/ \E r \in Runs : TokenizerStep(r)
<1>1. CASE UNCHANGED vars
  BY <1>1 DEF vars
<1>2. ASSUME NEW r \in Runs,
             \/ Launch(r) \/ Validate(r) \/ EncodeWarm(r) \/ EncodeMiss(r) \/ Fetching(r)
             \/ EncodeLoad(r) \/ EncodeRead(r) \/ EncodeDone(r) \/ EncodeFails(r)
             \/ OpenBase(r) \/ QuantizeNext(r) \/ QuantizeDone(r)
             \/ NoAdapter(r) \/ OpenAdapter(r) \/ MergeNext(r) \/ MergeDone(r)
             \/ Stop(r)
      PROVE  UNCHANGED fetchVars \/ TokenizerStep(r)
  <2>1. CASE Launch(r)
    BY <2>1, Zenon DEF Launch
  <2>2. CASE Validate(r)
    BY <2>2, Zenon DEF Validate
  <2>3. CASE EncodeWarm(r)
    BY <2>3, Zenon DEF EncodeWarm, TokenizerStep
  <2>4. CASE EncodeMiss(r)
    BY <2>4, ResolveResolves, Zenon DEF EncodeMiss, TokenizerStep
  <2>5. CASE Fetching(r)
    BY <2>5, Zenon DEF Fetching, TokenizerStep
  <2>6. CASE EncodeLoad(r)
    BY <2>6, Zenon DEF EncodeLoad, TokenizerStep
  <2>7. CASE EncodeRead(r)
    BY <2>7, Zenon DEF EncodeRead, TokenizerStep
  <2>8. CASE EncodeDone(r)
    BY <2>8, Zenon DEF EncodeDone, TokenizerStep
  <2>9. CASE EncodeFails(r)
    BY <2>9, Zenon DEF EncodeFails, TokenizerStep
  <2>10. CASE OpenBase(r)
    BY <2>10, Zenon DEF OpenBase
  <2>11. CASE QuantizeNext(r) \/ QuantizeDone(r)
    BY <2>11, Zenon DEF QuantizeNext, QuantizeDone
  <2>12. CASE NoAdapter(r) \/ OpenAdapter(r)
    BY <2>12, Zenon DEF NoAdapter, OpenAdapter
  <2>13. CASE MergeNext(r) \/ MergeDone(r)
    BY <2>13, Zenon DEF MergeNext, MergeDone
  <2>14. CASE Stop(r)
    BY <2>14, Zenon DEF Stop, TokenizerStep
  <2>15. QED
    BY <1>2, <2>1, <2>2, <2>3, <2>4, <2>5, <2>6, <2>7, <2>8, <2>9, <2>10, <2>11, <2>12,
       <2>13, <2>14, Zenon
<1>3. QED
  BY <1>1, <1>2, Zenon DEF Next

-----------------------------------------------------------------------------
(* Types *)

FetchTypeOK ==
  /\ pid \in [Runs -> Pids]
  /\ disk \in [Places -> Contents]
  /\ fd \in [Runs -> Places \cup {"none", "unlinked"}]
  /\ fetch \in [Runs -> Stages]
  /\ tokenizer \in [Runs -> Contents \cup {"own", "none"}]

LEMMA FetchTypeInit == InitFetch => FetchTypeOK
<1> SUFFICES ASSUME InitFetch PROVE FetchTypeOK
  OBVIOUS
<1>1. pid \in [Runs -> Pids]
  BY DEF InitFetch
<1>2. disk \in [Places -> Contents]
  <2>1. CASE disk \in [Places -> {"absent", "torn"}]
    BY <2>1 DEF Contents
  <2>2. CASE disk \in {[p \in Places |-> IF p = "cache" THEN c ELSE "absent"] :
                         c \in Contents}
    BY <2>2 DEF Contents
  <2>3. QED
    BY <2>1, <2>2 DEF InitFetch
<1>3. fd \in [Runs -> Places \cup {"none", "unlinked"}]
  BY DEF InitFetch
<1>4. fetch \in [Runs -> Stages]
  BY DEF InitFetch, Stages
<1>5. tokenizer \in [Runs -> Contents \cup {"own", "none"}]
  BY DEF InitFetch
<1>6. QED
  BY <1>1, <1>2, <1>3, <1>4, <1>5, Zenon DEF FetchTypeOK

LEMMA FetchTypeStep ==
  ASSUME FetchTypeOK, NEW r \in Runs, TokenizerStep(r)
  PROVE  FetchTypeOK'
<1>1. CASE Resolved(r)
  BY <1>1 DEF FetchTypeOK, Resolved, GoTo, Stages
<1>2. CASE ReadCache(r)
  BY <1>2 DEF FetchTypeOK, ReadCache, GoTo, Stages
<1>3. CASE Download(r)
  BY <1>3 DEF FetchTypeOK, Download, GoTo, Stages
<1>4. CASE OpenStaged(r)
  BY <1>4 DEF FetchTypeOK, OpenStaged, GoTo, Stages, Places, Contents
<1>5. CASE FillStaged(r)
  BY <1>5 DEF FetchTypeOK, FillStaged, GoTo, Stages, Contents
<1>6. CASE Rename(r)
  <2>1. pid[r] \in Places /\ "cache" \in Places
    BY DEF FetchTypeOK, Places
  <2>2. CASE disk[pid[r]] = "absent"
    BY <1>6, <2>2 DEF FetchTypeOK, Rename, GoTo, Stages
  <2>3. CASE disk[pid[r]] # "absent"
    BY <1>6, <2>1, <2>3 DEF FetchTypeOK, Rename, GoTo, Stages, Contents
  <2>4. QED
    BY <2>2, <2>3
<1>7. CASE LoadTokenizer(r)
  <2>1. disk["cache"] \in Contents
    BY DEF FetchTypeOK, Places
  <2>2. QED
    BY <1>7, <2>1 DEF FetchTypeOK, LoadTokenizer, GoTo, Stages
<1>8. CASE Leave(r)
  BY <1>8 DEF FetchTypeOK, Leave, Stages
<1>9. QED
  BY <1>1, <1>2, <1>3, <1>4, <1>5, <1>6, <1>7, <1>8 DEF TokenizerStep, FetchStep

-----------------------------------------------------------------------------
(* What is trained on *)

(* No run stages anything but the pinned file, whole or in part, so that    *)
(* the cached file is of another content only until the first publication;  *)
(* a run that has fetched it has seen that publication or the pinned file.  *)
PinInv ==
  /\ \A p \in Pids : disk[p] \in Staged
  /\ \A r \in Runs : fetch[r] = "fetched" => disk["cache"] \in Staged
  /\ TrainsOnThePin

LEMMA PinInit == InitFetch => PinInv
<1> SUFFICES ASSUME InitFetch
             PROVE  PinInv
  OBVIOUS
<1>1. \A p \in Pids : disk[p] \in {"absent", "torn"}
  <2>1. CASE disk \in [Places -> {"absent", "torn"}]
    BY <2>1 DEF Places
  <2>2. ASSUME NEW c \in Contents, disk = [p \in Places |-> IF p = "cache" THEN c ELSE "absent"]
        PROVE  \A p \in Pids : disk[p] \in {"absent", "torn"}
    BY <2>2, PidsAssumption DEF Places
  <2>3. QED
    BY <2>1, <2>2 DEF InitFetch
<1>2. \A r \in Runs : fetch[r] = "idle"
  BY DEF InitFetch
<1>3. QED
  BY <1>1, <1>2 DEF PinInv, TrainsOnThePin, Staged, Contents

(* Whatever a run writes to the cached file is the pinned file or a part.   *)
LEMMA CacheImproves ==
  ASSUME FetchTypeOK, PinInv, NEW r \in Runs, TokenizerStep(r)
  PROVE  /\ \A p \in Pids : disk'[p] \in Staged
         /\ disk["cache"] \in Staged => disk'["cache"] \in Staged
<1>1. CASE OpenStaged(r)
  BY <1>1, PidsAssumption DEF FetchTypeOK, PinInv, OpenStaged, Places, Contents, Staged
<1>2. CASE FillStaged(r)
  BY <1>2, PidsAssumption DEF FetchTypeOK, PinInv, FillStaged, Places, Contents, Staged
<1>3. CASE Rename(r)
  <2>1. pid[r] \in Pids /\ pid[r] # "cache"
    BY PidsAssumption DEF FetchTypeOK
  <2>2. CASE disk[pid[r]] = "absent"
    BY <1>3, <2>2 DEF PinInv, Rename
  <2>3. CASE disk[pid[r]] # "absent"
    <3>1. disk' = [disk EXCEPT !["cache"] = disk[pid[r]], ![pid[r]] = "absent"]
      BY <1>3, <2>3 DEF Rename
    <3>2. DOMAIN disk = Places /\ "cache" \in Places /\ Pids \subseteq Places
      BY DEF FetchTypeOK, Places
    <3>3. /\ disk'["cache"] = disk[pid[r]] /\ disk'[pid[r]] = "absent"
          /\ \A p \in Pids \ {pid[r]} : p # "cache" /\ disk'[p] = disk[p]
      <4>1. \A p \in Pids : p # "cache"
        BY PidsAssumption
      <4>2. QED
        BY <2>1, <3>1, <3>2, <4>1
    <3>4. \A p \in Pids : disk[p] \in Staged
      BY DEF PinInv
    <3>5. "absent" \in Staged
      BY DEF Staged, Contents
    <3>6. QED
      BY <2>1, <3>3, <3>4, <3>5
  <2>4. QED
    BY <2>2, <2>3
<1>4. CASE Resolved(r) \/ ReadCache(r) \/ Download(r) \/ LoadTokenizer(r) \/ Leave(r)
  BY <1>4 DEF PinInv, Resolved, ReadCache, Download, LoadTokenizer, Leave
<1>5. QED
  BY <1>1, <1>2, <1>3, <1>4 DEF TokenizerStep, FetchStep

(* A run that has just fetched finds the pinned file or its own staged one  *)
(* in the cache; a run that loads, what has been there since.               *)
LEMMA PinStep ==
  ASSUME FetchTypeOK, PinInv, NEW r \in Runs, TokenizerStep(r)
  PROVE  PinInv'
<1>1. \A p \in Pids : disk'[p] \in Staged
  BY CacheImproves
<1>2. ASSUME NEW q \in Runs, fetch'[q] = "fetched"
      PROVE  disk'["cache"] \in Staged
  <2>1. CASE fetch[q] = "fetched"
    BY <2>1, CacheImproves DEF PinInv
  <2>2. CASE fetch[q] # "fetched"
    <3>1. q = r /\ (ReadCache(r) \/ Rename(r))
      BY <1>2, <2>2 DEF FetchTypeOK, TokenizerStep, FetchStep, Resolved, ReadCache, Download, OpenStaged,
         FillStaged, Rename, LoadTokenizer, Leave, GoTo
    <3>2. CASE ReadCache(r)
      BY <1>2, <3>1, <3>2 DEF FetchTypeOK, ReadCache, GoTo, Verified, Staged, Contents
    <3>3. CASE Rename(r)
      <4>1. pid[r] \in Pids /\ pid[r] # "cache" /\ disk[pid[r]] # "absent"
        BY <1>2, <3>1, <3>3, PidsAssumption DEF FetchTypeOK, Rename, GoTo
      <4>2. disk'["cache"] = disk[pid[r]]
        BY <3>3, <4>1 DEF FetchTypeOK, Rename, Places
      <4>3. QED
        BY <4>1, <4>2 DEF PinInv
    <3>4. QED
      BY <3>1, <3>2, <3>3
  <2>3. QED
    BY <2>1, <2>2
<1>3. ASSUME NEW q \in Runs, fetch'[q] = "loaded"
      PROVE  tokenizer'[q] \in {"own", "pinned"}
  <2>1. CASE fetch[q] = "loaded"
    BY <1>3, <2>1 DEF FetchTypeOK, PinInv, TrainsOnThePin, TokenizerStep, FetchStep, Resolved, ReadCache,
       Download, OpenStaged, FillStaged, Rename, LoadTokenizer, Leave, GoTo
  <2>2. CASE fetch[q] # "loaded"
    <3>1. q = r /\ LoadTokenizer(r)
      BY <1>3, <2>2 DEF FetchTypeOK, TokenizerStep, FetchStep, Resolved, ReadCache, Download, OpenStaged,
         FillStaged, Rename, LoadTokenizer, Leave, GoTo
    <3>2. QED
      BY <1>3, <3>1 DEF FetchTypeOK, PinInv, LoadTokenizer, GoTo, Staged, Contents
  <2>3. QED
    BY <2>1, <2>2
<1>4. QED
  BY <1>1, <1>2, <1>3 DEF PinInv, TrainsOnThePin

LEMMA FetchUnchanged ==
  ASSUME UNCHANGED fetchVars
  PROVE  (FetchTypeOK => FetchTypeOK') /\ (PinInv => PinInv')
BY DEF fetchVars, FetchTypeOK, PinInv, TrainsOnThePin

(* Every state of the tokenizer cache and of the runs is one the types      *)
(* name: no stage of hf.rs is left undefined.                               *)
THEOREM FetchTypeCorrect == Spec => []FetchTypeOK
<1>1. Init => FetchTypeOK
  BY FetchTypeInit DEF Init
<1>2. FetchTypeOK /\ [Next]_vars => FetchTypeOK'
  BY SetupTouchesTokenizer, FetchTypeStep, FetchUnchanged, Zenon
<1>3. QED
  BY <1>1, <1>2, PTL DEF Spec

(* A tokenizer that was fetched and loaded is the pinned one (hf.rs,        *)
(* resolve_tokenizer), for any number of runs of any processes, whatever    *)
(* the cache held, and whenever runs are killed.                            *)
THEOREM TrainedOnThePin == Spec => []TrainsOnThePin
<1>1. Init => PinInv
  BY PinInit DEF Init
<1>2. FetchTypeOK /\ PinInv /\ [Next]_vars => PinInv'
  BY SetupTouchesTokenizer, PinStep, FetchUnchanged, Zenon
<1>3. PinInv => TrainsOnThePin
  BY DEF PinInv
<1>4. QED
  BY <1>1, <1>2, <1>3, FetchTypeCorrect, PTL DEF Spec

-----------------------------------------------------------------------------
(* What stays cached *)

OneRunPerProcess == \A q, r \in Runs : q # r => pid[q] # pid[r]

(* With one run per process, a run writes only under its process's name,    *)
(* alone, and what it is about to publish is complete.                      *)
OwnInv ==
  OneRunPerProcess => \A r \in Runs :
    /\ fd[r] = IF fetch[r] = "writing" THEN pid[r] ELSE "none"
    /\ fetch[r] = "rename" => disk[pid[r]] = "pinned"

LEMMA OwnInit == InitFetch => OwnInv
BY DEF InitFetch, OwnInv

LEMMA PidsStay ==
  ASSUME NEW r \in Runs, TokenizerStep(r)
  PROVE  pid' = pid
BY DEF TokenizerStep, FetchStep, Resolved, ReadCache, Download, OpenStaged, FillStaged, Rename,
   LoadTokenizer, Leave

(* A run whose process no other run has finds no other writer of its file.  *)
LEMMA FillCompletes ==
  ASSUME FetchTypeOK, OneRunPerProcess, OwnInv, NEW r \in Runs, FillStaged(r)
  PROVE  disk' = [disk EXCEPT ![pid[r]] = "pinned"]
<1>1. pid[r] \in Places /\ pid[r] # "none" /\ fd[r] = pid[r]
  BY PidsAssumption DEF FetchTypeOK, Places, OwnInv, FillStaged
<1>2. \A q \in Runs \ {r} : fd[q] # fd[r]
  BY <1>1 DEF OwnInv, OneRunPerProcess
<1>3. QED
  BY <1>1, <1>2 DEF FillStaged

LEMMA OwnStep ==
  ASSUME FetchTypeOK, OwnInv, NEW r \in Runs, TokenizerStep(r)
  PROVE  OwnInv'
<1> SUFFICES ASSUME OneRunPerProcess', NEW q \in Runs
             PROVE  /\ fd'[q] = IF fetch'[q] = "writing" THEN pid'[q] ELSE "none"
                    /\ fetch'[q] = "rename" => disk'[pid'[q]] = "pinned"
  BY DEF OwnInv
<1>1. OneRunPerProcess /\ pid' = pid
  BY PidsStay DEF OneRunPerProcess
<1>2. /\ fd[q] = IF fetch[q] = "writing" THEN pid[q] ELSE "none"
      /\ fetch[q] = "rename" => disk[pid[q]] = "pinned"
  BY <1>1 DEF OwnInv
<1>3. pid[q] \in Pids /\ pid[r] \in Pids /\ (q # r => pid[q] # pid[r])
  BY <1>1 DEF FetchTypeOK, OneRunPerProcess
<1>4. CASE OpenStaged(r)
  BY <1>1, <1>2, <1>3, <1>4 DEF FetchTypeOK, OpenStaged, GoTo, Places
<1>5. CASE FillStaged(r)
  <2>1. disk' = [disk EXCEPT ![pid[r]] = "pinned"]
    BY <1>1, <1>5, FillCompletes
  <2>2. QED
    BY <1>1, <1>2, <1>3, <1>5, <2>1 DEF FetchTypeOK, FillStaged, GoTo, Places
<1>6. CASE Rename(r)
  <2>1. fd[q] # "cache" /\ fd[r] = "none" /\ (q # r => fd[q] # pid[r])
    BY <1>1, <1>3, <1>6, <1>2, PidsAssumption DEF OwnInv, Rename
  <2>2. fd'[q] = fd[q]
    BY <1>3, <1>6, <2>1, PidsAssumption DEF Rename
  <2>3. (fetch'[q] = "writing" <=> fetch[q] = "writing")
        /\ (fetch'[q] = "rename" => q # r /\ fetch[q] = "rename")
    BY <1>6 DEF FetchTypeOK, Rename, GoTo
  <2>4. q # r => disk'[pid[q]] = disk[pid[q]]
    BY <1>3, <1>6, PidsAssumption DEF FetchTypeOK, Rename, Places
  <2>5. QED
    BY <1>1, <1>2, <2>2, <2>3, <2>4
<1>7. CASE Resolved(r) \/ ReadCache(r) \/ Download(r) \/ LoadTokenizer(r) \/ Leave(r)
  BY <1>1, <1>2, <1>3, <1>7 DEF FetchTypeOK, Resolved, ReadCache, Download, LoadTokenizer, Leave, GoTo
<1>8. QED
  BY <1>4, <1>5, <1>6, <1>7 DEF TokenizerStep, FetchStep

LEMMA OwnUnchanged ==
  ASSUME UNCHANGED fetchVars
  PROVE  OwnInv => OwnInv'
BY DEF fetchVars, OwnInv, OneRunPerProcess

LEMMA OwnInvariant == Spec => [](FetchTypeOK /\ OwnInv)
<1>1. Init => OwnInv
  BY OwnInit DEF Init
<1>2. FetchTypeOK /\ OwnInv /\ [Next]_vars => OwnInv'
  BY SetupTouchesTokenizer, OwnStep, OwnUnchanged, Zenon
<1>3. QED
  BY <1>1, <1>2, FetchTypeCorrect, PTL DEF Spec

LEMMA CacheKept ==
  ASSUME FetchTypeOK, OwnInv, OneRunPerProcess, NEW r \in Runs, TokenizerStep(r),
         disk["cache"] = "pinned"
  PROVE  disk'["cache"] = "pinned"
<1>1. pid[r] \in Pids /\ pid[r] # "cache" /\ "cache" \in Places
  BY PidsAssumption DEF FetchTypeOK, Places
<1>2. CASE OpenStaged(r)
  BY <1>1, <1>2 DEF FetchTypeOK, OpenStaged
<1>3. CASE FillStaged(r)
  BY <1>1, <1>3, FillCompletes DEF FetchTypeOK
<1>4. CASE Rename(r)
  <2>1. disk[pid[r]] = "pinned"
    BY <1>4 DEF OwnInv, Rename
  <2>2. QED
    BY <1>1, <1>4, <2>1 DEF FetchTypeOK, Rename, Places
<1>5. CASE Resolved(r) \/ ReadCache(r) \/ Download(r) \/ LoadTokenizer(r) \/ Leave(r)
  BY <1>5 DEF Resolved, ReadCache, Download, LoadTokenizer, Leave
<1>6. QED
  BY <1>2, <1>3, <1>4, <1>5 DEF TokenizerStep, FetchStep

(* Where no process executes two runs, nothing replaces a pinned tokenizer  *)
(* in the cache by less (hf.rs, fetch_with), wherever runs are killed.      *)
THEOREM PinnedCacheStays == Spec => CacheStaysGood
<1>1. FetchTypeOK /\ OwnInv /\ [Next]_vars =>
        [(\A q, r \in Runs : q # r => pid[q] # pid[r]) /\ disk["cache"] = "pinned"
           => disk'["cache"] = "pinned"]_fetchVars
  BY SetupTouchesTokenizer, CacheKept, Zenon DEF OneRunPerProcess
<1>2. QED
  BY <1>1, OwnInvariant, PTL DEF Spec, CacheStaysGood
-----------------------------------------------------------------------------
(* Induction over sets of naturals *)

(* The library's induction theorems take the predicate as a parameter.  The  *)
(* same for a set of naturals, from the well-founded order of finite sets.   *)
Below == {p \in Nat \X Nat : p[1] < p[2]}
LEMMA BelowIff ==
  ASSUME NEW a \in Nat, NEW b \in Nat
  PROVE  <<a, b>> \in Below <=> a < b
BY DEF Below

LEMMA BelowIsWellFounded == IsWellFoundedOn(Below, Nat)
<1> SUFFICES ASSUME NEW f \in [Nat -> Nat], \A n \in Nat : <<f[n + 1], f[n]>> \in Below
             PROVE  FALSE
  BY Zenon DEF IsWellFoundedOn
<1> DEFINE g == [n \in Nat |-> 1 .. f[n]]
<1>1. ASSUME NEW n \in Nat
      PROVE  1 .. f[n] \in FiniteSubsetsOf(Nat)
  <2>1. PICK k \in Nat : k = f[n]
    OBVIOUS
  <2>2. IsFiniteSet(1 .. k) /\ 1 .. k \subseteq Nat
    BY FS_Interval
  <2>3. QED
    BY <2>1, <2>2, Zenon DEF FiniteSubsetsOf
<1>2. g \in [Nat -> FiniteSubsetsOf(Nat)]
  BY <1>1
<1>3. ASSUME NEW n \in Nat
      PROVE  <<g[n + 1], g[n]>> \in StrictSubsetOrdering(Nat)
  <2>1. PICK a \in Nat, b \in Nat : a = f[n + 1] /\ b = f[n]
    OBVIOUS
  <2>2. <<a, b>> \in Below
    BY <2>1
  <2>3. a < b
    BY <2>2 DEF Below
  <2>4. 1 .. a \subseteq 1 .. b /\ b \in 1 .. b /\ b \notin 1 .. a
    BY <2>3
  <2>5. 1 .. a \in SUBSET Nat /\ 1 .. b \in SUBSET Nat /\ 1 .. a # 1 .. b
    BY <2>4
  <2>6. <<1 .. a, 1 .. b>> \in StrictSubsetOrdering(Nat)
    <3> DEFINE x == 1 .. a
               y == 1 .. b
    <3>1. x \in SUBSET Nat /\ y \in SUBSET Nat /\ x # y /\ x \subseteq y
      BY <2>4, <2>5
    <3> HIDE DEF x, y
    <3>2. <<x, y>> \in StrictSubsetOrdering(Nat)
      BY <3>1 DEF StrictSubsetOrdering
    <3>3. QED
      BY <3>2 DEF x, y
  <2>7. g[n + 1] = 1 .. a /\ g[n] = 1 .. b
    BY <2>1
  <2>8. QED
    BY <2>6, <2>7, Zenon
<1>4. QED
  <2> HIDE DEF g
  <2>1. QED
    BY <1>2, <1>3, FS_StrictSubsetOrderingWellFounded, Zenon DEF IsWellFoundedOn

LEMMA LeastNatural ==
  ASSUME NEW T \in SUBSET Nat, T # {}
  PROVE  \E m \in T : \A n \in T : m <= n
<1>1. PICK m \in T : \A n \in T : <<n, m>> \notin Below
  BY BelowIsWellFounded, WFMin, Zenon
<1>2. \A n \in T : ~(n < m)
  BY <1>1, BelowIff
<1>3. QED
  BY <1>2

LEMMA SetInduction ==
  ASSUME NEW T, 0 \in T, \A n \in T : n \in Nat => n + 1 \in T
  PROVE  Nat \subseteq T
<1> SUFFICES ASSUME Nat \ T # {}
             PROVE  FALSE
  BY Zenon
<1>1. PICK m \in Nat \ T : \A n \in Nat \ T : m <= n
  BY LeastNatural, Zenon
<1>2. m # 0 /\ m - 1 \in Nat /\ (m - 1) + 1 = m
  OBVIOUS
<1>3. m - 1 \in T
  BY <1>1, <1>2
<1>4. QED
  BY <1>2, <1>3

(* A recursive function over 0 .. n is there, when each of its steps is a    *)
(* function on one set of values.                                            *)
Iterates(f, V, base, n, next) ==
  f \in [0 .. n -> V] /\ f[0] = base /\ \A i \in 1 .. n : f[i] = next[i][f[i - 1]]

LEMMA Iteration ==
  ASSUME NEW V, NEW base \in V, NEW n \in Nat,
         NEW next, \A i \in 1 .. n : next[i] \in [V -> V]
  PROVE  \E f : Iterates(f, V, base, n, next)
<1> DEFINE UpTo(f, m) == f[0] = base /\ \A i \in 1 .. m : f[i] = next[i][f[i - 1]]
           T == {m \in Nat : m <= n => \E f \in [0 .. m -> V] : UpTo(f, m)}
<1>1. 0 \in T
  <2> DEFINE f == [i \in 0 .. 0 |-> base]
  <2>1. f \in [0 .. 0 -> V] /\ f[0] = base
    OBVIOUS
  <2>2. 1 .. 0 = {}
    OBVIOUS
  <2> HIDE DEF f
  <2>3. UpTo(f, 0)
    BY <2>1, <2>2
  <2>4. QED
    BY <2>1, <2>3
<1>2. ASSUME NEW m \in T, m \in Nat
      PROVE  m + 1 \in T
  <2> SUFFICES ASSUME m + 1 <= n
               PROVE  \E g \in [0 .. m + 1 -> V] : UpTo(g, m + 1)
    OBVIOUS
  <2>1. m <= n /\ m + 1 \in 1 .. n /\ m \in 0 .. m
    BY <1>2
  <2>2. PICK f \in [0 .. m -> V] : UpTo(f, m)
    BY <2>1
  <2> DEFINE g == [i \in 0 .. m + 1 |-> IF i <= m THEN f[i] ELSE next[m + 1][f[m]]]
  <2>3. f[m] \in V /\ next[m + 1][f[m]] \in V
    BY <2>1
  <2>4. g \in [0 .. m + 1 -> V]
    BY <1>2, <2>3
  <2>5. \A i \in 0 .. m : g[i] = f[i]
    BY <1>2
  <2>6. g[m + 1] = next[m + 1][f[m]]
    BY <1>2
  <2> HIDE DEF g
  <2>7. ASSUME NEW i \in 1 .. m + 1
        PROVE  g[i] = next[i][g[i - 1]]
    <3>1. CASE i = m + 1
      <4>1. g[i - 1] = f[m]
        BY <1>2, <2>5, <3>1
      <4>2. QED
        BY <2>6, <3>1, <4>1
    <3>2. CASE i # m + 1
      <4>1. i \in 1 .. m /\ i \in 0 .. m /\ i - 1 \in 0 .. m
        BY <1>2, <3>2
      <4>2. QED
        BY <2>2, <2>5, <4>1
    <3>3. QED
      BY <3>1, <3>2
  <2>8. g[0] = base
    BY <1>2, <2>2, <2>5
  <2>9. QED
    BY <2>4, <2>7, <2>8
<1> HIDE DEF T, Up
<1>3. n \in T /\ n <= n
  BY <1>1, <1>2, SetInduction
<1>4. \E f \in [0 .. n -> V] : UpTo(f, n)
  BY <1>3, Zenon DEF T
<1>5. QED
  BY <1>4, Zenon DEF Up, Iterates

(* Induction over a bounded index.                                           *)
LEMMA Climb ==
  ASSUME NEW n \in Nat, NEW T, 0 \in T, \A i \in 1 .. n : i - 1 \in T => i \in T
  PROVE  0 .. n \subseteq T
<1> DEFINE U == {m \in Nat : m <= n => m \in T}
<1>1. 0 \in U
  BY Zenon
<1>2. ASSUME NEW m \in U, m \in Nat
      PROVE  m + 1 \in U
  <2>1. m + 1 <= n => m <= n /\ m + 1 \in 1 .. n /\ (m + 1) - 1 = m
    BY <1>2
  <2>2. QED
    BY <1>2, <2>1
<1> HIDE DEF U
<1>3. Nat \subseteq U
  BY <1>1, <1>2, SetInduction
<1>4. QED
  BY <1>3 DEF U

-----------------------------------------------------------------------------
(* Arithmetic of quotients *)

LEMMA Quotient ==
  ASSUME NEW a \in Nat, NEW b \in Nat \ {0}
  PROVE  /\ a \div b \in Nat /\ a % b \in 0 .. b - 1
         /\ a = (a \div b) * b + (a % b)
<1>1. a \div b \in Nat
  BY Z3
<1>2. a % b \in 0 .. b - 1
  OBVIOUS
<1>3. a = (a \div b) * b + (a % b)
  BY Z3
<1>4. QED
  BY <1>1, <1>2, <1>3

LEMMA Fit ==
  ASSUME NEW cb \in Nat, NEW row \in Nat \ {0}, NEW k \in Nat
  PROVE  /\ cb \div row \in Nat
         /\ k * row <= cb <=> k <= cb \div row
<1>1. cb \div row \in Nat /\ cb % row \in 0 .. row - 1 /\ cb = (cb \div row) * row + (cb % row)
  BY Quotient
<1> DEFINE q == cb \div row
           e == cb % row
<1> HIDE DEF q, e
<1>2. q \in Nat /\ e \in Nat /\ e < row /\ cb = q * row + e
  BY <1>1 DEF q, e
<1>3. CASE k <= q
  BY <1>2, <1>3, Z3
<1>4. CASE k >= q + 1
  <2>1. k * row >= (q + 1) * row
    BY <1>2, <1>4, Z3
  <2>2. (q + 1) * row = q * row + row
    BY <1>2, Z3
  <2>3. k * row \in Nat /\ q * row \in Nat
    BY <1>2, Z3
  <2>4. k * row > cb
    BY <2>1, <2>2, <2>3, <1>2
  <2>5. QED
    BY <2>3, <2>4, <1>2, <1>4 DEF q
<1>5. QED
  BY <1>2, <1>3, <1>4 DEF q

(* Rounded up: the least n with n * m >= d. *)
LEMMA RoundedUp ==
  ASSUME NEW d \in Nat \ {0}, NEW m \in Nat \ {0}
  PROVE  /\ (d + m - 1) \div m \in 1 .. d
         /\ ((d + m - 1) \div m) * m >= d
         /\ ((d + m - 1) \div m - 1) * m < d
<1> DEFINE n == (d + m - 1) \div m
           e == (d + m - 1) % m
<1>1. n \in Nat /\ e \in 0 .. m - 1 /\ d + m - 1 = n * m + e
  <2>1. d + m - 1 \in Nat
    OBVIOUS
  <2>2. QED
    BY <2>1, Quotient
<1> HIDE DEF n, e
<1>2. n * m \in Nat
  BY <1>1, Z3
<1>3. n * m >= d
  BY <1>1, <1>2
<1>4. n # 0
  BY <1>3, Z3
<1>5. (n - 1) * m = n * m - m
  BY <1>1, Z3
<1>6. (n - 1) * m < d
  BY <1>1, <1>2, <1>5
<1>7. n <= d
  <2>1. CASE n >= d + 1
    <3>1. (n - 1) * m >= d
      BY <1>1, <2>1, Z3
    <3>2. (n - 1) * m \in Nat
      BY <1>1, <1>4, Z3
    <3>3. QED
      BY <1>6, <3>1, <3>2
  <2>2. QED
    BY <1>1, <2>1
<1>8. QED
  BY <1>1, <1>3, <1>4, <1>6, <1>7 DEF n

(* d rows over n chunks, the first of them a row longer. *)
LEMMA EvenShares ==
  ASSUME NEW d \in Nat, NEW n \in Nat \ {0}, n <= d, NEW m \in Nat \ {0}, n * m >= d
  PROVE  /\ d \div n \in Nat \ {0} /\ d % n \in 0 .. n - 1
         /\ d = n * (d \div n) + (d % n)
         /\ (d \div n) + (IF d % n > 0 THEN 1 ELSE 0) <= m
<1> DEFINE q == d \div n
           e == d % n
<1>1. q \in Nat /\ e \in 0 .. n - 1 /\ d = q * n + e
  BY Quotient
<1> HIDE DEF q, e
<1>2. q # 0
  BY <1>1, Z3
<1>3. q * n = n * q /\ n * q \in Nat /\ n * m \in Nat
  BY <1>1, Z3
<1>4. q <= m
  <2>1. CASE q >= m + 1
    <3>1. n * q >= n * (m + 1) /\ n * (m + 1) = n * m + n
      BY <1>1, <2>1, Z3
    <3>2. QED
      BY <1>1, <1>3, <3>1
  <2>2. QED
    BY <1>1, <2>1
<1>5. e > 0 => q # m
  BY <1>1, <1>3
<1>6. d = n * q + e
  BY <1>1, <1>3
<1>7. q + (IF e > 0 THEN 1 ELSE 0) <= m
  BY <1>1, <1>4, <1>5
<1>8. QED
  BY <1>1, <1>2, <1>6, <1>7 DEF q, e

(* One chunk fewer has a longer one. *)
LEMMA OneFewer ==
  ASSUME NEW d \in Nat, NEW f \in Nat \ {0}, NEW m \in Nat, f * m < d
  PROVE  /\ (d + f - 1) \div f \in Nat
         /\ (d + f - 1) \div f >= m + 1
<1> DEFINE q == (d + f - 1) \div f
           e == (d + f - 1) % f
<1>1. q \in Nat /\ e \in 0 .. f - 1 /\ d + f - 1 = q * f + e
  <2>1. d + f - 1 \in Nat
    OBVIOUS
  <2>2. QED
    BY <2>1, Quotient
<1> HIDE DEF q, e
<1>2. CASE q <= m
  <2>1. q * f <= f * m /\ q * f \in Nat /\ f * m \in Nat
    BY <1>1, <1>2, Z3
  <2>2. QED
    BY <1>1, <2>1
<1>3. QED
  BY <1>1, <1>2 DEF q

-----------------------------------------------------------------------------
(* The chunks of a weight *)

Share(d, n, i) == (d \div n) + (IF i <= d % n THEN 1 ELSE 0)

(* What of a split the property is about: d rows of c numbers in n chunks.   *)
Splits(d, c, cb, n) ==
  /\ n \in Nat \ {0}
  /\ n > 1 => n <= d
  /\ \A i \in 1 .. n : cb > 0 => Share(d, n, i) * c * 4 <= cb \/ Share(d, n, i) = 1
  /\ n > 1 => cb > 0 /\ ((d + (n - 1) - 1) \div (n - 1)) * (c * 4) > cb

LEMMA ShareType ==
  ASSUME NEW d \in Nat, NEW n \in Nat \ {0}
  PROVE  \A i \in 1 .. n : Share(d, n, i) \in Nat
<1>1. d \div n \in Nat /\ d % n \in Nat
  BY Quotient
<1>2. QED
  BY <1>1 DEF Share

LEMMA OneChunkSplits ==
  ASSUME NEW d \in Nat, NEW c \in Nat, NEW cb \in Nat,
         cb = 0 \/ d * c * 4 <= cb \/ d <= 1
  PROVE  Splits(d, c, cb, 1) /\ Share(d, 1, 1) = d
<1>1. d \div 1 = d /\ d % 1 = 0
  OBVIOUS
<1>2. \A i \in 1 .. 1 : Share(d, 1, i) = d
  BY <1>1 DEF Share
<1>3. cb > 0 => d * c * 4 <= cb \/ d = 1
  <2>1. CASE d = 0
    <3>1. d * c * 4 = 0
      BY <2>1
    <3>2. QED
      BY <3>1
  <2>2. QED
    BY <2>1
<1>4. QED
  BY <1>2, <1>3 DEF Splits

LEMMA LargestShare ==
  ASSUME NEW d \in Nat, NEW n \in 1 .. d, NEW m \in Nat \ {0}, n * m >= d
  PROVE  \A i \in 1 .. n : Share(d, n, i) \in Nat \ {0} /\ Share(d, n, i) <= m
<1>1. PICK q \in Nat \ {0}, e \in Nat : /\ q = d \div n /\ e = d % n
                                         /\ q + (IF e > 0 THEN 1 ELSE 0) <= m
  <2>1. n \in Nat \ {0} /\ n <= d
    OBVIOUS
  <2>2. /\ d \div n \in Nat \ {0} /\ d % n \in 0 .. n - 1
        /\ (d \div n) + (IF d % n > 0 THEN 1 ELSE 0) <= m
    BY <2>1, EvenShares, Zenon
  <2>3. d % n \in Nat
    BY <2>1, <2>2
  <2>4. QED
    BY <2>2, <2>3, Zenon
<1>2. \A i \in 1 .. n : Share(d, n, i) = q + (IF i <= e THEN 1 ELSE 0)
  BY <1>1, Zenon DEF Share
<1>3. ASSUME NEW i \in 1 .. n
      PROVE  Share(d, n, i) \in Nat \ {0} /\ Share(d, n, i) <= m
  <2>1. i <= e => e > 0
    OBVIOUS
  <2>2. QED
    BY <1>1, <1>2, <2>1
<1>4. QED
  BY <1>3

LEMMA ManyChunksSplit ==
  ASSUME NEW d \in Nat, NEW c \in Nat, NEW cb \in Nat, cb # 0, ~(d * c * 4 <= cb), ~(d <= 1),
         NEW m, m = (IF cb \div (c * 4) = 0 THEN 1 ELSE cb \div (c * 4)),
         NEW n, n = (d + m - 1) \div m
  PROVE  Splits(d, c, cb, n)
<1> DEFINE row == c * 4
<1>1. c # 0
  <2>1. CASE c = 0
    <3>1. d * c * 4 = 0
      BY <2>1
    <3>2. QED
      BY <3>1
  <2>2. QED
    BY <2>1
<1>2. row \in Nat \ {0}
  BY <1>1
<1> HIDE DEF row
<1>3. cb \div row \in Nat /\ \A k \in Nat : k * row <= cb <=> k <= cb \div row
  <2>1. cb \div row \in Nat
    BY <1>2, Fit
  <2>2. QED
    BY <1>2, <2>1, Fit
<1>4. m \in Nat \ {0} /\ m = (IF cb \div row = 0 THEN 1 ELSE cb \div row)
  BY <1>3 DEF row
<1>5. n \in 1 .. d /\ n * m >= d /\ (n - 1) * m < d
  BY <1>4, RoundedUp
<1>6. \A i \in 1 .. n : Share(d, n, i) \in Nat \ {0} /\ Share(d, n, i) <= m
  BY <1>4, <1>5, LargestShare, Zenon
<1>7. \A x \in Nat : x * c * 4 = x * row
  BY DEF row
<1>8. ASSUME NEW i \in 1 .. n
      PROVE  Share(d, n, i) * c * 4 <= cb \/ Share(d, n, i) = 1
  <2>1. PICK s \in Nat \ {0} : s = Share(d, n, i) /\ s <= m
    BY <1>6
  <2>3. CASE cb \div row = 0
    BY <1>4, <2>1, <2>3
  <2>4. CASE cb \div row # 0
    <3>1. s <= cb \div row
      BY <1>4, <2>1, <2>4
    <3>2. s * row <= cb
      BY <1>3, <3>1
    <3>3. QED
      BY <1>7, <2>1, <3>2
  <2>5. QED
    BY <2>3, <2>4
<1>9. ASSUME n > 1
      PROVE  ((d + (n - 1) - 1) \div (n - 1)) * (c * 4) > cb
  <2>1. PICK f \in Nat \ {0} : f = n - 1
    BY <1>5, <1>9
  <2>2. f * m < d
    BY <1>5, <2>1
  <2>3. PICK x \in Nat : x = (d + f - 1) \div f /\ x >= m + 1
    BY <1>4, <2>2, OneFewer
  <2>4. ~(x <= cb \div row)
    BY <1>3, <1>4, <2>3
  <2>5. ~(x * row <= cb)
    BY <1>3, <2>4
  <2>6. x * row \in Nat
    BY <1>2
  <2>7. x * row > cb
    BY <2>5, <2>6
  <2>8. QED
    BY <2>1, <2>3, <2>7, SMTT(20) DEF row
<1>10. QED
  BY <1>5, <1>8, <1>9, SMTT(20) DEF Splits

LEMMA RowsOfChunks ==
  ASSUME NEW d \in Nat, NEW c \in Nat, NEW cb \in Nat
  PROVE  /\ Splits(d, c, cb, Len(ChunkRows(d, c, cb)))
         /\ \A i \in 1 .. Len(ChunkRows(d, c, cb)) :
              ChunkRows(d, c, cb)[i] = Share(d, Len(ChunkRows(d, c, cb)), i)
<1> DEFINE rows == ChunkRows(d, c, cb)
<1>1. CASE cb = 0 \/ d * c * 4 <= cb \/ d <= 1
  <2>1. rows = <<d>>
    BY <1>1 DEF ChunkRows
  <2>2. Len(rows) = 1 /\ rows[1] = d
    BY <2>1
  <2>3. Splits(d, c, cb, 1) /\ Share(d, 1, 1) = d
    BY <1>1, OneChunkSplits
  <2> HIDE DEF rows
  <2>4. \A i \in 1 .. 1 : i = 1
    OBVIOUS
  <2>5. QED
    BY <2>2, <2>3, <2>4 DEF rows
<1>2. CASE ~(cb = 0 \/ d * c * 4 <= cb \/ d <= 1)
  <2> DEFINE fit == cb \div (c * 4)
             m == IF fit = 0 THEN 1 ELSE fit
             n == (d + m - 1) \div m
  <2>1. rows = [i \in 1 .. n |-> Share(d, n, i)]
    BY <1>2, Zenon DEF ChunkRows, Share
  <2>2. Splits(d, c, cb, n)
    BY <1>2, ManyChunksSplit, Zenon
  <2> HIDE DEF rows, n
  <2>3. n \in Nat
    BY <2>2 DEF Splits
  <2>4. Len(rows) = n /\ \A i \in 1 .. n : rows[i] = Share(d, n, i)
    BY <2>1, <2>3
  <2>5. QED
    BY <2>2, <2>4, Zenon DEF rows
<1>3. QED
  BY <1>1, <1>2

-----------------------------------------------------------------------------
(* Matrices *)

IsMatrix(w, m, n) ==
  /\ w = [i \in 1 .. m |-> w[i]]
  /\ \A i \in 1 .. m : w[i] = [j \in 1 .. n |-> w[i][j]]

LEMMA SequenceOf ==
  ASSUME NEW f, NEW m \in Nat, f = [i \in 1 .. m |-> f[i]]
  PROVE  Len(f) = m /\ DOMAIN f = 1 .. m /\ f \in Seq({f[i] : i \in 1 .. m})
<1> DEFINE V == {f[i] : i \in 1 .. m}
<1>1. f \in [1 .. m -> V]
  OBVIOUS
<1> HIDE DEF V
<1>2. f \in Seq(V)
  BY <1>1
<1>3. Len(f) = m /\ DOMAIN f = 1 .. m
  BY <1>1
<1>4. QED
  BY <1>2, <1>3 DEF V

LEMMA MatrixSize ==
  ASSUME NEW w, NEW m \in Nat, NEW n \in Nat, IsMatrix(w, m, n)
  PROVE  Len(w) = m /\ Columns(w) = (IF m = 0 THEN 0 ELSE n)
<1>1. w = [i \in 1 .. m |-> w[i]]
  BY Zenon DEF IsMatrix
<1>2. Len(w) = m /\ DOMAIN w = 1 .. m
  BY <1>1, SequenceOf, Zenon
<1>3. CASE m = 0
  <2>1. w = <<>>
    <3>1. w \in Seq({w[i] : i \in 1 .. m})
      BY <1>1, SequenceOf, Zenon
    <3>2. QED
      BY <1>2, <1>3, <3>1, EmptySeq
  <2>2. QED
    BY <1>2, <1>3, <2>1 DEF Columns
<1>4. CASE m # 0
  <2>1. w # <<>> /\ 1 \in 1 .. m
    BY <1>2, <1>4
  <2>2. w[1] = [j \in 1 .. n |-> w[1][j]]
    BY <2>1, Zenon DEF IsMatrix
  <2>3. Len(w[1]) = n
    BY <2>2, SequenceOf, Zenon
  <2>4. QED
    BY <1>2, <1>4, <2>1, <2>3 DEF Columns
<1>5. QED
  BY <1>3, <1>4

LEMMA QuantizedIsMatrix ==
  ASSUME NEW w
  PROVE  IsMatrix(QuantizeWeight(w), Len(w), Columns(w))
BY Zenon DEF IsMatrix, QuantizeWeight, Matrix

LEMMA TransposedIsMatrix ==
  ASSUME NEW w
  PROVE  IsMatrix(Transpose(w), Columns(w), Len(w))
BY Zenon DEF IsMatrix, Transpose, Matrix

(* Rows cut out of a matrix. *)
LEMMA Narrowed ==
  ASSUME NEW w, NEW m \in Nat, NEW n \in Nat, IsMatrix(w, m, n),
         NEW s \in Nat, NEW r \in Nat, s + r <= m
  PROVE  /\ Len(Narrow(w, s, r)) = r
         /\ Columns(Narrow(w, s, r)) = (IF r = 0 THEN 0 ELSE n)
<1> DEFINE cut == SubSeq(w, s + 1, s + r)
           V == {w[i] : i \in 1 .. m}
<1>1. w = [i \in 1 .. m |-> w[i]]
  BY Zenon DEF IsMatrix
<1>2. w \in Seq(V) /\ Len(w) = m
  BY <1>1, SequenceOf, Zenon
<1> HIDE DEF V
<1>3. Len(cut) = r /\ \A k \in 1 .. r : cut[k] = w[s + k]
  BY <1>2
<1>4. cut \in Seq(V)
  BY <1>2
<1>5. CASE r = 0
  <2>1. cut = <<>>
    BY <1>3, <1>4, <1>5, EmptySeq
  <2>2. QED
    BY <1>3, <1>5, <2>1, Zenon DEF Narrow, Columns
<1>6. CASE r # 0
  <2>1. cut # <<>> /\ cut[1] = w[s + 1] /\ s + 1 \in 1 .. m
    <3> HIDE DEF cut
    <3>1. cut # <<>>
      BY <1>3, <1>6
    <3>2. 1 \in 1 .. r /\ s + 1 \in 1 .. m
      BY <1>6
    <3>3. QED
      BY <1>3, <3>1, <3>2
  <2>2. w[s + 1] = [j \in 1 .. n |-> w[s + 1][j]]
    BY <2>1, Zenon DEF IsMatrix
  <2>3. Len(w[s + 1]) = n
    BY <2>2, SequenceOf, Zenon
  <2>4. QED
    BY <1>3, <1>6, <2>1, <2>3, Zenon DEF Narrow, Columns
<1>7. QED
  BY <1>5, <1>6

-----------------------------------------------------------------------------
(* A quantized weight *)

(* The rows of the first k of n chunks. *)
Before(d, n, k) == k * (d \div n) + (IF k <= d % n THEN k ELSE d % n)

LEMMA BeforeType ==
  ASSUME NEW d \in Nat, NEW n \in Nat \ {0}
  PROVE  /\ Before(d, n, 0) = 0 /\ Before(d, n, n) = d
         /\ \A k \in 0 .. n : Before(d, n, k) \in 0 .. d
         /\ \A k \in 1 .. n : Before(d, n, k) = Before(d, n, k - 1) + Share(d, n, k)
<1> DEFINE q == d \div n
           e == d % n
<1>1. q \in Nat /\ e \in 0 .. n - 1 /\ d = q * n + e
  BY Quotient
<1> HIDE DEF q, e
<1>2. \A k : Before(d, n, k) = k * q + (IF k <= e THEN k ELSE e)
  BY Zenon DEF Before, q, e
<1>3. \A k : Share(d, n, k) = q + (IF k <= e THEN 1 ELSE 0)
  BY Zenon DEF Share, q, e
<1>4. 0 * q = 0 /\ n * q = q * n /\ q * n \in Nat
  BY <1>1, Z3
<1>5. Before(d, n, 0) = 0 /\ Before(d, n, n) = d
  BY <1>1, <1>2, <1>4
<1>6. ASSUME NEW k \in 0 .. n
      PROVE  Before(d, n, k) \in 0 .. d
  <2>1. k * q \in Nat /\ k * q <= n * q
    BY <1>1, Z3
  <2>2. QED
    BY <1>1, <1>2, <1>4, <2>1
<1>7. ASSUME NEW k \in 1 .. n
      PROVE  Before(d, n, k) = Before(d, n, k - 1) + Share(d, n, k)
  <2>1. (k - 1) * q = k * q - q /\ k * q \in Nat
    BY <1>1, Z3
  <2>2. QED
    BY <1>1, <1>2, <1>3, <2>1
<1>8. QED
  BY <1>5, <1>6, <1>7

(* The running start of QuantizeChunked. *)
LEMMA TakenSoFar ==
  ASSUME NEW d \in Nat, NEW n \in Nat \ {0}, NEW rows, Len(rows) = n,
         \A i \in 1 .. n : rows[i] = Share(d, n, i),
         NEW h, h = CHOOSE f : f = [k \in 0 .. Len(rows) |->
                                      IF k = 0 THEN 0 ELSE f[k - 1] + rows[k]]
  PROVE  \A k \in 0 .. n : h[k] = Before(d, n, k)
<1> DEFINE IsFirst(f) == f = [k \in 0 .. n |-> IF k = 0 THEN 0 ELSE f[k - 1] + rows[k]]
           t == [k \in 0 .. n |-> Before(d, n, k)]
<1>1. h = CHOOSE f : IsFirst(f)
  BY Zenon
<1>2. ASSUME NEW k \in 0 .. n
      PROVE  Before(d, n, k) = IF k = 0 THEN 0 ELSE t[k - 1] + rows[k]
  <2>1. CASE k = 0
    BY <2>1, BeforeType
  <2>2. CASE k # 0
    <3>1. k \in 1 .. n /\ k - 1 \in 0 .. n
      BY <2>2
    <3>2. t[k - 1] = Before(d, n, k - 1)
      BY <3>1, Zenon
    <3>3. Before(d, n, k) = Before(d, n, k - 1) + Share(d, n, k)
      BY <3>1, BeforeType
    <3>4. QED
      BY <2>2, <3>1, <3>2, <3>3, Zenon
  <2>3. QED
    BY <2>1, <2>2
<1>3. IsFirst(t)
  BY <1>2, Zenon
<1> HIDE DEF t
<1>4. IsFirst(h)
  BY <1>1, <1>3, Zenon
<1>5. \A k \in 0 .. n : h[k] = IF k = 0 THEN 0 ELSE h[k - 1] + rows[k]
  BY <1>4, Zenon
<1> HIDE DEF IsFirst
<1> DEFINE T == {k \in 0 .. n : h[k] = Before(d, n, k)}
<1>6. 0 \in T
  <2>1. 0 \in 0 .. n
    OBVIOUS
  <2>2. h[0] = 0
    BY <1>5, <2>1, Zenon
  <2>3. Before(d, n, 0) = 0
    BY BeforeType
  <2>4. QED
    BY <2>1, <2>2, <2>3
<1>7. ASSUME NEW i \in 1 .. n, i - 1 \in T
      PROVE  i \in T
  <2>1. i \in 0 .. n /\ i # 0
    OBVIOUS
  <2>2. h[i] = h[i - 1] + rows[i]
    BY <1>5, <2>1, Zenon
  <2>3. Before(d, n, i) = Before(d, n, i - 1) + Share(d, n, i)
    BY BeforeType
  <2>4. h[i - 1] = Before(d, n, i - 1)
    BY <1>7
  <2>5. h[i] = Before(d, n, i)
    BY <2>2, <2>3, <2>4, Zenon
  <2>6. QED
    BY <2>1, <2>5
<1> HIDE DEF T
<1>8. 0 .. n \subseteq T
  <2>1. n \in Nat
    OBVIOUS
  <2>2. QED
    BY <1>6, <1>7, <2>1, Climb
<1>9. QED
  BY <1>8 DEF T

(* What a quantized weight is, of m rows of n numbers in whole chunks. *)
Chunked(weight, limit, m, n) ==
  LET count == Len(weight)
  IN  /\ Splits(m, n, limit, count)
      /\ weight = [i \in 1 .. count |-> weight[i]]
      /\ \A i \in 1 .. count :
           /\ IsMatrix(weight[i], Share(m, count, i), IF Share(m, count, i) = 0 THEN 0 ELSE n)

(* A row of the flattened chunks is a row of one of them.                    *)
RowOf(flat, weight, m, o) ==
  LET N == Len(weight)
  IN  \E k \in 1 .. N : \E j \in 1 .. Share(m, N, k) :
        o = Before(m, N, k - 1) + j /\ flat[o] = weight[k][j]

CutAt(weight, w, m, k) ==
  LET N == Len(weight)
  IN  weight[k] = QuantizeWeight(Narrow(w, Before(m, N, k - 1), Share(m, N, k)))

LEMMA FlattenedRows ==
  ASSUME NEW m \in Nat, NEW n, NEW limit, NEW weight, Chunked(weight, limit, m, n), n \in Nat
  PROVE  /\ Len(FlattenSeq(weight)) = m
         /\ \A o \in 1 .. m : RowOf(FlattenSeq(weight), weight, m, o)
<1> DEFINE N == Len(weight)
           V == UNION {{weight[i][j] : j \in 1 .. Share(m, N, i)} : i \in 1 .. N}
           IsFirst(f) == f = [i \in 1 .. N |-> IF i = 1 THEN weight[i] ELSE f[i - 1] \o weight[i]]
           h == CHOOSE f : IsFirst(f)
           next == [i \in 1 .. N |-> [v \in Seq(V) |-> v \o weight[i]]]
<1>1. N \in Nat \ {0}
  BY Zenon DEF Chunked, Splits
<1>2. FlattenSeq(weight) = h[N]
  <2>1. Len(weight) # 0
    BY <1>1
  <2>2. QED
    BY <2>1, Zenon DEF FlattenSeq
<1>3. ASSUME NEW i \in 1 .. N
      PROVE  weight[i] \in Seq(V) /\ Len(weight[i]) = Share(m, N, i)
  <2> DEFINE U == {weight[i][j] : j \in 1 .. Share(m, N, i)}
  <2>1. weight[i] = [j \in 1 .. Share(m, N, i) |-> weight[i][j]]
    BY Zenon DEF Chunked, IsMatrix
  <2>2. Share(m, N, i) \in Nat
    BY <1>1, ShareType
  <2>3. Len(weight[i]) = Share(m, N, i) /\ weight[i] \in Seq(U)
    BY <2>1, <2>2, SequenceOf, Zenon
  <2>4. U \subseteq V
    BY Zenon
  <2> HIDE DEF U, V
  <2>5. Seq(U) \subseteq Seq(V)
    BY <2>4
  <2>6. QED
    BY <2>3, <2>5
<1> HIDE DEF N, V
<1>4. \A i \in 1 .. N : \A v \in Seq(V) : v \o weight[i] \in Seq(V) /\ Len(v \o weight[i]) = Len(v) + Share(m, N, i)
  <2> SUFFICES ASSUME NEW i \in 1 .. N, NEW v \in Seq(V)
               PROVE  v \o weight[i] \in Seq(V) /\ Len(v \o weight[i]) = Len(v) + Share(m, N, i)
    OBVIOUS
  <2>1. PICK c \in Seq(V) : c = weight[i] /\ Len(c) = Share(m, N, i)
    BY <1>3
  <2>2. v \o c \in Seq(V) /\ Len(v \o c) = Len(v) + Len(c)
    OBVIOUS
  <2>3. QED
    BY <2>1, <2>2
<1>5. \A i \in 1 .. N : next[i] \in [Seq(V) -> Seq(V)]
  BY <1>4, Zenon
<1>6. \A i \in 1 .. N : \A v \in Seq(V) : next[i][v] = v \o weight[i]
  BY Zenon
<1>7. <<>> \in Seq(V)
  OBVIOUS
<1> HIDE DEF next
<1>8. PICK f : Iterates(f, Seq(V), <<>>, N, next)
  <2>1. N \in Nat
    BY <1>1
  <2>2. QED
    BY <1>5, <1>7, <2>1, Iteration, Zenon
<1>9. ASSUME NEW i \in 1 .. N
      PROVE  f[i] = IF i = 1 THEN weight[i] ELSE f[i - 1] \o weight[i]
  <2>1. i - 1 \in 0 .. N
    BY <1>1
  <2>2. f[i] = f[i - 1] \o weight[i]
    BY <1>6, <1>8, <2>1, Zenon DEF Iterates
  <2>3. CASE i = 1
    <3>1. i - 1 = 0
      BY <2>3
    <3>2. f[i - 1] = <<>>
      BY <1>8, <3>1, Zenon DEF Iterates
    <3>3. PICK c \in Seq(V) : c = weight[i]
      BY <1>3
    <3>4. <<>> \o c = c
      OBVIOUS
    <3>5. QED
      BY <2>2, <2>3, <3>2, <3>3, <3>4
  <2>4. QED
    BY <2>2, <2>3
<1> DEFINE g == [i \in 1 .. N |-> f[i]]
<1>10. IsFirst(g)
  <2>1. \A i \in 1 .. N : i # 1 => i - 1 \in 1 .. N
    BY <1>1
  <2>2. \A i \in 1 .. N : i # 1 => g[i - 1] = f[i - 1]
    BY <2>1, Zenon
  <2>3. g = [i \in 1 .. N |-> IF i = 1 THEN weight[i] ELSE g[i - 1] \o weight[i]]
    BY <1>9, <2>2, Zenon
  <2>4. QED
    BY <2>3, Zenon
<1>11. IsFirst(h)
  <2> HIDE DEF g
  <2>1. QED
    BY <1>10, Zenon
<1>12. \A i \in 1 .. N : h[i] = IF i = 1 THEN weight[i] ELSE h[i - 1] \o weight[i]
  BY <1>11, Zenon
<1> HIDE DEF h, IsFirst, g
<1> DEFINE Row(i, o) == \E k \in 1 .. N : \E j \in 1 .. Share(m, N, k) :
                          o = Before(m, N, k - 1) + j /\ h[i][o] = weight[k][j]
           Good(i) == \A o \in 1 .. Before(m, N, i) : Row(i, o)
           T == {i \in 0 .. N : i # 0 => h[i] \in Seq(V) /\ Len(h[i]) = Before(m, N, i) /\ Good(i)}
<1>30. ASSUME NEW i \in 1 .. N, h[i] = weight[i], i = 1
       PROVE  Good(i)
  <2> SUFFICES ASSUME NEW o \in 1 .. Before(m, N, i)
               PROVE  Row(i, o)
    OBVIOUS
  <2>1. Before(m, N, 0) = 0 /\ Before(m, N, i) = Before(m, N, i - 1) + Share(m, N, i)
        /\ i - 1 = 0 /\ Share(m, N, i) \in Nat
    BY <1>1, <1>30, BeforeType, ShareType
  <2>2. o = Before(m, N, i - 1) + o /\ o \in 1 .. Share(m, N, i)
    BY <2>1
  <2>3. QED
    BY <1>30, <2>2, Zenon
<1>31. ASSUME NEW i \in 1 .. N, i # 1, h[i] = h[i - 1] \o weight[i],
              h[i - 1] \in Seq(V), Len(h[i - 1]) = Before(m, N, i - 1), Good(i - 1)
       PROVE  Good(i)
  <2> SUFFICES ASSUME NEW o \in 1 .. Before(m, N, i)
               PROVE  Row(i, o)
    OBVIOUS
  <2>1. /\ Before(m, N, i) = Before(m, N, i - 1) + Share(m, N, i)
        /\ Share(m, N, i) \in Nat /\ Before(m, N, i - 1) \in Nat
    <3>1. i - 1 \in 0 .. N
      BY <1>1
    <3>2. QED
      BY <1>1, <3>1, BeforeType, ShareType
  <2>2. PICK c \in Seq(V) : c = weight[i] /\ Len(c) = Share(m, N, i)
    BY <1>3
  <2>3. PICK v \in Seq(V) : v = h[i - 1] /\ Len(v) = Before(m, N, i - 1)
    BY <1>31
  <2>4. h[i] = v \o c
    BY <1>31, <2>2, <2>3, Zenon
  <2>5. CASE o \in 1 .. Len(v)
    <3>1. Row(i - 1, o)
      BY <1>31, <2>3, <2>5, Zenon
    <3>6. PICK k \in 1 .. N : \E j \in 1 .. Share(m, N, k) :
            o = Before(m, N, k - 1) + j /\ h[i - 1][o] = weight[k][j]
      BY <3>1, Zenon
    <3>2. PICK j \in 1 .. Share(m, N, k) :
            o = Before(m, N, k - 1) + j /\ h[i - 1][o] = weight[k][j]
      BY <3>6, Zenon
    <3>3. (v \o c)[o] = v[o]
      BY <2>5
    <3>4. h[i][o] = h[i - 1][o]
      BY <2>3, <2>4, <3>3, Zenon
    <3>5. QED
      BY <3>2, <3>4, Zenon
  <2>6. CASE o \notin 1 .. Len(v)
    <3>1. PICK j \in 1 .. Len(c) : o = Len(v) + j
      <4>1. o - Len(v) \in 1 .. Len(c) /\ o = Len(v) + (o - Len(v))
        BY <2>1, <2>2, <2>3, <2>6
      <4>2. QED
        BY <4>1, Zenon
    <3>2. (v \o c)[Len(v) + j] = c[j]
      OBVIOUS
    <3>3. h[i][o] = weight[i][j] /\ o = Before(m, N, i - 1) + j /\ j \in 1 .. Share(m, N, i)
      BY <2>2, <2>3, <2>4, <3>1, <3>2, Zenon
    <3>4. QED
      BY <3>3, Zenon
  <2>7. QED
    BY <2>5, <2>6
<1> HIDE DEF Good
<1>13. 0 \in T
  BY <1>1
<1>14. ASSUME NEW i \in 1 .. N, i - 1 \in T
       PROVE  i \in T
  <2>1. i \in 0 .. N /\ i - 1 \in 0 .. N
    BY <1>1
  <2>2. Before(m, N, i) = Before(m, N, i - 1) + Share(m, N, i)
    BY <1>1, BeforeType
  <2>3. CASE i = 1
    <3>1. h[i] = weight[i]
      BY <1>12, <2>3
    <3>2. h[i] \in Seq(V) /\ Len(h[i]) = Share(m, N, i)
      BY <1>3, <3>1
    <3>3. Before(m, N, 0) = 0 /\ i - 1 = 0
      BY <1>1, <2>3, BeforeType
    <3>4. Share(m, N, i) \in Nat
      BY <1>1, ShareType
    <3>5. Len(h[i]) = Before(m, N, i)
      BY <2>2, <3>2, <3>3, <3>4
    <3>7. Good(i)
      BY <1>30, <2>3, <3>1
    <3>6. QED
      BY <2>1, <3>2, <3>5, <3>7
  <2>4. CASE i # 1
    <3>1. h[i] = h[i - 1] \o weight[i]
      BY <1>12, <2>4
    <3>2. h[i - 1] \in Seq(V) /\ Len(h[i - 1]) = Before(m, N, i - 1) /\ Good(i - 1)
      <4>1. i - 1 # 0
        BY <2>4
      <4>2. QED
        BY <1>14, <4>1
    <3>3. h[i] \in Seq(V) /\ Len(h[i]) = Len(h[i - 1]) + Share(m, N, i)
      BY <1>4, <3>1, <3>2, Zenon
    <3>5. Good(i)
      BY <1>31, <2>4, <3>1, <3>2
    <3>4. QED
      BY <2>1, <2>2, <3>2, <3>3, <3>5
  <2>5. QED
    BY <2>3, <2>4
<1> HIDE DEF T
<1>15. 0 .. N \subseteq T
  <2>1. N \in Nat
    BY <1>1
  <2>2. QED
    BY <1>13, <1>14, <2>1, Climb
<1>16. N \in T /\ N # 0
  BY <1>1, <1>15
<1>17. Len(h[N]) = Before(m, N, N) /\ Good(N)
  BY <1>16 DEF T
<1>18. Before(m, N, N) = m
  BY <1>1, BeforeType
<1>19. \A o \in 1 .. m : Row(N, o)
  BY <1>17, <1>18, Zenon DEF Good
<1>20. \A o \in 1 .. m : RowOf(FlattenSeq(weight), weight, m, o)
  <2>1. \A o \in 1 .. m : RowOf(h[N], weight, m, o)
    BY <1>19, Zenon DEF RowOf, N
  <2>2. QED
    BY <1>2, <2>1, Zenon
<1>21. QED
  BY <1>2, <1>17, <1>18, <1>20, Zenon

LEMMA ChunksCutRows ==
  ASSUME NEW w, NEW m \in Nat, NEW n \in Nat, IsMatrix(w, m, n), NEW limit \in Nat
  PROVE  /\ Chunked(QuantizeChunked(w, limit), limit, m, IF m = 0 THEN 0 ELSE n)
         /\ \A k \in 1 .. Len(QuantizeChunked(w, limit)) :
              CutAt(QuantizeChunked(w, limit), w, m, k)
<1> DEFINE c == IF m = 0 THEN 0 ELSE n
           rows == ChunkRows(Len(w), Columns(w), limit)
           N == Len(rows)
           h == CHOOSE f : f = [k \in 0 .. N |-> IF k = 0 THEN 0 ELSE f[k - 1] + rows[k]]
           q == QuantizeChunked(w, limit)
<1>1. Len(w) = m /\ Columns(w) = c /\ c \in Nat
  BY MatrixSize
<1>2. q = [k \in 1 .. N |-> QuantizeWeight(Narrow(w, h[k - 1], rows[k]))]
  BY Zenon DEF QuantizeChunked
<1> HIDE DEF h, q
<1>3. Splits(m, c, limit, N) /\ \A i \in 1 .. N : rows[i] = Share(m, N, i)
  <2>1. rows = ChunkRows(m, c, limit)
    BY <1>1, Zenon
  <2>2. /\ Splits(m, c, limit, Len(ChunkRows(m, c, limit)))
        /\ \A i \in 1 .. Len(ChunkRows(m, c, limit)) :
             ChunkRows(m, c, limit)[i] = Share(m, Len(ChunkRows(m, c, limit)), i)
    <3> HIDE DEF c
    <3>1. c \in Nat
      BY <1>1
    <3>2. QED
      BY <3>1, RowsOfChunks, Zenon
  <2> HIDE DEF rows
  <2>3. QED
    BY <2>1, <2>2, Zenon
<1>4. N \in Nat \ {0}
  BY <1>3, Zenon DEF Splits
<1>5. \A k \in 0 .. N : h[k] = Before(m, N, k)
  <2>1. h = CHOOSE f : f = [k \in 0 .. Len(rows) |-> IF k = 0 THEN 0 ELSE f[k - 1] + rows[k]]
    BY Zenon DEF h
  <2>2. Len(rows) = N /\ \A i \in 1 .. N : rows[i] = Share(m, N, i)
    BY <1>3
  <2> HIDE DEF rows, N, h
  <2>3. m \in Nat /\ N \in Nat \ {0}
    BY <1>4
  <2>4. QED
    BY <2>1, <2>2, <2>3, TakenSoFar, SMTT(60)
<1> HIDE DEF rows, N, c
<1>6. Len(q) = N /\ q = [k \in 1 .. N |-> q[k]]
  <2>1. q = [k \in 1 .. N |-> q[k]]
    BY <1>2, Zenon
  <2>2. QED
    BY <1>4, <2>1, SequenceOf, Zenon
<1>7. ASSUME NEW i \in 1 .. N
      PROVE  IsMatrix(q[i], Share(m, N, i), IF Share(m, N, i) = 0 THEN 0 ELSE c)
  <2> DEFINE cut == Narrow(w, h[i - 1], rows[i])
  <2>1. q[i] = QuantizeWeight(cut)
    BY <1>2, Zenon
  <2>2. i - 1 \in 0 .. N /\ i \in 0 .. N
    BY <1>4
  <2>3. PICK s \in Nat : s = Before(m, N, i - 1) /\ s = h[i - 1]
    <3>1. Before(m, N, i - 1) \in 0 .. m
      BY <1>4, <2>2, BeforeType
    <3>2. h[i - 1] = Before(m, N, i - 1)
      BY <1>5, <2>2
    <3>3. QED
      BY <3>1, <3>2
  <2>4. PICK r \in Nat : r = Share(m, N, i)
    BY <1>4, ShareType
  <2>5. s + r <= m
    <3>1. Before(m, N, i) = s + r /\ Before(m, N, i) \in 0 .. m
      BY <1>4, <2>2, <2>3, <2>4, BeforeType
    <3>2. QED
      BY <3>1
  <2>6. Len(Narrow(w, s, r)) = r /\ Columns(Narrow(w, s, r)) = IF r = 0 THEN 0 ELSE n
    BY <2>5, Narrowed
  <2>7. cut = Narrow(w, s, r)
    BY <1>3, <2>3, <2>4, Zenon
  <2>8. r # 0 => c = n
    BY <2>5 DEF c
  <2> HIDE DEF cut
  <2>9. Len(cut) = r /\ Columns(cut) = IF r = 0 THEN 0 ELSE c
    BY <2>6, <2>7, <2>8
  <2>10. QED
    BY <2>1, <2>4, <2>9, QuantizedIsMatrix, Zenon
<1>8. ASSUME NEW k \in 1 .. N
      PROVE  CutAt(q, w, m, k)
  <2>1. k - 1 \in 0 .. N
    BY <1>4
  <2>2. h[k - 1] = Before(m, N, k - 1) /\ rows[k] = Share(m, N, k)
    BY <1>3, <1>5, <2>1, Zenon
  <2>3. q[k] = QuantizeWeight(Narrow(w, Before(m, N, k - 1), Share(m, N, k)))
    BY <1>2, <2>2, Zenon
  <2>4. QED
    BY <1>6, <2>3, Zenon DEF CutAt
<1>9. QED
  BY <1>3, <1>6, <1>7, <1>8, Zenon DEF Chunked, c, q

LEMMA NarrowedRow ==
  ASSUME NEW w, NEW m \in Nat, NEW n \in Nat, IsMatrix(w, m, n),
         NEW s \in Nat, NEW r \in Nat, s + r <= m, NEW j \in 1 .. r
  PROVE  Narrow(w, s, r)[j] = w[s + j]
<1> DEFINE V == {w[i] : i \in 1 .. m}
<1>1. w = [i \in 1 .. m |-> w[i]]
  BY Zenon DEF IsMatrix
<1>2. w \in Seq(V) /\ Len(w) = m
  BY <1>1, SequenceOf, Zenon
<1> HIDE DEF V
<1>3. SubSeq(w, s + 1, s + r)[j] = w[s + j]
  BY <1>2
<1>4. QED
  BY <1>3, Zenon DEF Narrow

LEMMA QuantizedRows ==
  ASSUME NEW w, NEW m \in Nat, NEW n \in Nat, IsMatrix(w, m, n), NEW limit \in Nat,
         NEW o \in 1 .. m, NEW i \in 1 .. n
  PROVE  FlattenSeq(QuantizeChunked(w, limit))[o][i] = Quantized(w, o, i)
<1> DEFINE weight == QuantizeChunked(w, limit)
           N == Len(weight)
<1>1. m # 0 /\ (IF m = 0 THEN 0 ELSE n) = n
  OBVIOUS
<1>2. Chunked(weight, limit, m, n)
  BY <1>1, ChunksCutRows, Zenon
<1>3. \A k \in 1 .. N : CutAt(weight, w, m, k)
  BY ChunksCutRows, Zenon
<1> HIDE DEF weight, N
<1>4. RowOf(FlattenSeq(weight), weight, m, o)
  BY <1>2, FlattenedRows, Zenon
<1>5. PICK k \in 1 .. N : \E j \in 1 .. Share(m, N, k) :
        o = Before(m, N, k - 1) + j /\ FlattenSeq(weight)[o] = weight[k][j]
  BY <1>4, Zenon DEF RowOf, N
<1>6. N \in Nat \ {0}
  BY <1>2, Zenon DEF Chunked, Splits, N
<1>7. PICK r \in Nat : r = Share(m, N, k)
  BY <1>6, ShareType
<1>8. PICK s \in Nat : s = Before(m, N, k - 1)
  <2>1. k - 1 \in 0 .. N
    BY <1>6
  <2>2. Before(m, N, k - 1) \in 0 .. m
    BY <1>6, <2>1, BeforeType
  <2>3. QED
    BY <2>2
<1>9. s + r <= m
  <2>1. k \in 0 .. N
    BY <1>6
  <2>2. Before(m, N, k) \in 0 .. m /\ Before(m, N, k) = Before(m, N, k - 1) + Share(m, N, k)
    BY <1>6, <2>1, BeforeType
  <2>3. QED
    BY <1>7, <1>8, <2>2
<1>10. PICK j \in 1 .. r : o = s + j /\ FlattenSeq(weight)[o] = weight[k][j]
  BY <1>5, <1>7, <1>8, Zenon
<1> DEFINE cut == Narrow(w, s, r)
<1>11. weight[k] = QuantizeWeight(cut)
  BY <1>3, <1>7, <1>8, Zenon DEF CutAt, N
<1>12. Len(cut) = r /\ Columns(cut) = n
  <2>1. r # 0
    OBVIOUS
  <2>2. Len(Narrow(w, s, r)) = r /\ Columns(Narrow(w, s, r)) = (IF r = 0 THEN 0 ELSE n)
    BY <1>9, Narrowed
  <2>3. QED
    BY <2>1, <2>2, Zenon
<1>13. cut[j] = w[o]
  <2>1. Narrow(w, s, r)[j] = w[s + j]
    BY <1>9, NarrowedRow
  <2>2. QED
    BY <1>10, <2>1, Zenon
<1> HIDE DEF cut
<1>14. QuantizeWeight(cut)[j][i] = Quantized(cut, j, i)
  BY <1>12, Zenon DEF QuantizeWeight, Matrix
<1>15. Quantized(cut, j, i) = Quantized(w, o, i)
  BY <1>13, Zenon DEF Quantized
<1>16. QED
  BY <1>10, <1>11, <1>14, <1>15, Zenon DEF weight

(* The clause of ChunksFit about one site. *)
SiteFits(base, limit) ==
  LET chunks == Transients(base)
      rowBytes == chunks[1].bytes \div chunks[1].rows
      all == Len(ForwardRows(base))
  IN  base.arm = "Quant" =>
        /\ \A k \in 1 .. Len(chunks) :
             /\ limit > 0 => chunks[k].bytes <= limit \/ chunks[k].rows = 1
             /\ \A l \in 1 .. Len(chunks) : chunks[k].rows - chunks[l].rows \in -1 .. 1
        /\ Len(chunks) > 1 =>
             LET fewer == Len(chunks) - 1
             IN  limit > 0 /\ ((all + fewer - 1) \div fewer) * rowBytes > limit

LEMMA ChunkedFits ==
  ASSUME NEW base, NEW limit \in Nat, NEW m \in Nat, NEW n \in Nat,
         base.arm = "Quant" => Chunked(base.weight, limit, m, n)
  PROVE  SiteFits(base, limit)
<1> SUFFICES ASSUME base.arm = "Quant"
             PROVE  SiteFits(base, limit)
  BY Zenon DEF SiteFits
<1> DEFINE N == Len(base.weight)
           chunks == Transients(base)
<1>1. Chunked(base.weight, limit, m, n)
  OBVIOUS
<1>2. Splits(m, n, limit, N) /\ N \in Nat \ {0}
  BY <1>1, Zenon DEF Chunked, Splits
<1>3. Len(ForwardRows(base)) = m
  <2>1. base.arm # "Plain"
    OBVIOUS
  <2>2. ForwardRows(base) = FlattenSeq(base.weight)
    BY <2>1, Zenon DEF ForwardRows
  <2>3. QED
    BY <1>1, <2>2, FlattenedRows, Zenon
<1>4. ASSUME NEW k \in 1 .. N
      PROVE  Len(base.weight[k]) = Share(m, N, k)
             /\ Columns(base.weight[k]) = IF Share(m, N, k) = 0 THEN 0 ELSE n
  <2>1. PICK s \in Nat : s = Share(m, N, k)
    BY <1>2, ShareType
  <2>2. PICK c \in Nat : c = IF s = 0 THEN 0 ELSE n
    OBVIOUS
  <2>3. IsMatrix(base.weight[k], s, c)
    BY <1>1, <2>1, <2>2, Zenon DEF Chunked
  <2>4. Len(base.weight[k]) = s /\ Columns(base.weight[k]) = IF s = 0 THEN 0 ELSE c
    BY <2>3, MatrixSize
  <2>5. QED
    BY <2>1, <2>2, <2>4
<1>5. chunks = [k \in 1 .. N |-> [rows |-> Len(base.weight[k]),
                                  bytes |-> Len(base.weight[k]) * Columns(base.weight[k]) * 4]]
  <2>1. base.arm # "Plain"
    OBVIOUS
  <2>2. QED
    BY <2>1, Zenon DEF Transients
<1> HIDE DEF chunks, N
<1>6. Len(chunks) = N
  BY <1>2, <1>5
<1>7. ASSUME NEW k \in 1 .. N
      PROVE  chunks[k].rows = Share(m, N, k) /\ chunks[k].bytes = Share(m, N, k) * n * 4
  <2>1. chunks[k].rows = Len(base.weight[k])
        /\ chunks[k].bytes = Len(base.weight[k]) * Columns(base.weight[k]) * 4
    BY <1>5
  <2>2. PICK s \in Nat : s = Share(m, N, k)
    BY <1>2, ShareType
  <2>3. s = 0 => s * n * 4 = 0 /\ s * 0 * 4 = 0
    OBVIOUS
  <2>4. QED
    BY <1>4, <2>1, <2>2, <2>3
<1>8. ASSUME NEW k \in 1 .. N, limit > 0
      PROVE  chunks[k].bytes <= limit \/ chunks[k].rows = 1
  BY <1>2, <1>7, <1>8, Zenon DEF Splits
<1>9. ASSUME NEW k \in 1 .. N, NEW l \in 1 .. N
      PROVE  chunks[k].rows - chunks[l].rows \in -1 .. 1
  <2>1. m \div N \in Nat /\ m % N \in Nat
    <3>1. PICK p \in Nat \ {0} : p = N
      BY <1>2
    <3>2. m \div p \in Nat /\ m % p \in 0 .. p - 1
      BY Quotient
    <3>3. QED
      BY <3>1, <3>2
  <2>2. Share(m, N, k) - Share(m, N, l) \in -1 .. 1
    BY <2>1 DEF Share
  <2>3. QED
    BY <1>7, <2>2
<1>10. ASSUME N > 1
       PROVE  /\ limit > 0
              /\ ((m + (N - 1) - 1) \div (N - 1)) * (chunks[1].bytes \div chunks[1].rows) > limit
  <2>1. limit > 0 /\ ((m + (N - 1) - 1) \div (N - 1)) * (n * 4) > limit
    BY <1>2, <1>10, Zenon DEF Splits
  <2>2. 1 \in 1 .. N
    BY <1>2
  <2>3. N <= m
    BY <1>2, <1>10, Zenon DEF Splits
  <2>4. PICK s \in Nat \ {0} : s = Share(m, N, 1)
    <3>1. m \div N \in Nat \ {0} /\ m % N \in Nat
      <4>1. N * m >= m
        BY <1>2, Z3
      <4>2. m \in Nat \ {0}
        BY <1>2, <2>3
      <4>3. QED
        BY <1>2, <2>3, <4>1, <4>2, EvenShares, Quotient
    <3>2. QED
      BY <3>1 DEF Share
  <2>5. (s * n * 4) \div s = n * 4
    <3>1. PICK b \in Nat : b = n * 4
      OBVIOUS
    <3>2. s * n * 4 = s * b
      BY <3>1
    <3>3. (s * b) \div s = b
      BY Z3
    <3>4. QED
      BY <3>1, <3>2, <3>3
  <2>6. chunks[1].bytes \div chunks[1].rows = n * 4
    BY <1>7, <2>2, <2>4, <2>5
  <2>7. QED
    BY <2>1, <2>6
<1>11. QED
  BY <1>3, <1>6, <1>8, <1>9, <1>10, Zenon DEF SiteFits, chunks

-----------------------------------------------------------------------------
(* The configuration of a run *)

LEMMA KeysAreDistinct ==
  ASSUME NEW f \in DOMAIN FlagKey, NEW g \in DOMAIN FlagKey, FlagKey[f] = FlagKey[g]
  PROVE  f = g
BY DEF FlagKey

(* What the layers under the flags leave at a key. *)
Underneath(q, b, k) ==
  LET writes(layer) == b \in DOMAIN layer /\ k \in DOMAIN layer[b]
  IN  IF writes(q.env) THEN Read(b, k, q.env[b][k])
      ELSE IF writes(q.yaml) THEN Read(b, k, q.yaml[b][k]) ELSE Default[b][k]

LEMMA ExtractedIsUnderneath ==
  ASSUME NEW q, NEW b \in DOMAIN Default, NEW k \in DOMAIN Default[b]
  PROVE  Extract(Merge(q.yaml, q.env))[b][k] = Underneath(q, b, k)
<1> DEFINE document == Merge(q.yaml, q.env)
           writes(layer) == b \in DOMAIN layer /\ k \in DOMAIN layer[b]
<1>1. Extract(document)[b][k] = IF writes(document) THEN Read(b, k, document[b][k]) ELSE Default[b][k]
  BY Zenon DEF Extract
<1>2. b \in DOMAIN document <=> b \in DOMAIN q.yaml \/ b \in DOMAIN q.env
  BY Zenon DEF Merge
<1>3. b \in DOMAIN document =>
        document[b] = IF b \notin DOMAIN q.env THEN q.yaml[b]
                      ELSE IF b \notin DOMAIN q.yaml THEN q.env[b] ELSE Over(q.env[b], q.yaml[b])
  BY Zenon DEF Merge
<1>4. /\ DOMAIN Over(q.env[b], q.yaml[b]) = DOMAIN q.env[b] \cup DOMAIN q.yaml[b]
      /\ k \in DOMAIN q.env[b] \cup DOMAIN q.yaml[b] =>
           Over(q.env[b], q.yaml[b])[k] = IF k \in DOMAIN q.env[b] THEN q.env[b][k] ELSE q.yaml[b][k]
  BY Zenon DEF Over
<1> HIDE DEF document
<1>5. CASE b \notin DOMAIN q.env
  <2>1. writes(document) <=> writes(q.yaml)
    BY <1>2, <1>3, <1>5, Zenon
  <2>2. writes(document) => document[b][k] = q.yaml[b][k]
    BY <1>2, <1>3, <1>5, Zenon
  <2>3. QED
    BY <1>1, <1>5, <2>1, <2>2, Zenon DEF Underneath, document
<1>6. CASE b \in DOMAIN q.env /\ b \notin DOMAIN q.yaml
  <2>1. document[b] = q.env[b]
    BY <1>2, <1>3, <1>6, Zenon
  <2>2. QED
    BY <1>1, <1>2, <1>6, <2>1, Zenon DEF Underneath, document
<1>7. CASE b \in DOMAIN q.env /\ b \in DOMAIN q.yaml
  <2>1. document[b] = Over(q.env[b], q.yaml[b])
    BY <1>2, <1>3, <1>7, Zenon
  <2>2. QED
    BY <1>1, <1>2, <1>4, <1>7, <2>1, Zenon DEF Underneath, document
<1>8. QED
  BY <1>5, <1>6, <1>7

(* load_config and resolve_config give each key its last word. *)
LEMMA TheLastWord ==
  ASSUME NEW q, DOMAIN q.flags \subseteq DOMAIN FlagKey, ResolveConfig(q) # <<>>,
         NEW b \in DOMAIN Default, NEW k \in DOMAIN Default[b]
  PROVE  ResolveConfig(q)[1][b][k] = LastWord(q, b, k)
<1> DEFINE under == Extract(Merge(q.yaml, q.env))
           flags == {f \in DOMAIN q.flags : FlagKey[f] = <<b, k>>}
           writes(layer) == b \in DOMAIN layer /\ k \in DOMAIN layer[b]
<1>1. ResolveConfig(q)[1] = Override(under, q.flags)
  BY DEF ResolveConfig
<1>2. DOMAIN under = DOMAIN Default /\ DOMAIN under[b] = DOMAIN Default[b]
  BY Zenon DEF Extract
<1>3. under[b][k] = Underneath(q, b, k)
  BY ExtractedIsUnderneath
<1> HIDE DEF under
<1>4. Override(under, q.flags)[b][k] =
        IF \E f \in DOMAIN q.flags : FlagKey[f] = <<b, k>>
        THEN LET f == CHOOSE g \in DOMAIN q.flags : FlagKey[g] = <<b, k>> IN FlagValue(f, q.flags[f])
        ELSE under[b][k]
  BY <1>2, Zenon DEF Override
<1>5. CASE flags # {}
  <2>1. PICK f \in DOMAIN q.flags : FlagKey[f] = <<b, k>>
    BY <1>5, Zenon
  <2>2. \A g \in DOMAIN q.flags : FlagKey[g] = <<b, k>> => g = f
    BY <2>1, KeysAreDistinct
  <2>3. (CHOOSE g \in DOMAIN q.flags : FlagKey[g] = <<b, k>>) = f
    BY <2>1, <2>2, Zenon
  <2>4. (CHOOSE g \in flags : TRUE) = f
    BY <2>1, <2>2, Zenon
  <2>5. LastWord(q, b, k) = FlagValue(f, q.flags[f])
    BY <1>5, <2>4, Zenon DEF LastWord
  <2>6. QED
    BY <1>1, <1>4, <2>1, <2>3, <2>5, Zenon
<1>6. CASE flags = {}
  <2>1. ~\E f \in DOMAIN q.flags : FlagKey[f] = <<b, k>>
    BY <1>6, Zenon
  <2>2. LastWord(q, b, k) = Underneath(q, b, k)
    <3>1. CASE writes(q.env)
      BY <1>6, <3>1, Zenon DEF LastWord, Underneath
    <3>2. CASE ~writes(q.env) /\ writes(q.yaml)
      BY <1>6, <3>2, Zenon DEF LastWord, Underneath
    <3>3. CASE ~writes(q.env) /\ ~writes(q.yaml)
      BY <1>6, <3>3, Zenon DEF LastWord, Underneath
    <3>4. QED
      BY <3>1, <3>2, <3>3, Zenon
  <2>3. QED
    BY <1>1, <1>3, <1>4, <2>1, <2>2, Zenon
<1>7. QED
  BY <1>5, <1>6

(* What an enumeration can be read as, or is without a word. *)
Values(b, k) == {Enumerations[b][k][w] : w \in DOMAIN Enumerations[b][k]} \cup {Default[b][k]}

LEMMA EnumeratedWord ==
  ASSUME NEW q, DOMAIN q.flags \subseteq DOMAIN FlagKey, ResolveConfig(q) # <<>>,
         NEW b \in DOMAIN Default, NEW k \in DOMAIN Default[b], Enumerated(b, k),
         \A f \in DOMAIN FlagKey : FlagKey[f] = <<b, k>> => \A x : FlagValue(f, x) = Read(b, k, x)
  PROVE  ResolveConfig(q)[1][b][k] \in Values(b, k)
<1> DEFINE document == Merge(q.yaml, q.env)
<1>1. Parsed(q.flags) /\ Extractable(document) /\ ResolveConfig(q)[1] = Override(Extract(document), q.flags)
  BY DEF ResolveConfig
<1>2. \A w \in DOMAIN Enumerations[b][k] : Read(b, k, w) \in Values(b, k)
  BY Zenon DEF Read, Values
<1> HIDE DEF document
<1>3. DOMAIN Extract(document) = DOMAIN Default /\ DOMAIN Extract(document)[b] = DOMAIN Default[b]
  BY Zenon DEF Extract
<1>4. Extract(document)[b][k] \in Values(b, k)
  <2>1. CASE b \in DOMAIN document /\ k \in DOMAIN document[b]
    <3>1. document[b][k] \in DOMAIN Enumerations[b][k]
      BY <1>1, <2>1, Zenon DEF Extractable, Readable
    <3>2. Extract(document)[b][k] = Read(b, k, document[b][k])
      BY <2>1, Zenon DEF Extract
    <3>3. QED
      BY <1>2, <3>1, <3>2, Zenon
  <2>2. CASE ~(b \in DOMAIN document /\ k \in DOMAIN document[b])
    BY <2>2, Zenon DEF Extract, Values
  <2>3. QED
    BY <2>1, <2>2
<1>5. Override(Extract(document), q.flags)[b][k] =
        IF \E f \in DOMAIN q.flags : FlagKey[f] = <<b, k>>
        THEN LET f == CHOOSE g \in DOMAIN q.flags : FlagKey[g] = <<b, k>> IN FlagValue(f, q.flags[f])
        ELSE Extract(document)[b][k]
  BY <1>3, Zenon DEF Override
<1>6. CASE \E f \in DOMAIN q.flags : FlagKey[f] = <<b, k>>
  <2> DEFINE f == CHOOSE g \in DOMAIN q.flags : FlagKey[g] = <<b, k>>
  <2>1. f \in DOMAIN q.flags /\ FlagKey[f] = <<b, k>>
    BY <1>6, Zenon
  <2> HIDE DEF f
  <2>2. q.flags[f] \in DOMAIN Enumerations[b][k]
    <3>1. Readable(FlagKey[f][1], FlagKey[f][2], q.flags[f])
      BY <1>1, <2>1, Zenon DEF Parsed
    <3>2. FlagKey[f][1] = b /\ FlagKey[f][2] = k
      BY <2>1
    <3>3. Readable(b, k, q.flags[f])
      BY <3>1, <3>2, Zenon
    <3>4. QED
      BY <3>3, Zenon DEF Readable
  <2>3. FlagValue(f, q.flags[f]) = Read(b, k, q.flags[f])
    BY <2>1, Zenon
  <2>4. Override(Extract(document), q.flags)[b][k] = FlagValue(f, q.flags[f])
    BY <1>5, <1>6, Zenon DEF f
  <2>5. QED
    BY <1>1, <1>2, <2>2, <2>3, <2>4, Zenon
<1>7. CASE ~\E f \in DOMAIN q.flags : FlagKey[f] = <<b, k>>
  BY <1>1, <1>4, <1>5, <1>7, Zenon
<1>8. QED
  BY <1>6, <1>7

Precisions == {"F32", "F16", "BF16"}
Backends == {"ndarray", "wgpu", "candle", "cuda", "tch"}

LEMMA SpelledValue ==
  ASSUME NEW pairs, NEW V, \A p \in pairs : p[1] \in V, NEW name \in DOMAIN Spellings(pairs)
  PROVE  Spellings(pairs)[name] \in V
<1>1. \E p \in pairs : name \in p[2]
  BY Zenon DEF Spellings
<1>2. name \in UNION {p[2] : p \in pairs}
  BY <1>1, Zenon
<1>3. Spellings(pairs)[name] = (CHOOSE p \in pairs : name \in p[2])[1]
  BY <1>2, Zenon DEF Spellings
<1>4. QED
  BY <1>1, <1>3, Zenon

LEMMA PrecisionValue ==
  ASSUME NEW w \in DOMAIN Precision
  PROVE  Precision[w] \in Precisions
<1> DEFINE pairs == {<<"F32", {"f32", "fp32", "full"}>>, <<"F16", {"f16", "fp16", "half"}>>,
                     <<"BF16", {"bf16", "bfloat16"}>>}
<1>1. \A p \in pairs : p[1] \in Precisions
  BY DEF Precisions
<1>2. Precision = Spellings(pairs)
  BY Zenon DEF Precision
<1> HIDE DEF pairs
<1>3. QED
  BY <1>1, <1>2, SpelledValue, Zenon

LEMMA BackendValue ==
  ASSUME NEW w \in DOMAIN BackendKind
  PROVE  BackendKind[w] \in Backends
<1> DEFINE pairs == {<<"ndarray", {"ndarray"}>>, <<"wgpu", {"wgpu"}>>, <<"candle", {"candle"}>>,
                     <<"cuda", {"cuda"}>>, <<"tch", {"tch", "libtorch"}>>}
<1>1. \A p \in pairs : p[1] \in Backends
  BY DEF Backends
<1>2. BackendKind = Spellings(pairs)
  BY Zenon DEF BackendKind
<1> HIDE DEF pairs
<1>3. QED
  BY <1>1, <1>2, SpelledValue, Zenon

LEMMA KeysOfCompute ==
  /\ "compute" \in DOMAIN Default
  /\ {"backend", "precision", "quant", "dequant_chunk_mib"} \subseteq DOMAIN Default["compute"]
  /\ Default["compute"]["backend"] \in Backends
  /\ Default["compute"]["precision"] \in Precisions
  /\ Default["compute"]["dequant_chunk_mib"] \in Nat
  /\ "model" \in DOMAIN Default /\ "training_adapter" \in DOMAIN Default["model"]
<1>1. "compute" \in DOMAIN Default /\ "model" \in DOMAIN Default
  BY DEF Default
<1>2. Default["compute"] = ComputeDefault /\ Default["model"] = ModelDefault
  BY DEF Default
<1>3. /\ {"backend", "precision", "quant", "dequant_chunk_mib"} \subseteq DOMAIN ComputeDefault
      /\ ComputeDefault["backend"] = "ndarray" /\ ComputeDefault["precision"] = "F32"
      /\ ComputeDefault["dequant_chunk_mib"] = 512
  BY DEF ComputeDefault
<1>4. "training_adapter" \in DOMAIN ModelDefault
  BY DEF ModelDefault
<1>5. QED
  BY <1>1, <1>2, <1>3, <1>4 DEF Backends, Precisions

LEMMA ComputeValues ==
  ASSUME NEW q, DOMAIN q.flags \subseteq DOMAIN FlagKey, ResolveConfig(q) # <<>>
  PROVE  /\ ResolveConfig(q)[1]["compute"]["backend"] \in Backends
         /\ ResolveConfig(q)[1]["compute"]["precision"] \in Precisions
<1>1. /\ Enumerated("compute", "backend") /\ Enumerations["compute"]["backend"] = BackendKind
      /\ Enumerated("compute", "precision") /\ Enumerations["compute"]["precision"] = Precision
  BY DEF Enumerated, Enumerations
<1>2. ASSUME NEW f \in DOMAIN FlagKey, NEW k \in {"backend", "precision"}, FlagKey[f] = <<"compute", k>>
      PROVE  \A x : FlagValue(f, x) = Read("compute", k, x)
  <2>1. f = k
    BY <1>2 DEF FlagKey
  <2>2. f \notin {"denoiser", "text_encoder", "vae", "tokenizer", "resume"}
        /\ f \notin {"no_metadata", "no_resume"} /\ f # "resume_unfinished"
    BY <2>1
  <2>3. \A x : FlagValue(f, x) = Read(FlagKey[f][1], FlagKey[f][2], x)
    BY <2>2, Zenon DEF FlagValue
  <2>4. FlagKey[f][1] = "compute" /\ FlagKey[f][2] = k
    BY <1>2
  <2>5. QED
    BY <2>3, <2>4, Zenon
<1>3. "compute" \in DOMAIN Default /\ "backend" \in DOMAIN Default["compute"]
      /\ "precision" \in DOMAIN Default["compute"]
  BY KeysOfCompute
<1>4. ResolveConfig(q)[1]["compute"]["backend"] \in Values("compute", "backend")
  BY <1>1, <1>2, <1>3, EnumeratedWord
<1>5. ResolveConfig(q)[1]["compute"]["precision"] \in Values("compute", "precision")
  BY <1>1, <1>2, <1>3, EnumeratedWord
<1>6. Values("compute", "backend") \subseteq Backends
  BY <1>1, BackendValue, KeysOfCompute, Zenon DEF Values
<1>7. Values("compute", "precision") \subseteq Precisions
  BY <1>1, PrecisionValue, KeysOfCompute, Zenon DEF Values
<1>8. QED
  BY <1>4, <1>5, <1>6, <1>7, Zenon

LEMMA ThresholdValue ==
  ASSUME NEW q, DOMAIN q.flags \subseteq DOMAIN FlagKey, ResolveConfig(q) # <<>>,
         \A layer \in {q.yaml, q.env} :
           "compute" \in DOMAIN layer /\ "dequant_chunk_mib" \in DOMAIN layer["compute"] =>
             layer["compute"]["dequant_chunk_mib"] \in Nat
  PROVE  ResolveConfig(q)[1]["compute"]["dequant_chunk_mib"] \in Nat
<1> DEFINE k == "dequant_chunk_mib"
<1>1. ~\E f \in DOMAIN q.flags : FlagKey[f] = <<"compute", k>>
  BY DEF FlagKey
<1>2. \A w : Read("compute", k, w) = w
  <2>1. ~Enumerated("compute", k)
    BY DEF Enumerated, Enumerations
  <2>2. QED
    BY <2>1, Zenon DEF Read
<1>3. "compute" \in DOMAIN Default /\ k \in DOMAIN Default["compute"]
  BY KeysOfCompute
<1>4. Default["compute"][k] \in Nat
  BY KeysOfCompute
<1> HIDE DEF k
<1>5. ResolveConfig(q)[1]["compute"][k] = LastWord(q, "compute", k)
  BY <1>3, TheLastWord, Zenon
<1>6. LastWord(q, "compute", k) = Underneath(q, "compute", k)
  <2> DEFINE flags == {f \in DOMAIN q.flags : FlagKey[f] = <<"compute", k>>}
             writes(layer) == "compute" \in DOMAIN layer /\ k \in DOMAIN layer["compute"]
  <2>1. flags = {}
    BY <1>1, Zenon
  <2>2. CASE writes(q.env)
    BY <2>1, <2>2, Zenon DEF LastWord, Underneath
  <2>3. CASE ~writes(q.env) /\ writes(q.yaml)
    BY <2>1, <2>3, Zenon DEF LastWord, Underneath
  <2>4. CASE ~writes(q.env) /\ ~writes(q.yaml)
    BY <2>1, <2>4, Zenon DEF LastWord, Underneath
  <2>5. QED
    BY <2>2, <2>3, <2>4, Zenon
<1>7. Underneath(q, "compute", k) \in Nat
  BY <1>2, <1>4, Zenon DEF Underneath, k
<1>8. QED
  BY <1>5, <1>6, <1>7, Zenon DEF k

(* The checks leave a run exactly one arm, its own. *)
LEMMA CheckedArm ==
  ASSUME NEW c, c.compute.backend \in Backends, c.compute.precision \in Precisions, BackendHolds(c)
  PROVE  Dispatch(c) = <<c.compute.backend, c.compute.precision>>
<1> DEFINE b == c.compute.backend
           p == c.compute.precision
           own == {a \in Arms : /\ a[1] = b
                                /\ b \in {"ndarray", "cuda"} \/ a[2] = p}
<1>1. /\ b = "ndarray" => p = "F32"
      /\ b = "wgpu" => p # "BF16"
      /\ b = "candle" => p # "F16"
      /\ b \in {"wgpu", "candle", "cuda"} => b \in Features
      /\ b = "cuda" => p = "F32"
      /\ b # "tch"
  BY Zenon DEF BackendHolds
<1>2. Dispatch(c) = IF own = {} THEN <<"unreachable", "">> ELSE CHOOSE a \in own : TRUE
  BY Zenon DEF Dispatch
<1>3. b \in Backends /\ p \in Precisions
  OBVIOUS
<1> HIDE DEF b, p
<1>4. <<b, p>> \in Arms
  BY <1>1, <1>3 DEF Backends, Precisions, Arms
<1>5. \A a \in Arms : a[1] \in {"ndarray", "cuda"} => a = <<a[1], "F32">>
  BY DEF Arms
<1>6. \A a \in Arms : a = <<a[1], a[2]>>
  BY DEF Arms
<1>7. \A a \in own : a = <<b, p>>
  <2> SUFFICES ASSUME NEW a \in Arms, a[1] = b, b \in {"ndarray", "cuda"} \/ a[2] = p
               PROVE  a = <<b, p>>
    BY Zenon
  <2>1. CASE b \in {"ndarray", "cuda"}
    BY <1>1, <1>5, <2>1
  <2>2. CASE a[2] = p
    BY <1>6, <2>2
  <2>3. QED
    BY <2>1, <2>2
<1>8. <<b, p>> \in own
  <2>1. <<b, p>>[1] = b /\ <<b, p>>[2] = p
    OBVIOUS
  <2>2. QED
    BY <1>4, <2>1, Zenon
<1> HIDE DEF own
<1>9. (CHOOSE a \in own : TRUE) = <<b, p>>
  BY <1>7, <1>8, Zenon
<1>10. QED
  BY <1>2, <1>8, <1>9, Zenon DEF b, p

LEMMA FieldsOf ==
  ASSUME NEW c
  PROVE  /\ c["compute"]["backend"] = c.compute.backend
         /\ c["compute"]["precision"] = c.compute.precision
         /\ c["compute"]["quant"] = c.compute.quant
         /\ c["compute"]["dequant_chunk_mib"] = c.compute.dequant_chunk_mib
         /\ c["model"]["training_adapter"] = c.model.training_adapter
OBVIOUS

(* A run's configuration is the last word of its layers, and a model is      *)
(* whatever the arm says.                                                     *)
Legible(q) ==
  /\ DOMAIN q.flags \subseteq DOMAIN FlagKey
  /\ \A layer \in {q.yaml, q.env} :
       "compute" \in DOMAIN layer /\ "dequant_chunk_mib" \in DOMAIN layer["compute"] =>
         layer["compute"]["dequant_chunk_mib"] \in Nat

ConfigAt(q, c) ==
  /\ c.compute.backend = LastWord(q, "compute", "backend")
  /\ c.compute.precision = LastWord(q, "compute", "precision")
  /\ c.compute.quant = LastWord(q, "compute", "quant")
  /\ c.model.training_adapter = LastWord(q, "model", "training_adapter")
  /\ c.compute.backend \in Backends /\ c.compute.precision \in Precisions
  /\ c.compute.dequant_chunk_mib \in Nat

LEMMA ResolvedConfig ==
  ASSUME NEW q, Legible(q), ResolveConfig(q) # <<>>
  PROVE  ConfigAt(q, ResolveConfig(q)[1])
<1> DEFINE c == ResolveConfig(q)[1]
<1>1. DOMAIN q.flags \subseteq DOMAIN FlagKey
  BY Zenon DEF Legible
<1>2. /\ "compute" \in DOMAIN Default /\ "model" \in DOMAIN Default
      /\ "backend" \in DOMAIN Default["compute"] /\ "precision" \in DOMAIN Default["compute"]
      /\ "quant" \in DOMAIN Default["compute"] /\ "training_adapter" \in DOMAIN Default["model"]
  BY KeysOfCompute
<1>3. /\ c["compute"]["backend"] = LastWord(q, "compute", "backend")
      /\ c["compute"]["precision"] = LastWord(q, "compute", "precision")
      /\ c["compute"]["quant"] = LastWord(q, "compute", "quant")
      /\ c["model"]["training_adapter"] = LastWord(q, "model", "training_adapter")
  BY <1>1, <1>2, TheLastWord, Zenon
<1>4. c["compute"]["backend"] \in Backends /\ c["compute"]["precision"] \in Precisions
  BY <1>1, ComputeValues, Zenon
<1>5. c["compute"]["dequant_chunk_mib"] \in Nat
  BY <1>1, ThresholdValue, Zenon DEF Legible
<1> HIDE DEF c
<1>6. QED
  BY <1>3, <1>4, <1>5, FieldsOf, Zenon DEF ConfigAt, c

-----------------------------------------------------------------------------
(* What the loaders make of a model *)

BaseAt(base, limit) ==
  /\ {"arm", "weight"} \subseteq DOMAIN base
  /\ base.arm \in {"Plain", "Quant"}
  /\ base.arm = "Quant" => \E m, n \in Nat : Chunked(base.weight, limit, m, n)

(* A model's linears: in whole chunks under the threshold, and one of them   *)
(* is quantized exactly if a quantization was asked for.                     *)
BasesAt(bases, quant, limit) ==
  /\ DOMAIN bases = DOMAIN Dims
  /\ \A p \in DOMAIN Dims : BaseAt(bases[p], limit)
  /\ quant # "none" <=> \E p \in DOMAIN Dims : bases[p].arm = "Quant"

ModelAt(model, quant, limit) ==
  "bases" \in DOMAIN model /\ BasesAt(model.bases, quant, limit)

LEMMA PlainIsPlain ==
  ASSUME NEW w, NEW dtype
  PROVE  /\ PlainLinear(w, dtype).arm = "Plain" /\ PlainLinear(w, dtype).weight = w
         /\ \A limit : BaseAt(PlainLinear(w, dtype), limit)
<1>1. /\ PlainLinear(w, dtype).arm = "Plain" /\ PlainLinear(w, dtype).weight = w
      /\ {"arm", "weight"} \subseteq DOMAIN PlainLinear(w, dtype)
  BY DEF PlainLinear
<1>2. QED
  BY <1>1 DEF BaseAt

LEMMA QuantIsQuant ==
  ASSUME NEW chunks, NEW limit, NEW m \in Nat, NEW n \in Nat, Chunked(chunks, limit, m, n)
  PROVE  QuantLinear(chunks).arm = "Quant" /\ BaseAt(QuantLinear(chunks), limit)
<1>1. /\ QuantLinear(chunks).arm = "Quant" /\ QuantLinear(chunks).weight = chunks
      /\ {"arm", "weight"} \subseteq DOMAIN QuantLinear(chunks)
  BY DEF QuantLinear
<1>2. QED
  BY <1>1 DEF BaseAt

LEMMA ChunksOf ==
  ASSUME NEW w, NEW m \in Nat, NEW n \in Nat, IsMatrix(w, m, n), NEW limit \in Nat
  PROVE  \E k, l \in Nat : Chunked(QuantizeChunked(w, limit), limit, k, l)
<1>1. Chunked(QuantizeChunked(w, limit), limit, m, IF m = 0 THEN 0 ELSE n)
  BY ChunksCutRows
<1>2. (IF m = 0 THEN 0 ELSE n) \in Nat
  OBVIOUS
<1>3. QED
  BY <1>1, <1>2, Zenon

LEMMA InitBasesArePlain ==
  ASSUME NEW dtype
  PROVE  /\ DOMAIN InitBases(dtype) = DOMAIN Dims
         /\ \A p \in DOMAIN Dims :
              /\ \A limit : BaseAt(InitBases(dtype)[p], limit)
              /\ InitBases(dtype)[p].arm = "Plain"
              /\ IsMatrix(InitBases(dtype)[p].weight, Dims[p][2], Dims[p][1])
<1>1. DOMAIN InitBases(dtype) = DOMAIN Dims
  BY Zenon DEF InitBases
<1>2. ASSUME NEW p \in DOMAIN Dims
      PROVE  /\ \A limit : BaseAt(InitBases(dtype)[p], limit)
             /\ InitBases(dtype)[p].arm = "Plain"
             /\ IsMatrix(InitBases(dtype)[p].weight, Dims[p][2], Dims[p][1])
  <2> DEFINE w == Matrix(Dims[p][2], Dims[p][1], LAMBDA i, j : Elem(<<"init">>, i, j))
  <2>1. InitBases(dtype)[p] = PlainLinear(w, dtype)
    BY Zenon DEF InitBases
  <2>2. IsMatrix(w, Dims[p][2], Dims[p][1])
    BY Zenon DEF IsMatrix, Matrix
  <2> HIDE DEF w
  <2>3. PlainLinear(w, dtype).arm = "Plain" /\ PlainLinear(w, dtype).weight = w
    BY PlainIsPlain
  <2>4. \A limit : BaseAt(PlainLinear(w, dtype), limit)
    BY PlainIsPlain
  <2>5. QED
    BY <2>1, <2>2, <2>3, <2>4, Zenon
<1>3. QED
  BY <1>1, <1>2, Zenon

LEMMA InitModelIsPlain ==
  ASSUME NEW dtype, NEW limit
  PROVE  ModelAt(InitModel(dtype), "none", limit)
<1>1. "bases" \in DOMAIN InitModel(dtype) /\ InitModel(dtype).bases = InitBases(dtype)
  BY DEF InitModel
<1>2. \A p \in DOMAIN Dims : InitBases(dtype)[p].arm # "Quant"
  BY InitBasesArePlain
<1>3. BasesAt(InitBases(dtype), "none", limit)
  BY <1>2, InitBasesArePlain, Zenon DEF BasesAt
<1>4. QED
  BY <1>1, <1>3, Zenon DEF ModelAt

LEMMA SkeletonIsQuantized ==
  ASSUME NEW dtype, NEW quant, quant # "none", NEW limit \in Nat
  PROVE  ModelAt(Skeleton(dtype, limit), quant, limit)
<1> DEFINE plain == InitBases(dtype)
           bases == IntoQuantizedChunked(plain, limit)
<1>1. "bases" \in DOMAIN InitModel(dtype) /\ InitModel(dtype).bases = plain
  BY DEF InitModel
<1>2. "bases" \in DOMAIN Skeleton(dtype, limit) /\ Skeleton(dtype, limit).bases = bases
  <2>1. \A m, x : "bases" \in DOMAIN m =>
          /\ "bases" \in DOMAIN [m EXCEPT !.bases = x]
          /\ [m EXCEPT !.bases = x].bases = x
    BY Zenon
  <2>2. Skeleton(dtype, limit) = [InitModel(dtype) EXCEPT !.bases = bases]
    BY <1>1, Zenon DEF Skeleton
  <2> HIDE DEF bases
  <2>3. QED
    BY <1>1, <2>1, <2>2, Zenon
<1>3. DOMAIN bases = DOMAIN Dims /\ \A p \in DOMAIN Dims :
        bases[p] = IF p \in QuantizedFields THEN QuantizeField(plain[p], limit) ELSE plain[p]
  BY InitBasesArePlain, Zenon DEF IntoQuantizedChunked
<1> HIDE DEF bases, plain
<1>4. ASSUME NEW p \in DOMAIN Dims
      PROVE  /\ Len(plain[p].weight) = Dims[p][2]
             /\ \E m, n \in Nat : Chunked(QuantizeChunked(Transpose(plain[p].weight), limit), limit, m, n)
  <2>1. PICK o \in Nat, i \in Nat : o = Dims[p][1] /\ i = Dims[p][2]
    BY FrozenLinearAssumption
  <2>2. IsMatrix(plain[p].weight, i, o)
    BY <2>1, InitBasesArePlain, Zenon DEF plain
  <2>3. Len(plain[p].weight) = i /\ Columns(plain[p].weight) \in Nat
    BY <2>2, MatrixSize
  <2>4. IsMatrix(Transpose(plain[p].weight), Columns(plain[p].weight), i)
    BY <2>3, TransposedIsMatrix
  <2>5. QED
    BY <2>1, <2>3, <2>4, ChunksOf, Zenon
<1>5. ASSUME NEW p \in DOMAIN Dims
      PROVE  /\ BaseAt(bases[p], limit)
             /\ p \in QuantizedFields /\ Dims[p][2] % QuantBlock = 0 => bases[p].arm = "Quant"
  <2> DEFINE chunks == QuantizeChunked(Transpose(plain[p].weight), limit)
  <2>1. plain[p].arm = "Plain" /\ BaseAt(plain[p], limit)
    BY InitBasesArePlain, Zenon DEF plain
  <2>2. BaseAt(QuantLinear(chunks), limit) /\ QuantLinear(chunks).arm = "Quant"
    BY <1>4, QuantIsQuant, Zenon
  <2>3. QuantizeField(plain[p], limit) =
          IF Len(plain[p].weight) % QuantBlock = 0 THEN QuantLinear(chunks) ELSE plain[p]
    BY <2>1, Zenon DEF QuantizeField
  <2> HIDE DEF chunks
  <2>4. QED
    BY <1>3, <1>4, <2>1, <2>2, <2>3, Zenon
<1>6. \E p \in DOMAIN Dims : bases[p].arm = "Quant"
  BY <1>5, SomeSiteIsAligned, Zenon
<1>7. BasesAt(bases, quant, limit)
  BY <1>3, <1>5, <1>6, Zenon DEF BasesAt
<1>8. QED
  BY <1>2, <1>7, Zenon DEF ModelAt

LEMMA ApplyKeepsArms ==
  ASSUME NEW model, NEW snapshots, NEW dtype, NEW quant, NEW limit, ModelAt(model, quant, limit)
  PROVE  ModelAt(Apply(model, snapshots, dtype).model, quant, limit)
<1> DEFINE found == {s.name : s \in snapshots} \cap Visited(model)
           at(path) == CastFloats(CHOOSE s \in snapshots : s.name = path, dtype)
           bases == [p \in DOMAIN model.bases |->
                       IF p \in PlainSites(model) /\ Weight(p) \in found
                       THEN PlainLinear(Transpose(at(Weight(p)).data), at(Weight(p)).dtype)
                       ELSE model.bases[p]]
           new == Apply(model, snapshots, dtype).model
<1>1. "bases" \in DOMAIN new /\ new.bases = bases
  <2> DEFINE params == [p \in DOMAIN model.params |->
                          IF p \in found
                          THEN [data |-> Stored(p, at(p).data), dtype |-> at(p).dtype,
                                dims |-> at(p).dims]
                          ELSE model.params[p]]
  <2>1. \A a, b, c, d : [errors |-> a, missing |-> b, unused |-> c, model |-> d].model = d
    OBVIOUS
  <2>2. new = [bases |-> bases, params |-> params]
    BY <2>1, Zenon DEF Apply
  <2> HIDE DEF bases, params, new
  <2>3. QED
    BY <2>2
<1>2. DOMAIN model.bases = DOMAIN Dims
  BY Zenon DEF ModelAt, BasesAt
<1>3. DOMAIN bases = DOMAIN Dims
  BY <1>2, Zenon
<1>4. ASSUME NEW p \in DOMAIN Dims
      PROVE  BaseAt(bases[p], limit) /\ bases[p].arm = model.bases[p].arm
  <2>1. CASE p \in PlainSites(model) /\ Weight(p) \in found
    <3>1. PICK w, d : bases[p] = PlainLinear(w, d)
      BY <1>2, <2>1, Zenon
    <3>2. model.bases[p].arm = "Plain"
      BY <2>1, Zenon DEF PlainSites
    <3>3. PlainLinear(w, d).arm = "Plain"
      BY PlainIsPlain
    <3>4. BaseAt(PlainLinear(w, d), limit)
      BY PlainIsPlain
    <3>5. QED
      BY <3>1, <3>2, <3>3, <3>4, Zenon
  <2>2. CASE ~(p \in PlainSites(model) /\ Weight(p) \in found)
    <3>1. bases[p] = model.bases[p]
      BY <1>2, <2>2, Zenon
    <3>2. QED
      BY <3>1, Zenon DEF ModelAt, BasesAt
  <2>3. QED
    BY <2>1, <2>2, Zenon
<1> HIDE DEF bases, new
<1>5. BasesAt(bases, quant, limit)
  BY <1>3, <1>4, Zenon DEF BasesAt, ModelAt
<1>6. QED
  BY <1>1, <1>5, Zenon DEF ModelAt, new

LEMMA NoGradKeepsArms ==
  ASSUME NEW model, NEW quant, NEW limit, ModelAt(model, quant, limit)
  PROVE  ModelAt(NoGrad(model), quant, limit)
<1> DEFINE bases == [p \in DOMAIN model.bases |-> [model.bases[p] EXCEPT !.grad = FALSE]]
<1>1. "bases" \in DOMAIN model /\ BasesAt(model.bases, quant, limit)
  BY Zenon DEF ModelAt
<1>2. "bases" \in DOMAIN NoGrad(model) /\ NoGrad(model).bases = bases
  <2>1. \A m, x : "bases" \in DOMAIN m =>
          /\ "bases" \in DOMAIN [m EXCEPT !.bases = x]
          /\ [m EXCEPT !.bases = x].bases = x
    BY Zenon
  <2>2. NoGrad(model) = [model EXCEPT !.bases = bases]
    BY <1>1, Zenon DEF NoGrad
  <2> HIDE DEF bases
  <2>3. QED
    BY <1>1, <2>1, <2>2, Zenon
<1>3. \A b, x : {"arm", "weight"} \subseteq DOMAIN b =>
        /\ DOMAIN [b EXCEPT !.grad = x] = DOMAIN b
        /\ [b EXCEPT !.grad = x].arm = b.arm /\ [b EXCEPT !.grad = x].weight = b.weight
  OBVIOUS
<1>4. ASSUME NEW p \in DOMAIN Dims
      PROVE  BaseAt(bases[p], limit) /\ bases[p].arm = model.bases[p].arm
  <2>1. BaseAt(model.bases[p], limit) /\ bases[p] = [model.bases[p] EXCEPT !.grad = FALSE]
    BY <1>1, Zenon DEF BasesAt
  <2>2. {"arm", "weight"} \subseteq DOMAIN model.bases[p]
    BY <2>1, Zenon DEF BaseAt
  <2>3. /\ DOMAIN bases[p] = DOMAIN model.bases[p]
        /\ bases[p].arm = model.bases[p].arm /\ bases[p].weight = model.bases[p].weight
    BY <1>3, <2>1, <2>2, Zenon
  <2> HIDE DEF bases
  <2>4. QED
    BY <2>1, <2>3, Zenon DEF BaseAt
<1>5. DOMAIN bases = DOMAIN Dims
  BY <1>1, Zenon DEF BasesAt
<1> HIDE DEF bases
<1>6. BasesAt(bases, quant, limit)
  BY <1>1, <1>4, <1>5, Zenon DEF BasesAt
<1>7. QED
  BY <1>2, <1>6, Zenon DEF ModelAt

-----------------------------------------------------------------------------
(* What comes out of a file *)

LEMMA SizesOfShape ==
  ASSUME NEW shape \in Seq(Nat)
  PROVE  Rows(shape) \in Nat /\ Cols(shape) \in Nat
<1>1. Rows(shape) \in Nat
  BY DEF Rows
<1>2. Cols(shape) \in Nat
  <2>1. CASE shape = <<>>
    BY <2>1 DEF Cols
  <2>2. CASE shape # <<>>
    <3>1. Len(shape) \in 1 .. Len(shape)
      BY <2>2
    <3>2. shape[Len(shape)] \in Nat
      BY <3>1
    <3>3. QED
      BY <2>2, <3>2 DEF Cols, Last
  <2>3. QED
    BY <2>1, <2>2
<1>3. QED
  BY <1>1, <1>2

(* The data of a snapshot is a matrix. *)
Matrixlike(s) == "data" \in DOMAIN s /\ \E m, n \in Nat : IsMatrix(s.data, m, n)

LEMMA SnapshotIsMatrix ==
  ASSUME NEW name, NEW dtype, NEW shape \in Seq(Nat), NEW El(_, _)
  PROVE  Matrixlike(Snapshot(name, dtype, shape, El))
<1> DEFINE s == Snapshot(name, dtype, shape, El)
<1>1. "data" \in DOMAIN s /\ s.data = Matrix(Rows(shape), Cols(shape), El)
  BY DEF Snapshot
<1>2. IsMatrix(Matrix(Rows(shape), Cols(shape), El), Rows(shape), Cols(shape))
  BY Zenon DEF IsMatrix, Matrix
<1> HIDE DEF s
<1>3. Rows(shape) \in Nat /\ Cols(shape) \in Nat
  BY SizesOfShape
<1>4. QED
  BY <1>1, <1>2, <1>3, Zenon DEF Matrixlike, s

LEMMA SnapshotsAreMatrices ==
  ASSUME NEW f, \A name \in DOMAIN f : f[name].shape \in Seq(Nat)
  PROVE  \A s \in Remapped(Snapshots(f)) : Matrixlike(s)
<1>1. ASSUME NEW name \in DOMAIN f
      PROVE  Matrixlike(PlainSnapshot(f, name)) /\ Matrixlike(DequantSnapshot(f, name))
  <2>1. f[name].shape \in Seq(Nat)
    OBVIOUS
  <2>2. Matrixlike(PlainSnapshot(f, name))
    BY <2>1, SnapshotIsMatrix DEF PlainSnapshot
  <2>3. Matrixlike(DequantSnapshot(f, name))
    BY <2>1, SnapshotIsMatrix DEF DequantSnapshot
  <2>4. QED
    BY <2>2, <2>3
<1>2. \A s \in LoadPlainSnapshots(f) : Matrixlike(s)
  BY <1>1, Zenon DEF LoadPlainSnapshots
<1>3. \A s \in LoadFp8Snapshots(f) : Matrixlike(s)
  BY <1>1, Zenon DEF LoadFp8Snapshots
<1>4. \A s \in Snapshots(f) : Matrixlike(s)
  BY <1>2, <1>3, Zenon DEF Snapshots
<1>5. \A s, x : Matrixlike(s) => Matrixlike([s EXCEPT !.name = x])
  <2> SUFFICES ASSUME NEW s, NEW x, Matrixlike(s)
               PROVE  Matrixlike([s EXCEPT !.name = x])
    OBVIOUS
  <2>1. /\ "data" \in DOMAIN s => "data" \in DOMAIN [s EXCEPT !.name = x]
        /\ "data" \in DOMAIN s => [s EXCEPT !.name = x].data = s.data
    OBVIOUS
  <2>2. QED
    BY <2>1, Zenon DEF Matrixlike
<1>6. QED
  BY <1>4, <1>5, Zenon DEF Remapped

-----------------------------------------------------------------------------
(* Loading a base *)

LEMMA LoadedIsPlain ==
  ASSUME NEW f, NEW dtype, LoadBase(f, dtype) # <<>>, NEW limit
  PROVE  ModelAt(NoGrad(LoadBase(f, dtype)[1]), "none", limit)
<1>1. \A snapshots : ModelAt(Apply(InitModel(dtype), snapshots, dtype).model, "none", limit)
  BY InitModelIsPlain, ApplyKeepsArms, Zenon
<1>2. \A x : <<x>>[1] = x
  OBVIOUS
<1>3. PICK snapshots : LoadBase(f, dtype) = <<Apply(InitModel(dtype), snapshots, dtype).model>>
  <2>1. CASE IsFp8(f)
    <3>1. LoadFp8Module(f, dtype) # <<>> /\ LoadBase(f, dtype) = LoadFp8Module(f, dtype)
      BY <2>1, Zenon DEF LoadBase
    <3>2. QED
      BY <3>1, Zenon DEF LoadFp8Module
  <2>2. CASE ~IsFp8(f)
    <3>1. LoadModule(f, dtype) # <<>> /\ LoadBase(f, dtype) = LoadModule(f, dtype)
      BY <2>2, Zenon DEF LoadBase
    <3>2. QED
      BY <3>1, Zenon DEF LoadModule
  <2>3. QED
    BY <2>1, <2>2
<1>4. ModelAt(LoadBase(f, dtype)[1], "none", limit)
  BY <1>1, <1>2, <1>3, Zenon
<1>5. QED
  BY <1>4, NoGradKeepsArms, Zenon

(* The streaming loader's state: a model of the asked kind, and matrices     *)
(* still to take.                                                             *)
StreamAt(stream, quant, limit) ==
  /\ {"model", "byKey"} \subseteq DOMAIN stream
  /\ ModelAt(stream.model, quant, limit)
  /\ \A s \in stream.byKey : Matrixlike(s)

LEMMA OpenedStream ==
  ASSUME NEW f, \A name \in DOMAIN f : f[name].shape \in Seq(Nat),
         NEW dtype, NEW quant, quant # "none", NEW limit \in Nat
  PROVE  StreamAt(OpenStream(f, dtype, limit), quant, limit)
<1> DEFINE stream == OpenStream(f, dtype, limit)
<1>1. /\ {"model", "byKey"} \subseteq DOMAIN stream
      /\ stream.model = Skeleton(dtype, limit) /\ stream.byKey = Remapped(Snapshots(f))
  BY DEF OpenStream
<1> HIDE DEF stream
<1>2. ModelAt(stream.model, quant, limit)
  BY <1>1, SkeletonIsQuantized
<1>3. \A s \in stream.byKey : Matrixlike(s)
  BY <1>1, SnapshotsAreMatrices, Zenon
<1>4. QED
  BY <1>1, <1>2, <1>3, Zenon DEF StreamAt, stream

LEMMA QuantizedSite ==
  ASSUME NEW stream, NEW quant, quant # "none", NEW limit \in Nat, StreamAt(stream, quant, limit),
         NEW site, QuantizeSite(stream, site, limit) # <<>>
  PROVE  StreamAt(QuantizeSite(stream, site, limit)[1], quant, limit)
<1> DEFINE own == {s \in stream.byKey : s.name = Weight(site)}
           taken == CHOOSE s \in own : TRUE
           chunks == QuantizeChunked(taken.data, limit)
           model == [stream.model EXCEPT !.bases[site].weight = chunks]
           next == QuantizeSite(stream, site, limit)[1]
<1>1. \A x : <<x>>[1] = x
  OBVIOUS
<1>2. CASE stream.model.bases[site].arm = "Plain"
  <2>1. QuantizeSite(stream, site, limit) = <<stream>>
    BY <1>2, Zenon DEF QuantizeSite
  <2>2. QED
    BY <1>1, <2>1, Zenon
<1>3. CASE stream.model.bases[site].arm # "Plain"
  <2>1. own # {} /\ QuantizeSite(stream, site, limit) =
          <<[model |-> model, byKey |-> stream.byKey \ own,
             covered |-> stream.covered \cup {Weight(site)}]>>
    BY <1>3, Zenon DEF QuantizeSite
  <2>2. {"model", "byKey"} \subseteq DOMAIN next /\ next.model = model /\ next.byKey = stream.byKey \ own
    <3> HIDE DEF model, own
    <3>1. QuantizeSite(stream, site, limit)[1] =
            [model |-> model, byKey |-> stream.byKey \ own,
             covered |-> stream.covered \cup {Weight(site)}]
      BY <1>1, <2>1, Zenon
    <3>2. PICK a, b, c : a = model /\ b = stream.byKey \ own
                         /\ next = [model |-> a, byKey |-> b, covered |-> c]
      BY <3>1, Zenon
    <3> HIDE DEF next
    <3>3. {"model", "byKey"} \subseteq DOMAIN next /\ next.model = a /\ next.byKey = b
      BY <3>2
    <3>4. QED
      BY <3>2, <3>3, Zenon
  <2>3. \A s \in stream.byKey : Matrixlike(s)
    BY Zenon DEF StreamAt
  <2>4. Matrixlike(taken)
    BY <2>1, <2>3, Zenon
  <2>5. \E m, n \in Nat : Chunked(chunks, limit, m, n)
    <3> HIDE DEF taken
    <3>1. PICK m \in Nat, n \in Nat : IsMatrix(taken.data, m, n)
      BY <2>4, Zenon DEF Matrixlike
    <3>2. QED
      BY <3>1, ChunksOf, Zenon
  <2>6. "bases" \in DOMAIN stream.model /\ BasesAt(stream.model.bases, quant, limit)
    BY Zenon DEF StreamAt, ModelAt
  <2> HIDE DEF own, taken, chunks
  <2>7. "bases" \in DOMAIN model
        /\ model.bases = [stream.model.bases EXCEPT ![site].weight = chunks]
    BY <2>6
  <2> DEFINE bases == model.bases
  <2>8. DOMAIN bases = DOMAIN Dims
    BY <2>6, <2>7 DEF BasesAt
  <2>9. ASSUME NEW p \in DOMAIN Dims
         PROVE  BaseAt(bases[p], limit) /\ bases[p].arm = stream.model.bases[p].arm
    <3>1. BaseAt(stream.model.bases[p], limit) /\ DOMAIN stream.model.bases = DOMAIN Dims
      BY <2>6, Zenon DEF BasesAt
    <3>2. CASE p = site
      <4>1. {"arm", "weight"} \subseteq DOMAIN stream.model.bases[p]
        BY <3>1, Zenon DEF BaseAt
      <4>2. bases[p] = [stream.model.bases[p] EXCEPT !.weight = chunks]
        BY <2>7, <3>1, <3>2
      <4>3. /\ {"arm", "weight"} \subseteq DOMAIN bases[p]
            /\ bases[p].arm = stream.model.bases[p].arm /\ bases[p].weight = chunks
        BY <4>1, <4>2
      <4> HIDE DEF bases
      <4>4. QED
        BY <2>5, <3>1, <4>3, Zenon DEF BaseAt
    <3>3. CASE p # site
      <4>1. bases[p] = stream.model.bases[p]
        BY <2>7, <3>1, <3>3
      <4> HIDE DEF bases
      <4>2. QED
        BY <3>1, <4>1, Zenon
    <3>4. QED
      BY <3>2, <3>3
  <2>10. ModelAt(model, quant, limit)
    <3> HIDE DEF model
    <3>1. BasesAt(bases, quant, limit)
      BY <2>6, <2>8, <2>9, Zenon DEF BasesAt
    <3>2. QED
      BY <2>7, <3>1, Zenon DEF ModelAt
  <2> HIDE DEF model, next
  <2>11. \A s \in next.byKey : Matrixlike(s)
    BY <2>2, <2>3, Zenon
  <2>12. QED
    BY <2>2, <2>10, <2>11, Zenon DEF StreamAt, next
<1>4. QED
  BY <1>2, <1>3

LEMMA AppliedRest ==
  ASSUME NEW stream, NEW dtype, NEW quant, NEW limit, StreamAt(stream, quant, limit),
         ApplyRest(stream, dtype) # <<>>
  PROVE  ModelAt(NoGrad(ApplyRest(stream, dtype)[1]), quant, limit)
<1>1. \A x : <<x>>[1] = x
  OBVIOUS
<1>2. ApplyRest(stream, dtype) = <<Apply(stream.model, stream.byKey, dtype).model>>
  BY Zenon DEF ApplyRest
<1>3. ModelAt(Apply(stream.model, stream.byKey, dtype).model, quant, limit)
  BY ApplyKeepsArms, Zenon DEF StreamAt
<1>4. ModelAt(ApplyRest(stream, dtype)[1], quant, limit)
  BY <1>1, <1>2, <1>3, Zenon
<1>5. QED
  BY <1>4, NoGradKeepsArms, Zenon

(* A merged site is a plain linear; a base that was not quantized has no    *)
(* other.                                                                    *)
LEMMA MergedIsPlain ==
  ASSUME NEW base, NEW site, NEW limit
  PROVE  BaseAt(MergedLinear(base, site), limit) /\ MergedLinear(base, site).arm = "Plain"
<1>1. PICK w, d : MergedLinear(base, site) = [PlainLinear(w, d) EXCEPT !.grad = FALSE]
  BY Zenon DEF MergedLinear
<1>2. \A b : {"arm", "weight"} \subseteq DOMAIN b =>
        /\ {"arm", "weight"} \subseteq DOMAIN [b EXCEPT !.grad = FALSE]
        /\ [b EXCEPT !.grad = FALSE].arm = b.arm
  OBVIOUS
<1>3. {"arm", "weight"} \subseteq DOMAIN PlainLinear(w, d) /\ PlainLinear(w, d).arm = "Plain"
  BY DEF PlainLinear
<1>4. /\ {"arm", "weight"} \subseteq DOMAIN MergedLinear(base, site)
      /\ MergedLinear(base, site).arm = "Plain"
  BY <1>1, <1>2, <1>3, Zenon
<1>5. QED
  BY <1>4 DEF BaseAt

LEMMA MergedModel ==
  ASSUME NEW model, NEW limit, ModelAt(model, "none", limit), NEW path, NEW site
  PROVE  ModelAt([model EXCEPT !.bases[path] = MergedLinear(model.bases[path], site)], "none", limit)
<1> DEFINE merged == MergedLinear(model.bases[path], site)
           new == [model EXCEPT !.bases[path] = merged]
<1>1. "bases" \in DOMAIN model /\ BasesAt(model.bases, "none", limit)
  BY Zenon DEF ModelAt
<1>2. BaseAt(merged, limit) /\ merged.arm = "Plain"
  BY MergedIsPlain
<1> HIDE DEF merged
<1>3. "bases" \in DOMAIN new /\ new.bases = [model.bases EXCEPT ![path] = merged]
  BY <1>1
<1>4. DOMAIN model.bases = DOMAIN Dims /\ \A p \in DOMAIN Dims : BaseAt(model.bases[p], limit) /\ model.bases[p].arm # "Quant"
  BY <1>1, Zenon DEF BasesAt
<1>5. DOMAIN new.bases = DOMAIN Dims
  BY <1>3, <1>4
<1>6. ASSUME NEW p \in DOMAIN Dims
      PROVE  BaseAt(new.bases[p], limit) /\ new.bases[p].arm # "Quant"
  <2>1. new.bases[p] = IF p = path THEN merged ELSE model.bases[p]
    BY <1>3, <1>4
  <2> HIDE DEF new
  <2>2. merged.arm # "Quant"
    BY <1>2
  <2>3. QED
    BY <1>2, <1>4, <2>1, <2>2, Zenon
<1> HIDE DEF new
<1>7. BasesAt(new.bases, "none", limit)
  BY <1>5, <1>6, Zenon DEF BasesAt
<1>8. QED
  BY <1>3, <1>7, Zenon DEF ModelAt, new, merged

-----------------------------------------------------------------------------
(* Where a run is *)

(* What a run at a place has checked, and what it holds there. *)
RunAt(q, place, c, held) ==
  LET quant == c.compute.quant
      limit == ChunkBytes(c)
  IN  /\ place \notin {"launch", "ended"} => ConfigAt(q, c)
      /\ place \notin {"launch", "start", "ended"} => QuantHolds(c) /\ BackendHolds(c)
      /\ held.kind = "stream" => /\ place = "quantize" /\ quant # "none"
                                 /\ {"kind", "stream", "site"} \subseteq DOMAIN held
                                 /\ StreamAt(held.stream, quant, limit)
      /\ held.kind = "model" => /\ place \in {"loaded", "ready"}
                                /\ ModelAt(held.model, quant, limit)
      /\ held.kind = "merge" => /\ place = "merge" /\ quant = "none"
                                /\ c.model.training_adapter # <<>>
                                /\ {"kind", "model", "site", "left"} \subseteq DOMAIN held
                                /\ ModelAt(held.model, quant, limit)
      /\ place = "quantize" => held.kind = "stream"
      /\ place = "loaded" => held.kind = "model"
      /\ place = "merge" => held.kind = "merge"

SetupInv ==
  /\ DOMAIN pc = Runs /\ DOMAIN config = Runs /\ DOMAIN load = Runs
  /\ \A r \in Runs : Legible(request[r]) /\ RunAt(request[r], pc[r], config[r], load[r])

(* A run that holds no part of a base need only have passed its checks.      *)
LEMMA HoldsNoBase ==
  ASSUME NEW q, NEW place, NEW c, NEW held,
         place \notin {"launch", "ended"} => ConfigAt(q, c),
         place \notin {"launch", "start", "ended"} => QuantHolds(c) /\ BackendHolds(c),
         held.kind \notin {"stream", "model", "merge"},
         place \notin {"quantize", "loaded", "merge"}
  PROVE  RunAt(q, place, c, held)
<1>1. held.kind # "stream" /\ held.kind # "model" /\ held.kind # "merge"
  OBVIOUS
<1>2. place # "quantize" /\ place # "loaded" /\ place # "merge"
  OBVIOUS
<1>3. QED
  BY <1>1, <1>2, Zenon DEF RunAt

LEMMA EndedRun ==
  ASSUME NEW q, NEW c
  PROVE  RunAt(q, "ended", c, Nothing)
<1>1. Nothing.kind \notin {"stream", "model", "merge"}
  BY DEF Nothing
<1>2. QED
  BY <1>1, HoldsNoBase

(* A step of a run that leaves it at a place with what the place asks for.   *)
Lands(r) == RunAt(request[r], pc'[r], config'[r], load'[r])

LEMMA Ends ==
  ASSUME SetupInv, NEW r \in Runs, End(r)
  PROVE  Lands(r)
<1>1. pc'[r] = "ended" /\ load'[r] = Nothing
  BY DEF SetupInv, End, To, Holding
<1>2. QED
  BY <1>1, EndedRun, Zenon DEF Lands

LEMMA Here ==
  ASSUME SetupInv, NEW r \in Runs
  PROVE  /\ r \in DOMAIN pc /\ r \in DOMAIN config /\ r \in DOMAIN load
         /\ Legible(request[r]) /\ RunAt(request[r], pc[r], config[r], load[r])
BY Zenon DEF SetupInv

LEMMA LaunchLands ==
  ASSUME SetupInv, NEW r \in Runs, Launch(r)
  PROVE  Lands(r)
<1> DEFINE resolved == ResolveConfig(request[r])
<1>1. pc[r] = "launch" /\ load' = load
  BY Zenon DEF Launch
<1>2. load[r].kind \notin {"stream", "model", "merge"}
  <2>1. RunAt(request[r], pc[r], config[r], load[r])
    BY Here
  <2>2. load[r].kind # "stream" /\ load[r].kind # "model" /\ load[r].kind # "merge"
    <3>1. "launch" # "quantize" /\ "launch" \notin {"loaded", "ready"} /\ "launch" # "merge"
      OBVIOUS
    <3>2. QED
      BY <1>1, <2>1, <3>1, Zenon DEF RunAt
  <2>3. QED
    BY <2>2
<1>3. CASE resolved = <<>>
  <2>1. To(r, "ended")
    BY <1>3, Zenon DEF Launch
  <2>2. pc'[r] = "ended"
    BY <2>1, Here DEF To
  <2>3. QED
    BY <1>1, <1>2, <2>2, HoldsNoBase DEF Lands
<1>4. CASE resolved # <<>>
  <2>1. /\ config' = [config EXCEPT ![r] = resolved[1]]
        /\ To(r, "start") \/ To(r, "ended")
    BY <1>4, Zenon DEF Launch
  <2>2. ConfigAt(request[r], resolved[1])
    BY <1>4, Here, ResolvedConfig, Zenon
  <2> HIDE DEF resolved
  <2>3. config'[r] = resolved[1] /\ pc'[r] \in {"start", "ended"}
    BY <2>1, Here DEF To
  <2>4. ConfigAt(request[r], config'[r])
    BY <2>2, <2>3, Zenon
  <2>5. pc'[r] \notin {"quantize", "loaded", "merge"} /\ (pc'[r] \notin {"launch", "start", "ended"} => FALSE)
    BY <2>3
  <2>6. load'[r].kind \notin {"stream", "model", "merge"}
    BY <1>1, <1>2
  <2>7. RunAt(request[r], pc'[r], config'[r], load'[r])
    BY <2>4, <2>5, <2>6, HoldsNoBase
  <2>8. QED
    BY <2>7, Zenon DEF Lands
<1>5. QED
  BY <1>3, <1>4

(* Before the base is opened, a run that goes on keeps its configuration,    *)
(* and holds an encoder or nothing.                                           *)
LEMMA GoesOn ==
  ASSUME SetupInv, NEW r \in Runs, pc[r] \notin {"launch", "ended", "quantize", "loaded", "ready", "merge"},
         config' = config,
         pc'[r] \in {"encode", "encoding", "dispatch", "ended"},
         pc[r] = "start" /\ pc'[r] # "ended" => QuantHolds(config[r]) /\ BackendHolds(config[r]),
         load'[r] = load[r] \/ load'[r].kind \in {"encoder", "nothing"}
  PROVE  Lands(r)
<1>1. RunAt(request[r], pc[r], config[r], load[r])
  BY Here
<1>2. ConfigAt(request[r], config[r])
  BY <1>1, Zenon DEF RunAt
<1>3. load[r].kind # "stream" /\ load[r].kind # "model" /\ load[r].kind # "merge"
  <2>1. pc[r] # "quantize" /\ pc[r] \notin {"loaded", "ready"} /\ pc[r] # "merge"
    OBVIOUS
  <2>2. QED
    BY <1>1, <2>1, Zenon DEF RunAt
<1>4. load'[r].kind \notin {"stream", "model", "merge"}
  BY <1>3
<1>5. pc'[r] # "ended" => QuantHolds(config[r]) /\ BackendHolds(config[r])
  <2>1. CASE pc[r] = "start"
    BY <2>1, Zenon
  <2>2. CASE pc[r] # "start"
    <3>1. pc[r] \notin {"launch", "start", "ended"}
      BY <2>2
    <3>2. QED
      BY <1>1, <3>1, Zenon DEF RunAt
  <2>3. QED
    BY <2>1, <2>2, Zenon
<1>6. pc'[r] \notin {"launch", "start", "ended"} => QuantHolds(config[r]) /\ BackendHolds(config[r])
  <2>1. pc'[r] \notin {"launch", "start", "ended"} => pc'[r] # "ended"
    OBVIOUS
  <2>2. QED
    BY <1>5, <2>1, Zenon
<1>7. pc'[r] \notin {"quantize", "loaded", "merge"}
  OBVIOUS
<1>8. RunAt(request[r], pc'[r], config[r], load'[r])
  BY <1>2, <1>4, <1>6, <1>7, HoldsNoBase
<1>9. config'[r] = config[r]
  OBVIOUS
<1>10. QED
  BY <1>8, <1>9, Zenon DEF Lands

LEMMA ValidateLands ==
  ASSUME SetupInv, NEW r \in Runs, Validate(r)
  PROVE  Lands(r)
<1>1. /\ pc[r] = "start" /\ config' = config /\ load' = load
      /\ To(r, "encode") \/ To(r, "ended")
      /\ ~(QuantHolds(config[r]) /\ BackendHolds(config[r])) => To(r, "ended")
  BY Zenon DEF Validate
<1>2. \A place : To(r, place) => pc'[r] = place
  BY Here DEF To
<1>3. pc'[r] \in {"encode", "ended"}
  BY <1>1, <1>2
<1>4. pc'[r] # "ended" => QuantHolds(config[r]) /\ BackendHolds(config[r])
  BY <1>1, <1>2, Zenon
<1>5. QED
  BY <1>1, <1>3, <1>4, GoesOn

LEMMA EncodeLands ==
  ASSUME SetupInv, NEW r \in Runs,
         \/ EncodeWarm(r) \/ EncodeMiss(r) \/ Fetching(r)
         \/ EncodeLoad(r) \/ EncodeRead(r) \/ EncodeDone(r) \/ EncodeFails(r)
  PROVE  Lands(r)
<1>1. r \in DOMAIN pc /\ r \in DOMAIN load
  BY Here
<1>2. pc[r] \in {"encode", "encoding"} /\ config' = config
  BY DEF EncodeWarm, EncodeMiss, Fetching, EncodeLoad, EncodeRead, EncodeDone, EncodeFails
<1>3. CASE EncodeWarm(r) \/ EncodeMiss(r) \/ Fetching(r) \/ EncodeRead(r)
  <2>1. load' = load /\ (pc' = pc \/ pc' = [pc EXCEPT ![r] = "dispatch"])
    BY <1>3, Zenon DEF EncodeWarm, EncodeMiss, Fetching, EncodeRead, To
  <2>2. pc'[r] \in {"encode", "encoding", "dispatch"}
    BY <1>1, <1>2, <2>1
  <2>3. QED
    BY <1>2, <2>1, <2>2, GoesOn
<1>4. CASE EncodeDone(r)
  <2>1. pc'[r] = "dispatch" /\ load'[r] = Nothing
    BY <1>1, <1>4 DEF EncodeDone, To, Holding
  <2>2. load'[r].kind = "nothing"
    BY <2>1 DEF Nothing
  <2>3. QED
    BY <1>2, <2>1, <2>2, GoesOn
<1>5. CASE EncodeFails(r)
  BY <1>5, Ends, Zenon DEF EncodeFails
<1>6. CASE EncodeLoad(r)
  <2>1. CASE End(r)
    BY <2>1, Ends
  <2>2. CASE ~End(r)
    <3>1. PICK f, e : To(r, "encoding") /\ Holding(r, [kind |-> "encoder", from |-> f, encoder |-> e])
      BY <1>6, <2>2, Zenon DEF EncodeLoad
    <3>2. pc'[r] = "encoding" /\ load'[r] = [kind |-> "encoder", from |-> f, encoder |-> e]
      BY <1>1, <3>1 DEF To, Holding
    <3>3. load'[r].kind = "encoder"
      BY <3>2
    <3>4. QED
      BY <1>2, <3>2, <3>3, GoesOn
  <2>3. QED
    BY <2>1, <2>2
<1>7. QED
  BY <1>3, <1>4, <1>5, <1>6

LEMMA ThresholdBytes ==
  ASSUME NEW q, NEW c, ConfigAt(q, c)
  PROVE  ChunkBytes(c) \in Nat
<1>1. c.compute.dequant_chunk_mib \in Nat
  BY Zenon DEF ConfigAt
<1>2. QED
  BY <1>1, FilesAssumption DEF ChunkBytes

LEMMA HoldsModel ==
  ASSUME NEW q, NEW c, ConfigAt(q, c), QuantHolds(c), BackendHolds(c), NEW place \in {"loaded", "ready"},
         NEW model, ModelAt(model, c.compute.quant, ChunkBytes(c))
  PROVE  RunAt(q, place, c, [kind |-> "model", model |-> model])
<1> DEFINE held == [kind |-> "model", model |-> model]
<1>1. held.kind = "model" /\ held.model = model
  OBVIOUS
<1>2. "model" # "stream" /\ "model" # "merge" /\ place # "quantize" /\ place # "merge"
  OBVIOUS
<1> HIDE DEF held
<1>3. ModelAt(held.model, c.compute.quant, ChunkBytes(c))
  BY <1>1, Zenon
<1>4. RunAt(q, place, c, held)
  BY <1>1, <1>2, <1>3, Zenon DEF RunAt
<1>5. QED
  BY <1>4 DEF held

LEMMA HoldsStream ==
  ASSUME NEW q, NEW c, ConfigAt(q, c), QuantHolds(c), BackendHolds(c),
         NEW held, held.kind = "stream", {"kind", "stream", "site"} \subseteq DOMAIN held,
         c.compute.quant # "none", StreamAt(held.stream, c.compute.quant, ChunkBytes(c))
  PROVE  RunAt(q, "quantize", c, held)
<1>1. /\ "stream" # "model" /\ "stream" # "merge"
      /\ "quantize" # "loaded" /\ "quantize" # "ready" /\ "quantize" # "merge"
  OBVIOUS
<1>2. QED
  BY <1>1, Zenon DEF RunAt

LEMMA HoldsMerge ==
  ASSUME NEW q, NEW c, ConfigAt(q, c), QuantHolds(c), BackendHolds(c),
         NEW held, held.kind = "merge", {"kind", "model", "site", "left"} \subseteq DOMAIN held,
         c.compute.quant = "none", c.model.training_adapter # <<>>,
         ModelAt(held.model, c.compute.quant, ChunkBytes(c))
  PROVE  RunAt(q, "merge", c, held)
<1>1. /\ "merge" # "model" /\ "merge" # "stream"
      /\ "merge" # "loaded" /\ "merge" # "ready" /\ "merge" # "quantize"
  OBVIOUS
<1>2. QED
  BY <1>1, Zenon DEF RunAt

LEMMA OpenBaseLands ==
  ASSUME SetupInv, NEW r \in Runs, OpenBase(r)
  PROVE  Lands(r)
<1> DEFINE c == config[r]
           dtype == Dispatch(c)[2]
<1>1. r \in DOMAIN pc /\ r \in DOMAIN load /\ RunAt(request[r], pc[r], config[r], load[r])
  BY Here
<1>2. pc[r] = "dispatch" /\ config' = config
  BY Zenon DEF OpenBase
<1>3. ConfigAt(request[r], c) /\ QuantHolds(c) /\ BackendHolds(c)
  <2>1. "dispatch" \notin {"launch", "start", "ended"} /\ "dispatch" \notin {"launch", "ended"}
    OBVIOUS
  <2>2. QED
    BY <1>1, <1>2, <2>1, Zenon DEF RunAt
<1>4. ChunkBytes(c) \in Nat
  BY <1>3, ThresholdBytes
<1>5. PICK f \in Checkpoints[r] :
        \/ End(r)
        \/ /\ c.compute.quant # "none" /\ To(r, "quantize")
           /\ Holding(r, [kind |-> "stream", site |-> 1, stream |-> OpenStream(f, dtype, ChunkBytes(c))])
        \/ /\ c.compute.quant = "none" /\ LoadBase(f, dtype) # <<>> /\ To(r, "loaded")
           /\ Holding(r, [kind |-> "model", model |-> NoGrad(LoadBase(f, dtype)[1])])
  BY Zenon DEF OpenBase
<1>6. \A name \in DOMAIN f : f[name].shape \in Seq(Nat)
  BY FilesAssumption, Zenon
<1>7. config'[r] = c
  BY <1>2
<1> HIDE DEF c, dtype
<1>8. CASE End(r)
  BY <1>8, Ends
<1>9. CASE /\ c.compute.quant # "none" /\ To(r, "quantize")
           /\ Holding(r, [kind |-> "stream", site |-> 1, stream |-> OpenStream(f, dtype, ChunkBytes(c))])
  <2>1. PICK stream : stream = OpenStream(f, dtype, ChunkBytes(c))
    OBVIOUS
  <2>2. StreamAt(stream, c.compute.quant, ChunkBytes(c))
    BY <1>4, <1>6, <1>9, <2>1, OpenedStream
  <2>3. pc'[r] = "quantize" /\ load'[r] = [kind |-> "stream", site |-> 1, stream |-> stream]
    BY <1>1, <1>9, <2>1 DEF To, Holding
  <2>4. /\ load'[r].kind = "stream" /\ {"kind", "stream", "site"} \subseteq DOMAIN load'[r]
        /\ load'[r].stream = stream
    BY <2>3
  <2>5. RunAt(request[r], "quantize", c, load'[r])
    BY <1>3, <1>9, <2>2, <2>4, HoldsStream
  <2>6. QED
    BY <1>7, <2>3, <2>5, Zenon DEF Lands
<1>10. CASE /\ c.compute.quant = "none" /\ LoadBase(f, dtype) # <<>> /\ To(r, "loaded")
            /\ Holding(r, [kind |-> "model", model |-> NoGrad(LoadBase(f, dtype)[1])])
  <2>1. PICK model : model = NoGrad(LoadBase(f, dtype)[1])
    OBVIOUS
  <2>2. ModelAt(model, c.compute.quant, ChunkBytes(c))
    BY <1>10, <2>1, LoadedIsPlain, Zenon
  <2>3. pc'[r] = "loaded" /\ load'[r] = [kind |-> "model", model |-> model]
    BY <1>1, <1>10, <2>1 DEF To, Holding
  <2>4. RunAt(request[r], "loaded", c, load'[r])
    BY <1>3, <2>2, <2>3, HoldsModel
  <2>5. QED
    BY <1>7, <2>3, <2>4, Zenon DEF Lands
<1>11. QED
  BY <1>5, <1>8, <1>9, <1>10, Zenon

(* What a run that quantizes, has loaded or merges, holds.                   *)
LEMMA Holds ==
  ASSUME SetupInv, NEW r \in Runs, pc[r] \in {"quantize", "loaded", "merge"}
  PROVE  /\ ConfigAt(request[r], config[r]) /\ QuantHolds(config[r]) /\ BackendHolds(config[r])
         /\ ChunkBytes(config[r]) \in Nat
         /\ pc[r] = "quantize" =>
              /\ load[r].kind = "stream" /\ {"kind", "stream", "site"} \subseteq DOMAIN load[r]
              /\ config[r].compute.quant # "none"
              /\ StreamAt(load[r].stream, config[r].compute.quant, ChunkBytes(config[r]))
         /\ pc[r] = "loaded" =>
              /\ load[r].kind = "model"
              /\ ModelAt(load[r].model, config[r].compute.quant, ChunkBytes(config[r]))
         /\ pc[r] = "merge" =>
              /\ load[r].kind = "merge" /\ {"kind", "model", "site", "left"} \subseteq DOMAIN load[r]
              /\ config[r].compute.quant = "none" /\ config[r].model.training_adapter # <<>>
              /\ ModelAt(load[r].model, config[r].compute.quant, ChunkBytes(config[r]))
<1>1. RunAt(request[r], pc[r], config[r], load[r])
  BY Here
<1>2. pc[r] \notin {"launch", "start", "ended"} /\ pc[r] \notin {"launch", "ended"}
  OBVIOUS
<1>3. ConfigAt(request[r], config[r]) /\ QuantHolds(config[r]) /\ BackendHolds(config[r])
  BY <1>1, <1>2, Zenon DEF RunAt
<1>4. ChunkBytes(config[r]) \in Nat
  BY <1>3, ThresholdBytes
<1>5. QED
  BY <1>1, <1>3, <1>4, Zenon DEF RunAt

LEMMA QuantizeNextLands ==
  ASSUME SetupInv, NEW r \in Runs, QuantizeNext(r)
  PROVE  Lands(r)
<1> DEFINE c == config[r]
           limit == ChunkBytes(c)
           next == QuantizeSite(load[r].stream, AllBaseLinears[load[r].site], limit)
<1>1. r \in DOMAIN pc /\ r \in DOMAIN load
  BY Here
<1>2. pc[r] = "quantize" /\ config' = config
      /\ (next = <<>> => End(r))
      /\ (next # <<>> => /\ Holding(r, [load[r] EXCEPT !.site = @ + 1, !.stream = next[1]])
                         /\ pc' = pc)
  BY Zenon DEF QuantizeNext
<1>3. /\ ConfigAt(request[r], c) /\ QuantHolds(c) /\ BackendHolds(c) /\ limit \in Nat
      /\ load[r].kind = "stream" /\ {"kind", "stream", "site"} \subseteq DOMAIN load[r]
      /\ c.compute.quant # "none" /\ StreamAt(load[r].stream, c.compute.quant, limit)
  <2>1. pc[r] \in {"quantize", "loaded", "merge"}
    BY <1>2
  <2>2. QED
    BY <1>2, <2>1, Holds, Zenon
<1>4. config'[r] = c
  BY <1>2
<1>5. CASE next = <<>>
  BY <1>2, <1>5, Ends
<1>6. CASE next # <<>>
  <2>1. StreamAt(next[1], c.compute.quant, limit)
    <3>1. limit \in Nat /\ c.compute.quant # "none"
      BY <1>3
    <3>2. StreamAt(load[r].stream, c.compute.quant, limit)
      BY <1>3
    <3> HIDE DEF c, limit
    <3>3. QED
      BY <1>6, <3>1, <3>2, QuantizedSite
  <2>2. PICK stream : stream = next[1]
    OBVIOUS
  <2> HIDE DEF next, limit, c
  <2>3. pc'[r] = "quantize" /\ load'[r] = [load[r] EXCEPT !.site = @ + 1, !.stream = stream]
    BY <1>1, <1>2, <1>6, <2>2 DEF Holding
  <2>4. /\ load'[r].kind = "stream" /\ {"kind", "stream", "site"} \subseteq DOMAIN load'[r]
        /\ load'[r].stream = stream
    BY <1>3, <2>3
  <2>5. StreamAt(load'[r].stream, c.compute.quant, ChunkBytes(c))
    BY <2>1, <2>2, <2>4, Zenon DEF limit
  <2>6. RunAt(request[r], "quantize", c, load'[r])
    BY <1>3, <2>4, <2>5, HoldsStream
  <2>7. QED
    BY <1>4, <2>3, <2>6, Zenon DEF Lands
<1>7. QED
  BY <1>5, <1>6

LEMMA QuantizeDoneLands ==
  ASSUME SetupInv, NEW r \in Runs, QuantizeDone(r)
  PROVE  Lands(r)
<1> DEFINE c == config[r]
           applied == ApplyRest(load[r].stream, Dispatch(c)[2])
<1>1. r \in DOMAIN pc /\ r \in DOMAIN load
  BY Here
<1>2. pc[r] = "quantize" /\ config' = config
      /\ (applied = <<>> => End(r))
      /\ (applied # <<>> => /\ To(r, "loaded")
                            /\ Holding(r, [kind |-> "model", model |-> NoGrad(applied[1])]))
  BY Zenon DEF QuantizeDone
<1>3. /\ ConfigAt(request[r], c) /\ QuantHolds(c) /\ BackendHolds(c)
      /\ StreamAt(load[r].stream, c.compute.quant, ChunkBytes(c))
  <2>1. pc[r] \in {"quantize", "loaded", "merge"}
    BY <1>2
  <2>2. QED
    BY <1>2, <2>1, Holds, Zenon
<1>4. config'[r] = c
  BY <1>2
<1>5. CASE applied = <<>>
  BY <1>2, <1>5, Ends
<1>6. CASE applied # <<>>
  <2>1. ModelAt(NoGrad(applied[1]), c.compute.quant, ChunkBytes(c))
    BY <1>3, <1>6, AppliedRest, Zenon
  <2> HIDE DEF applied, c
  <2>2. PICK model : model = NoGrad(applied[1])
    OBVIOUS
  <2>3. pc'[r] = "loaded" /\ load'[r] = [kind |-> "model", model |-> model]
    BY <1>1, <1>2, <1>6, <2>2 DEF To, Holding
  <2>4. ModelAt(model, c.compute.quant, ChunkBytes(c))
    BY <2>1, <2>2, Zenon
  <2>5. RunAt(request[r], "loaded", c, load'[r])
    BY <1>3, <2>3, <2>4, HoldsModel
  <2>6. QED
    BY <1>4, <2>3, <2>5, Zenon DEF Lands
<1>7. QED
  BY <1>5, <1>6

LEMMA NoAdapterLands ==
  ASSUME SetupInv, NEW r \in Runs, NoAdapter(r)
  PROVE  Lands(r)
<1>1. pc'[r] = "ready" /\ config' = config /\ load' = load /\ pc[r] = "loaded"
  BY Here DEF NoAdapter, To
<1>2. RunAt(request[r], "loaded", config[r], load[r])
  BY <1>1, Here
<1>3. /\ "loaded" # "launch" /\ "loaded" # "start" /\ "loaded" # "ended" /\ "loaded" # "quantize"
      /\ "loaded" # "merge" /\ "ready" # "quantize" /\ "ready" # "merge" /\ "ready" # "loaded"
      /\ "model" # "stream" /\ "model" # "merge" /\ "ready" \in {"loaded", "ready"}
      /\ "loaded" \notin {"launch", "start", "ended"} /\ "loaded" \notin {"launch", "ended"}
  OBVIOUS
<1>4. RunAt(request[r], "ready", config[r], load[r])
  BY <1>2, <1>3, Zenon DEF RunAt
<1>5. QED
  BY <1>1, <1>4, Zenon DEF Lands

LEMMA OpenAdapterLands ==
  ASSUME SetupInv, NEW r \in Runs, OpenAdapter(r)
  PROVE  Lands(r)
<1>1. r \in DOMAIN pc /\ r \in DOMAIN load
  BY Here
<1>2. /\ pc[r] = "loaded" /\ config' = config /\ config[r].model.training_adapter # <<>>
      /\ \/ End(r)
         \/ \E sites : /\ To(r, "merge")
                       /\ Holding(r, [kind |-> "merge", model |-> load[r].model, site |-> 1, left |-> sites])
  BY Zenon DEF OpenAdapter
<1>3. /\ ConfigAt(request[r], config[r]) /\ QuantHolds(config[r]) /\ BackendHolds(config[r])
      /\ ModelAt(load[r].model, config[r].compute.quant, ChunkBytes(config[r]))
  <2>1. pc[r] \in {"quantize", "loaded", "merge"}
    BY <1>2
  <2>2. QED
    BY <1>2, <2>1, Holds, Zenon
<1>4. CASE End(r)
  BY <1>4, Ends
<1>5. CASE ~End(r)
  <2>1. PICK sites : /\ To(r, "merge")
                     /\ Holding(r, [kind |-> "merge", model |-> load[r].model, site |-> 1, left |-> sites])
    BY <1>2, <1>5, Zenon
  <2>2. pc'[r] = "merge"
        /\ load'[r] = [kind |-> "merge", model |-> load[r].model, site |-> 1, left |-> sites]
    BY <1>1, <2>1 DEF To, Holding
  <2>3. /\ load'[r].kind = "merge" /\ {"kind", "model", "site", "left"} \subseteq DOMAIN load'[r]
        /\ load'[r].model = load[r].model
    BY <2>2
  <2>4. config[r].compute.quant = "none"
    BY <1>2, <1>3, Zenon DEF QuantHolds
  <2>5. ModelAt(load'[r].model, config[r].compute.quant, ChunkBytes(config[r]))
    BY <1>3, <2>3, Zenon
  <2>6. RunAt(request[r], "merge", config[r], load'[r])
    BY <1>2, <1>3, <2>3, <2>4, <2>5, HoldsMerge
  <2>7. config'[r] = config[r]
    BY <1>2
  <2>8. QED
    BY <2>2, <2>6, <2>7, Zenon DEF Lands
<1>6. QED
  BY <1>4, <1>5

LEMMA MergeNextLands ==
  ASSUME SetupInv, NEW r \in Runs, MergeNext(r)
  PROVE  Lands(r)
<1> DEFINE c == config[r]
           path == AllBaseLinears[load[r].site]
           base == load[r].model.bases[path]
<1>1. r \in DOMAIN pc /\ r \in DOMAIN load
  BY Here
<1>2. /\ pc[r] = "merge" /\ config' = config
      /\ \/ End(r)
         \/ /\ pc' = pc
            /\ \/ Holding(r, [load[r] EXCEPT !.site = @ + 1])
               \/ \E named, site :
                    Holding(r, [load[r] EXCEPT !.site = @ + 1, !.left = @ \ named,
                                               !.model.bases[path] = MergedLinear(base, site)])
  BY Zenon DEF MergeNext
<1>3. /\ ConfigAt(request[r], c) /\ QuantHolds(c) /\ BackendHolds(c)
      /\ load[r].kind = "merge" /\ {"kind", "model", "site", "left"} \subseteq DOMAIN load[r]
      /\ c.compute.quant = "none" /\ c.model.training_adapter # <<>>
      /\ ModelAt(load[r].model, c.compute.quant, ChunkBytes(c))
  <2>1. pc[r] \in {"quantize", "loaded", "merge"}
    BY <1>2
  <2>2. QED
    BY <1>2, <2>1, Holds, Zenon
<1>4. config'[r] = c
  BY <1>2
<1>5. ASSUME pc' = pc, NEW model, ModelAt(model, c.compute.quant, ChunkBytes(c)),
             load'[r].kind = "merge", {"kind", "model", "site", "left"} \subseteq DOMAIN load'[r],
             load'[r].model = model
      PROVE  Lands(r)
  <2> HIDE DEF c
  <2>1. ModelAt(load'[r].model, c.compute.quant, ChunkBytes(c))
    BY <1>5, Zenon
  <2>2. RunAt(request[r], "merge", c, load'[r])
    BY <1>3, <1>5, <2>1, HoldsMerge
  <2>3. pc'[r] = "merge"
    BY <1>2, <1>5
  <2>4. QED
    BY <1>4, <2>2, <2>3, Zenon DEF Lands
<1>6. CASE End(r)
  BY <1>6, Ends
<1>7. CASE pc' = pc /\ Holding(r, [load[r] EXCEPT !.site = @ + 1])
  <2> HIDE DEF c
  <2>1. load'[r] = [load[r] EXCEPT !.site = @ + 1]
    BY <1>1, <1>7 DEF Holding
  <2>2. /\ load'[r].kind = "merge" /\ {"kind", "model", "site", "left"} \subseteq DOMAIN load'[r]
        /\ load'[r].model = load[r].model
    BY <1>3, <2>1
  <2>3. QED
    BY <1>3, <1>5, <1>7, <2>2
<1>8. ASSUME pc' = pc, NEW named, NEW site,
             Holding(r, [load[r] EXCEPT !.site = @ + 1, !.left = @ \ named,
                                        !.model.bases[path] = MergedLinear(base, site)])
      PROVE  Lands(r)
  <2> DEFINE model == [load[r].model EXCEPT !.bases[path] = MergedLinear(base, site)]
  <2>1. ModelAt(model, c.compute.quant, ChunkBytes(c))
    <3>1. ModelAt(load[r].model, "none", ChunkBytes(c))
      BY <1>3, Zenon
    <3>2. ModelAt(model, "none", ChunkBytes(c))
      BY <3>1, MergedModel, Zenon
    <3>3. QED
      BY <1>3, <3>2, Zenon
  <2> HIDE DEF c, path, base
  <2>2. load'[r] = [load[r] EXCEPT !.site = @ + 1, !.left = @ \ named,
                                   !.model.bases[path] = MergedLinear(base, site)]
    BY <1>1, <1>8 DEF Holding
  <2>3. /\ load'[r].kind = "merge" /\ {"kind", "model", "site", "left"} \subseteq DOMAIN load'[r]
        /\ load'[r].model = model
    BY <1>3, <2>2
  <2> HIDE DEF model
  <2>4. QED
    BY <1>5, <1>8, <2>1, <2>3
<1>9. QED
  BY <1>2, <1>6, <1>7, <1>8, Zenon

LEMMA MergeDoneLands ==
  ASSUME SetupInv, NEW r \in Runs, MergeDone(r)
  PROVE  Lands(r)
<1>1. r \in DOMAIN pc /\ r \in DOMAIN load
  BY Here
<1>2. /\ pc[r] = "merge" /\ config' = config
      /\ \/ End(r)
         \/ To(r, "ready") /\ Holding(r, [kind |-> "model", model |-> load[r].model])
  BY Zenon DEF MergeDone
<1>3. /\ ConfigAt(request[r], config[r]) /\ QuantHolds(config[r]) /\ BackendHolds(config[r])
      /\ ModelAt(load[r].model, config[r].compute.quant, ChunkBytes(config[r]))
  <2>1. pc[r] \in {"quantize", "loaded", "merge"}
    BY <1>2
  <2>2. QED
    BY <1>2, <2>1, Holds, Zenon
<1>4. CASE End(r)
  BY <1>4, Ends
<1>5. CASE To(r, "ready") /\ Holding(r, [kind |-> "model", model |-> load[r].model])
  <2>1. /\ pc'[r] = "ready" /\ config'[r] = config[r]
        /\ load'[r] = [kind |-> "model", model |-> load[r].model]
    BY <1>1, <1>2, <1>5 DEF To, Holding
  <2>2. RunAt(request[r], "ready", config[r], load'[r])
    BY <1>3, <2>1, HoldsModel
  <2>3. QED
    BY <2>1, <2>2, Zenon DEF Lands
<1>6. QED
  BY <1>2, <1>4, <1>5

(* A step of a run changes nothing of another.                               *)
LEMMA OthersStay ==
  ASSUME SetupInv, NEW r \in Runs,
         \/ Launch(r) \/ Validate(r) \/ EncodeWarm(r) \/ EncodeMiss(r) \/ Fetching(r)
         \/ EncodeLoad(r) \/ EncodeRead(r) \/ EncodeDone(r) \/ EncodeFails(r)
         \/ OpenBase(r) \/ QuantizeNext(r) \/ QuantizeDone(r)
         \/ NoAdapter(r) \/ OpenAdapter(r) \/ MergeNext(r) \/ MergeDone(r)
         \/ Stop(r)
  PROVE  /\ request' = request
         /\ DOMAIN pc' = Runs /\ DOMAIN config' = Runs /\ DOMAIN load' = Runs
         /\ \A q \in Runs \ {r} : pc'[q] = pc[q] /\ config'[q] = config[q] /\ load'[q] = load[q]
<1>1. request' = request
  BY DEF Launch, Validate, EncodeWarm, EncodeMiss, Fetching, EncodeLoad, EncodeRead, EncodeDone,
     EncodeFails, OpenBase, QuantizeNext, QuantizeDone, NoAdapter, OpenAdapter, MergeNext,
     MergeDone, Stop
<1>2. config' = config \/ \E c : config' = [config EXCEPT ![r] = c]
  BY DEF Launch, Validate, EncodeWarm, EncodeMiss, Fetching, EncodeLoad, EncodeRead, EncodeDone,
     EncodeFails, OpenBase, QuantizeNext, QuantizeDone, NoAdapter, OpenAdapter, MergeNext,
     MergeDone, Stop
<1>3. /\ pc' = pc \/ \E p : pc' = [pc EXCEPT ![r] = p]
      /\ load' = load \/ \E h : load' = [load EXCEPT ![r] = h]
  <2>1. \A p : To(r, p) => pc' = [pc EXCEPT ![r] = p]
    BY Zenon DEF To
  <2>2. \A h : Holding(r, h) => load' = [load EXCEPT ![r] = h]
    BY Zenon DEF Holding
  <2>3. End(r) => To(r, "ended") /\ Holding(r, Nothing)
    BY Zenon DEF End
  <2>4. CASE Launch(r) \/ Validate(r)
    BY <2>1, <2>4, Zenon DEF Launch, Validate
  <2>5. CASE EncodeWarm(r) \/ EncodeMiss(r) \/ Fetching(r)
    BY <2>1, <2>5, Zenon DEF EncodeWarm, EncodeMiss, Fetching
  <2>6. CASE EncodeLoad(r)
    BY <2>1, <2>2, <2>3, <2>6, Zenon DEF EncodeLoad
  <2>7. CASE EncodeRead(r) \/ EncodeDone(r) \/ EncodeFails(r) \/ Stop(r)
    BY <2>1, <2>2, <2>3, <2>7, Zenon DEF EncodeRead, EncodeDone, EncodeFails, Stop
  <2>8. CASE OpenBase(r)
    BY <2>1, <2>2, <2>3, <2>8, Zenon DEF OpenBase
  <2>9. CASE QuantizeNext(r) \/ QuantizeDone(r)
    BY <2>1, <2>2, <2>3, <2>9, Zenon DEF QuantizeNext, QuantizeDone
  <2>10. CASE NoAdapter(r) \/ OpenAdapter(r)
    BY <2>1, <2>2, <2>3, <2>10, Zenon DEF NoAdapter, OpenAdapter
  <2>11. CASE MergeNext(r)
    BY <2>1, <2>2, <2>3, <2>11, Zenon DEF MergeNext
  <2>12. CASE MergeDone(r)
    BY <2>1, <2>2, <2>3, <2>12, Zenon DEF MergeDone
  <2>13. QED
    BY <2>4, <2>5, <2>6, <2>7, <2>8, <2>9, <2>10, <2>11, <2>12, Zenon
<1>4. \A f, x : /\ DOMAIN [f EXCEPT ![r] = x] = DOMAIN f
                /\ \A q \in DOMAIN f \ {r} : [f EXCEPT ![r] = x][q] = f[q]
  OBVIOUS
<1>5. DOMAIN pc = Runs /\ DOMAIN config = Runs /\ DOMAIN load = Runs
  BY Zenon DEF SetupInv
<1>6. DOMAIN pc' = Runs /\ \A q \in Runs \ {r} : pc'[q] = pc[q]
  BY <1>3, <1>4, <1>5, Zenon
<1>7. DOMAIN config' = Runs /\ \A q \in Runs \ {r} : config'[q] = config[q]
  BY <1>2, <1>4, <1>5, Zenon
<1>8. DOMAIN load' = Runs /\ \A q \in Runs \ {r} : load'[q] = load[q]
  BY <1>3, <1>4, <1>5, Zenon
<1>9. QED
  BY <1>1, <1>6, <1>7, <1>8, Zenon

LEMMA SetupInit == Init => SetupInv
<1> SUFFICES ASSUME Init
             PROVE  SetupInv
  OBVIOUS
<1>1. DOMAIN pc = Runs /\ DOMAIN config = Runs /\ DOMAIN load = Runs
  BY DEF Init
<1>2. ASSUME NEW r \in Runs
      PROVE  Legible(request[r]) /\ RunAt(request[r], pc[r], config[r], load[r])
  <2>1. request[r] \in Requests[r]
    BY DEF Init
  <2>2. Legible(request[r])
    BY <2>1, RequestsAssumption, Zenon DEF Legible
  <2>3. pc[r] = "launch" /\ load[r] = Nothing
    BY DEF Init
  <2>4. load[r].kind = "nothing"
    BY <2>3 DEF Nothing
  <2>5. RunAt(request[r], pc[r], config[r], load[r])
    BY <2>3, <2>4, HoldsNoBase
  <2>6. QED
    BY <2>2, <2>5
<1>3. QED
  BY <1>1, <1>2, Zenon DEF SetupInv

LEMMA SetupStep ==
  ASSUME SetupInv, [Next]_vars
  PROVE  SetupInv'
<1>1. CASE UNCHANGED vars
  BY <1>1, Zenon DEF vars, SetupInv
<1>2. ASSUME NEW r \in Runs,
             \/ Launch(r) \/ Validate(r) \/ EncodeWarm(r) \/ EncodeMiss(r) \/ Fetching(r)
             \/ EncodeLoad(r) \/ EncodeRead(r) \/ EncodeDone(r) \/ EncodeFails(r)
             \/ OpenBase(r) \/ QuantizeNext(r) \/ QuantizeDone(r)
             \/ NoAdapter(r) \/ OpenAdapter(r) \/ MergeNext(r) \/ MergeDone(r)
             \/ Stop(r)
      PROVE  SetupInv'
  <2>1. Lands(r)
    <3>1. CASE Launch(r)
      BY <3>1, LaunchLands
    <3>2. CASE Validate(r)
      BY <3>2, ValidateLands
    <3>3. CASE \/ EncodeWarm(r) \/ EncodeMiss(r) \/ Fetching(r)
               \/ EncodeLoad(r) \/ EncodeRead(r) \/ EncodeDone(r) \/ EncodeFails(r)
      BY <3>3, EncodeLands
    <3>4. CASE OpenBase(r)
      BY <3>4, OpenBaseLands
    <3>5. CASE QuantizeNext(r)
      BY <3>5, QuantizeNextLands
    <3>6. CASE QuantizeDone(r)
      BY <3>6, QuantizeDoneLands
    <3>7. CASE NoAdapter(r)
      BY <3>7, NoAdapterLands
    <3>8. CASE OpenAdapter(r)
      BY <3>8, OpenAdapterLands
    <3>9. CASE MergeNext(r)
      BY <3>9, MergeNextLands
    <3>10. CASE MergeDone(r)
      BY <3>10, MergeDoneLands
    <3>11. CASE Stop(r)
      BY <3>11, Ends, Zenon DEF Stop
    <3>12. QED
      BY <1>2, <3>1, <3>2, <3>3, <3>4, <3>5, <3>6, <3>7, <3>8, <3>9, <3>10, <3>11, Zenon
  <2>2. /\ request' = request
        /\ DOMAIN pc' = Runs /\ DOMAIN config' = Runs /\ DOMAIN load' = Runs
        /\ \A q \in Runs \ {r} : pc'[q] = pc[q] /\ config'[q] = config[q] /\ load'[q] = load[q]
    BY <1>2, OthersStay
  <2>3. ASSUME NEW q \in Runs
        PROVE  Legible(request'[q]) /\ RunAt(request'[q], pc'[q], config'[q], load'[q])
    <3>1. Legible(request[q]) /\ RunAt(request[q], pc[q], config[q], load[q])
      BY Here
    <3>2. CASE q = r
      BY <2>1, <2>2, <3>1, <3>2, Zenon DEF Lands
    <3>3. CASE q # r
      BY <2>2, <3>1, <3>3, Zenon
    <3>4. QED
      BY <3>2, <3>3
  <2>4. QED
    BY <2>2, <2>3, Zenon DEF SetupInv
<1>3. QED
  BY <1>1, <1>2, Zenon DEF Next

(* Every run has passed the checks of where it is, with its configuration    *)
(* the last word of its layers, and a model it holds is of linears plain or  *)
(* in whole chunks under the threshold, one of them quantized exactly if a   *)
(* quantization was asked for (DiffusionTrainer::train; the loaders of       *)
(* diffusion_trainer.rs).                                                    *)
THEOREM SetupInvariant == Spec => []SetupInv
<1>1. SetupInv /\ [Next]_vars => SetupInv'
  BY SetupStep
<1>2. QED
  BY <1>1, SetupInit, PTL DEF Spec

LEMMA WiredRun ==
  ASSUME SetupInv
  PROVE  OnlyWiredRunsLoad
<1> SUFFICES ASSUME NEW r \in Runs
             PROVE  LET asked(b, k) == LastWord(request[r], b, k)
                    IN  /\ pc[r] \notin {"launch", "start", "ended"} =>
                             Dispatch(config[r]) = <<asked("compute", "backend"), asked("compute", "precision")>>
                        /\ load[r].kind \in {"model", "merge"} =>
                             (\E p \in DOMAIN load[r].model.bases : load[r].model.bases[p].arm = "Quant")
                               <=> asked("compute", "quant") # "none"
                        /\ load[r].kind = "merge" =>
                             /\ asked("model", "training_adapter") # <<>>
                             /\ \A p \in DOMAIN load[r].model.bases : load[r].model.bases[p].arm = "Plain"
  BY Zenon DEF OnlyWiredRunsLoad
<1> DEFINE c == config[r]
           q == request[r]
           bases == load[r].model.bases
<1>1. RunAt(q, pc[r], c, load[r])
  BY Here
<1>2. pc[r] \notin {"launch", "ended"} =>
        /\ c.compute.backend = LastWord(q, "compute", "backend")
        /\ c.compute.precision = LastWord(q, "compute", "precision")
        /\ c.compute.quant = LastWord(q, "compute", "quant")
        /\ c.model.training_adapter = LastWord(q, "model", "training_adapter")
        /\ c.compute.backend \in Backends /\ c.compute.precision \in Precisions
  BY <1>1, Zenon DEF RunAt, ConfigAt
<1>3. pc[r] \notin {"launch", "start", "ended"} => BackendHolds(c)
  BY <1>1, Zenon DEF RunAt
<1>4. load[r].kind \in {"model", "merge"} =>
        /\ pc[r] \notin {"launch", "ended"}
        /\ BasesAt(bases, c.compute.quant, ChunkBytes(c))
  <2>1. CASE load[r].kind = "model"
    <3>1. pc[r] \in {"loaded", "ready"} /\ BasesAt(bases, c.compute.quant, ChunkBytes(c))
      BY <1>1, <2>1, Zenon DEF RunAt, ModelAt
    <3>2. pc[r] \notin {"launch", "ended"}
      BY <3>1
    <3>3. QED
      BY <3>1, <3>2
  <2>2. CASE load[r].kind = "merge"
    <3>1. pc[r] = "merge" /\ BasesAt(bases, c.compute.quant, ChunkBytes(c))
      BY <1>1, <2>2, Zenon DEF RunAt, ModelAt
    <3>2. pc[r] \notin {"launch", "ended"}
      BY <3>1
    <3>3. QED
      BY <3>1, <3>2
  <2>3. QED
    BY <2>1, <2>2
<1>5. load[r].kind = "merge" =>
        c.compute.quant = "none" /\ c.model.training_adapter # <<>>
  BY <1>1, Zenon DEF RunAt
<1> HIDE DEF c, q, bases
<1>6. pc[r] \notin {"launch", "start", "ended"} =>
        Dispatch(c) = <<LastWord(q, "compute", "backend"), LastWord(q, "compute", "precision")>>
  <2> SUFFICES ASSUME pc[r] \notin {"launch", "start", "ended"}
               PROVE  Dispatch(c) = <<LastWord(q, "compute", "backend"), LastWord(q, "compute", "precision")>>
    OBVIOUS
  <2>1. pc[r] \notin {"launch", "ended"}
    OBVIOUS
  <2>2. Dispatch(c) = <<c.compute.backend, c.compute.precision>>
    BY <1>2, <1>3, <2>1, CheckedArm
  <2>3. QED
    BY <1>2, <2>1, <2>2, Zenon
<1>7. load[r].kind \in {"model", "merge"} =>
        ((\E p \in DOMAIN bases : bases[p].arm = "Quant") <=> LastWord(q, "compute", "quant") # "none")
  BY <1>2, <1>4, Zenon DEF BasesAt
<1>8. load[r].kind = "merge" =>
        /\ LastWord(q, "model", "training_adapter") # <<>>
        /\ \A p \in DOMAIN bases : bases[p].arm = "Plain"
  <2> SUFFICES ASSUME load[r].kind = "merge"
               PROVE  /\ LastWord(q, "model", "training_adapter") # <<>>
                      /\ \A p \in DOMAIN bases : bases[p].arm = "Plain"
    OBVIOUS
  <2>1. pc[r] \notin {"launch", "ended"} /\ BasesAt(bases, c.compute.quant, ChunkBytes(c))
    BY <1>4
  <2>2. LastWord(q, "model", "training_adapter") # <<>>
    BY <1>2, <1>5, <2>1, Zenon
  <2>3. ~ \E p \in DOMAIN Dims : bases[p].arm = "Quant"
    BY <1>5, <2>1, Zenon DEF BasesAt
  <2>4. DOMAIN bases = DOMAIN Dims /\ \A p \in DOMAIN Dims : bases[p].arm \in {"Plain", "Quant"}
    BY <2>1, Zenon DEF BasesAt, BaseAt
  <2>5. QED
    BY <2>2, <2>3, <2>4
<1>9. QED
  BY <1>6, <1>7, <1>8, Zenon DEF c, q, bases

(* A run past the checks finds an arm of the dispatch, never a panic, on the *)
(* backend and in the precision its layers asked for last, and holds a       *)
(* quantized base exactly if they asked for one, which a merge never meets   *)
(* (train's checks, the match on backend and precision, the Quant arm of     *)
(* merge_training_adapter), for any number of runs and any layers of         *)
(* configuration, of any spelling.                                           *)
THEOREM OnlyWiredLoad == Spec => []OnlyWiredRunsLoad
BY SetupInvariant, WiredRun, PTL

LEMMA FittingChunks ==
  ASSUME SetupInv
  PROVE  ChunksFit
<1>1. ASSUME NEW r \in Runs, load[r].kind = "model", NEW p \in DOMAIN load[r].model.bases
      PROVE  SiteFits(load[r].model.bases[p], ChunkBytes(config[r]))
  <2> DEFINE base == load[r].model.bases[p]
             limit == ChunkBytes(config[r])
  <2>1. RunAt(request[r], pc[r], config[r], load[r])
    BY Here
  <2>2. /\ pc[r] \in {"loaded", "ready"}
        /\ BasesAt(load[r].model.bases, config[r].compute.quant, limit)
    BY <1>1, <2>1, Zenon DEF RunAt, ModelAt
  <2>3. limit \in Nat
    <3>1. pc[r] \notin {"launch", "ended"}
      BY <2>2
    <3>2. ConfigAt(request[r], config[r])
      BY <2>1, <3>1, Zenon DEF RunAt
    <3>3. QED
      BY <3>2, ThresholdBytes
  <2>4. BaseAt(base, limit)
    BY <1>1, <2>2, Zenon DEF BasesAt
  <2> HIDE DEF base, limit
  <2>5. CASE base.arm = "Quant"
    <3>1. PICK m \in Nat, n \in Nat : Chunked(base.weight, limit, m, n)
      BY <2>4, <2>5, Zenon DEF BaseAt
    <3>2. QED
      BY <2>3, <3>1, ChunkedFits DEF base, limit
  <2>6. CASE base.arm # "Quant"
    BY <2>6, Zenon DEF SiteFits, base, limit
  <2>7. QED
    BY <2>5, <2>6
<1>2. QED
  BY <1>1, Zenon DEF ChunksFit, SiteFits

(* A quantized site dequantizes no more than the threshold at once unless a  *)
(* single row exceeds it, in chunks of sizes a row apart at most, and no     *)
(* fewer would fit (quant.rs, chunk_rows and quantize_chunked), for every    *)
(* shape of a linear, every threshold and every number of runs.              *)
THEOREM ChunksAlwaysFit == Spec => []ChunksFit
BY SetupInvariant, FittingChunks, PTL

-----------------------------------------------------------------------------
(* What the file says *)

Own(f, name, i, j) == [Elem(name, i, j) EXCEPT !.scale = OwnScale(f, name, i, j)]
DataOf(f, name) ==
  Matrix(Rows(f[name].shape), Cols(f[name].shape), LAMBDA i, j : Own(f, name, i, j))

LEMMA QuotientOfFlat ==
  ASSUME NEW c \in Nat \ {0}, NEW i \in Nat, NEW j \in 0 .. c - 1
  PROVE  (i * c + j) \div c = i
<1>1. (i * c + j) \div c \in Int /\ i * c \in Nat
  OBVIOUS
<1> DEFINE q == (i * c + j) \div c
<1>2. q * c <= i * c + j /\ i * c + j < q * c + c
  BY Z3
<1> HIDE DEF q
<1>3. q = i
  <2>1. q < i => q * c + c <= i * c
    BY <1>1, Z3 DEF q
  <2>2. q > i => i * c + c <= q * c
    BY <1>1, Z3 DEF q
  <2>3. q \in Int /\ q * c \in Int
    BY <1>1 DEF q
  <2>4. QED
    BY <1>1, <1>2, <2>1, <2>2, <2>3
<1>4. QED
  BY <1>3 DEF q

(* The scale of the flat index is the one of the row, or of the entry.       *)
LEMMA FlatScale ==
  ASSUME NEW m \in Nat \ {0}, NEW c \in Nat, NEW i \in Nat, NEW j \in Nat
  PROVE  /\ i \in 1 .. m /\ j \in 1 .. c =>
              (((i - 1) * c + j - 1) \div ((m * c) \div m)) + 1 = i
         /\ i = 1 /\ j \in 1 .. m => (((i - 1) * m + j - 1) \div ((1 * m) \div m)) + 1 = j
<1>1. ASSUME i \in 1 .. m /\ j \in 1 .. c
      PROVE  (((i - 1) * c + j - 1) \div ((m * c) \div m)) + 1 = i
  <2>1. m * c = c * m + 0 /\ c \in Nat \ {0}
    BY <1>1, Z3
  <2>2. (m * c) \div m = c
    <3>1. (c * m + 0) \div m = c
      BY QuotientOfFlat
    <3>2. QED
      BY <2>1, <3>1, Zenon
  <2>3. ((i - 1) * c + j - 1) \div c = i - 1
    <3>1. PICK a \in Nat, b \in 0 .. c - 1 : a = i - 1 /\ b = j - 1
      BY <1>1
    <3>2. (a * c + b) \div c = a
      BY <2>1, QuotientOfFlat
    <3>3. (i - 1) * c + j - 1 = a * c + b
      <4>1. a * c \in Int
        BY <2>1
      <4>2. (i - 1) * c = a * c
        BY <3>1
      <4>3. QED
        BY <1>1, <3>1, <4>1, <4>2
    <3>4. QED
      BY <3>1, <3>2, <3>3, Zenon
  <2>4. i - 1 + 1 = i
    BY <1>1
  <2>5. QED
    BY <2>2, <2>3, <2>4, Zenon
<1>2. ASSUME i = 1 /\ j \in 1 .. m
      PROVE  (((i - 1) * m + j - 1) \div ((1 * m) \div m)) + 1 = j
  <2>1. (1 * m) \div m = 1
    <3>1. (1 * m + 0) \div m = 1
      BY QuotientOfFlat
    <3>2. QED
      BY <3>1
  <2>2. ((i - 1) * m + j - 1) \div 1 = j - 1
    BY <1>2
  <2>3. j - 1 + 1 = j
    BY <1>2
  <2>4. QED
    BY <2>1, <2>2, <2>3, Zenon
<1>3. QED
  BY <1>1, <1>2, Zenon

LEMMA SmallShape ==
  ASSUME NEW shape \in Seq(Nat), shape # <<>>, Len(shape) <= 2, shape[1] # 0
  PROVE  /\ shape[1] \in Nat \ {0} /\ Cols(shape) \in Nat
         /\ Len(shape) = 2 => Rows(shape) = shape[1] /\ Cols(shape) = shape[2]
         /\ Len(shape) # 2 => Rows(shape) = 1 /\ Cols(shape) = shape[1]
<1>1. Len(shape) \in 1 .. 2
  <2>1. Len(shape) # 0
    BY EmptySeq, Zenon
  <2>2. Len(shape) \in Nat
    OBVIOUS
  <2>3. \A l \in Nat : l # 0 /\ l <= 2 => l \in 1 .. 2
    OBVIOUS
  <2>4. QED
    BY <2>1, <2>2, <2>3, Zenon
<1>2. 1 \in 1 .. Len(shape)
  BY <1>1
<1>3. shape[1] \in Nat
  BY <1>2
<1>4. Cols(shape) = shape[Len(shape)] /\ Rows(shape) = IF Len(shape) = 2 THEN shape[1] ELSE 1
  BY Zenon DEF Cols, Rows, Last
<1>5. shape[Len(shape)] \in Nat
  BY <1>1
<1>6. QED
  BY <1>1, <1>3, <1>4, <1>5

LEMMA ScaleOfFlat ==
  ASSUME NEW f, NEW name, f[name].shape \in Seq(Nat), Len(f[name].shape) <= 2,
         f[name].dtype = "F8_E4M3", ScaleFits(f, name),
         NEW i \in 1 .. Rows(f[name].shape), NEW j \in 1 .. Cols(f[name].shape)
  PROVE  OwnScale(f, name, i, j) =
           IF f[ScaleName(name)].shape \in {<<>>, <<1>>} THEN 1
           ELSE (((i - 1) * Cols(f[name].shape) + j - 1)
                  \div ((Rows(f[name].shape) * Cols(f[name].shape)) \div Cols(f[ScaleName(name)].shape))) + 1
<1> DEFINE shape == f[name].shape
           sshape == f[ScaleName(name)].shape
           Flat(m, c, n) == (((i - 1) * c + j - 1) \div ((m * c) \div n)) + 1
<1>1. CASE sshape \in {<<>>, <<1>>}
  BY <1>1, Zenon DEF OwnScale
<1>2. CASE sshape \notin {<<>>, <<1>>}
  <2>1. shape # <<>> /\ sshape = <<shape[1]>> /\ shape[1] # 0
    BY <1>2, Zenon DEF ScaleFits
  <2>2. OwnScale(f, name, i, j) = IF Len(shape) = 2 THEN i ELSE j
    BY <1>2, Zenon DEF OwnScale
  <2>3. PICK m \in Nat \ {0} : m = shape[1]
    BY <2>1, SmallShape, Zenon
  <2>4. PICK c \in Nat : c = Cols(shape)
    BY <2>1, SmallShape, Zenon
  <2>5. Cols(sshape) = m
    <3>1. \A x : Cols(<<x>>) = x
      BY DEF Cols, Last
    <3>2. QED
      BY <2>1, <2>3, <3>1, Zenon
  <2>6. CASE Len(shape) = 2
    <3>1. Rows(shape) = m
      BY <2>1, <2>3, <2>6, SmallShape, Zenon
    <3>2. i \in 1 .. m /\ j \in 1 .. c
      BY <2>4, <3>1, Zenon
    <3>3. i \in Nat /\ j \in Nat
      BY <3>2
    <3>4. Flat(m, c, m) = i
      BY <3>2, <3>3, FlatScale, Zenon
    <3>5. OwnScale(f, name, i, j) = Flat(m, c, m)
      BY <2>2, <2>6, <3>4, Zenon
    <3>6. QED
      BY <1>2, <2>4, <2>5, <3>1, <3>5, Zenon
  <2>7. CASE Len(shape) # 2
    <3>1. Rows(shape) = 1 /\ c = m
      BY <2>1, <2>3, <2>4, <2>7, SmallShape, Zenon
    <3>2. i \in 1 .. 1 /\ j \in 1 .. m
      BY <2>4, <3>1, Zenon
    <3>3. i = 1 /\ i \in Nat /\ j \in Nat
      BY <3>2
    <3>4. Flat(1, m, m) = j
      BY <3>2, <3>3, FlatScale, Zenon
    <3>5. OwnScale(f, name, i, j) = Flat(1, m, m)
      BY <2>2, <2>7, <3>4, Zenon
    <3>6. QED
      BY <1>2, <2>4, <2>5, <3>1, <3>5, Zenon
  <2>8. QED
    BY <2>6, <2>7
<1>3. QED
  BY <1>1, <1>2

(* A snapshot is a tensor of the file, under a path, and each element under  *)
(* its own scale.                                                            *)
SnapshotOf(f, name, path, s) ==
  /\ {"name", "dtype", "dims", "data"} \subseteq DOMAIN s
  /\ s.name = path /\ s.dims = Len(f[name].shape)
  /\ IsMatrix(s.data, Rows(f[name].shape), Cols(f[name].shape))
  /\ \A i \in 1 .. Rows(f[name].shape) : \A j \in 1 .. Cols(f[name].shape) :
       s.data[i][j].of = name /\ s.data[i][j].at = <<i, j>>
  /\ Len(f[name].shape) <= 2 => s.data = DataOf(f, name)
  /\ s.dtype \in Floats \/ f[name].dtype = "U8"

LEMMA FieldsOfSnapshot ==
  ASSUME NEW name, NEW dtype, NEW dims, NEW data,
         NEW s, s = [name |-> name, dtype |-> dtype, dims |-> dims, data |-> data]
  PROVE  /\ {"name", "dtype", "dims", "data"} \subseteq DOMAIN s
         /\ s.name = name /\ s.dtype = dtype /\ s.dims = dims /\ s.data = data
OBVIOUS

LEMMA Rescaled ==
  ASSUME NEW of, NEW at, NEW scale, NEW block, NEW plus, NEW x,
         NEW e, e = [of |-> of, at |-> at, scale |-> scale, block |-> block, plus |-> plus],
         NEW d, d = [e EXCEPT !.scale = x]
  PROVE  /\ d = [of |-> of, at |-> at, scale |-> x, block |-> block, plus |-> plus]
         /\ e.of = of /\ e.at = at /\ d.of = of /\ d.at = at
         /\ d.scale = x /\ d.block = block /\ d.plus = plus
OBVIOUS

LEMMA ElemAt ==
  ASSUME NEW name, NEW i, NEW j
  PROVE  /\ Elem(name, i, j).of = name /\ Elem(name, i, j).at = <<i, j>>
         /\ [Elem(name, i, j) EXCEPT !.scale = 0] = Elem(name, i, j)
         /\ \A x : /\ [Elem(name, i, j) EXCEPT !.scale = x].of = name
                   /\ [Elem(name, i, j) EXCEPT !.scale = x].at = <<i, j>>
                   /\ [Elem(name, i, j) EXCEPT !.scale = x].scale = x
                   /\ [Elem(name, i, j) EXCEPT !.scale = x].block = {}
                   /\ [Elem(name, i, j) EXCEPT !.scale = x].plus = <<>>
<1>1. PICK at, block, plus : at = <<i, j>> /\ block = {} /\ plus = <<>>
  BY Zenon
<1>2. PICK e : e = Elem(name, i, j)
  OBVIOUS
<1>3. e = [of |-> name, at |-> at, scale |-> 0, block |-> block, plus |-> plus]
  BY <1>1, <1>2, Zenon DEF Elem
<1>4. ASSUME NEW x, NEW d, d = [e EXCEPT !.scale = x]
      PROVE  /\ d = [of |-> name, at |-> at, scale |-> x, block |-> block, plus |-> plus]
             /\ e.of = name /\ e.at = at /\ d.of = name /\ d.at = at
             /\ d.scale = x /\ d.block = block /\ d.plus = plus
  BY <1>3, <1>4, Rescaled
<1>5. [e EXCEPT !.scale = 0] = e /\ e.of = name /\ e.at = at
  BY <1>3, <1>4, Zenon
<1>6. QED
  BY <1>1, <1>2, <1>4, <1>5, ZenonT(60)

LEMMA SameMatrix ==
  ASSUME NEW v, NEW w, NEW m, NEW n, IsMatrix(v, m, n), IsMatrix(w, m, n),
         \A i \in 1 .. m : \A j \in 1 .. n : v[i][j] = w[i][j]
  PROVE  v = w
<1>1. ASSUME NEW i \in 1 .. m
      PROVE  v[i] = w[i]
  <2>1. v[i] = [j \in 1 .. n |-> v[i][j]] /\ w[i] = [j \in 1 .. n |-> w[i][j]]
    BY Zenon DEF IsMatrix
  <2>2. [j \in 1 .. n |-> v[i][j]] = [j \in 1 .. n |-> w[i][j]]
    BY Zenon
  <2>3. QED
    BY <2>1, <2>2, Zenon
<1>2. v = [i \in 1 .. m |-> v[i]] /\ w = [i \in 1 .. m |-> w[i]]
  BY Zenon DEF IsMatrix
<1>3. [i \in 1 .. m |-> v[i]] = [i \in 1 .. m |-> w[i]]
  BY <1>1, Zenon
<1>4. QED
  BY <1>2, <1>3, Zenon

LEMMA PlainSnapshotOf ==
  ASSUME NEW f, NEW name, f[name].shape \in Seq(Nat), f[name].dtype \in Mapped
  PROVE  SnapshotOf(f, name, name, PlainSnapshot(f, name))
<1> DEFINE s == PlainSnapshot(f, name)
           m == Rows(f[name].shape)
           n == Cols(f[name].shape)
           w == Matrix(m, n, LAMBDA i, j : Elem(name, i, j))
<1>1. /\ {"name", "dtype", "dims", "data"} \subseteq DOMAIN s
      /\ s.name = name /\ s.dtype = f[name].dtype /\ s.dims = Len(f[name].shape) /\ s.data = w
  <2>1. s = [name |-> name, dtype |-> f[name].dtype, dims |-> Len(f[name].shape), data |-> w]
    BY Zenon DEF PlainSnapshot, Snapshot
  <2> HIDE DEF s, w
  <2>2. QED
    BY <2>1, FieldsOfSnapshot
<1>0. f[name].dtype # "F8_E4M3" /\ (f[name].dtype \in Floats \/ f[name].dtype = "U8")
  BY DEF Mapped, Floats
<1>2. IsMatrix(w, m, n) /\ \A i \in 1 .. m : \A j \in 1 .. n : w[i][j] = Elem(name, i, j)
  BY Zenon DEF IsMatrix, Matrix
<1>3. /\ IsMatrix(DataOf(f, name), m, n)
      /\ \A i \in 1 .. m : \A j \in 1 .. n : DataOf(f, name)[i][j] = Own(f, name, i, j)
  BY Zenon DEF IsMatrix, Matrix, DataOf
<1>4. \A i, j : Own(f, name, i, j) = Elem(name, i, j)
  <2>1. \A i, j : OwnScale(f, name, i, j) = 0
    BY <1>0, Zenon DEF OwnScale
  <2>2. \A i, j : [Elem(name, i, j) EXCEPT !.scale = 0] = Elem(name, i, j)
    BY ElemAt
  <2>3. QED
    BY <2>1, <2>2, Zenon DEF Own
<1>5. \A i, j : Elem(name, i, j).of = name /\ Elem(name, i, j).at = <<i, j>>
  BY ElemAt
<1> HIDE DEF s, w, m, n
<1>6. w = DataOf(f, name)
  <2>1. ASSUME NEW i \in 1 .. m, NEW j \in 1 .. n
        PROVE  w[i][j] = DataOf(f, name)[i][j]
    <3>1. w[i][j] = Elem(name, i, j)
      BY <1>2, Zenon
    <3>2. DataOf(f, name)[i][j] = Own(f, name, i, j)
      BY <1>3, Zenon
    <3>3. QED
      BY <1>4, <3>1, <3>2, Zenon
  <2>2. IsMatrix(w, m, n) /\ IsMatrix(DataOf(f, name), m, n)
    BY <1>2, <1>3
  <2>3. QED
    BY <2>1, <2>2, SameMatrix
<1>7. \A i \in 1 .. m : \A j \in 1 .. n : w[i][j].of = name /\ w[i][j].at = <<i, j>>
  <2> SUFFICES ASSUME NEW i \in 1 .. m, NEW j \in 1 .. n
               PROVE  w[i][j].of = name /\ w[i][j].at = <<i, j>>
    OBVIOUS
  <2>1. w[i][j] = Elem(name, i, j)
    BY <1>2, Zenon
  <2>2. QED
    BY <1>5, <2>1, Zenon
<1>8. QED
  BY <1>0, <1>1, <1>2, <1>6, <1>7, Zenon DEF SnapshotOf, s, m, n

LEMMA DequantSnapshotOf ==
  ASSUME NEW f, NEW name, f[name].shape \in Seq(Nat), f[name].dtype = "F8_E4M3", ScaleFits(f, name)
  PROVE  SnapshotOf(f, name, name, DequantSnapshot(f, name))
<1> DEFINE s == DequantSnapshot(f, name)
           shape == f[name].shape
           m == Rows(shape)
           n == Cols(shape)
           sshape == f[ScaleName(name)].shape
           Scale(i, j) == IF sshape \in {<<>>, <<1>>} THEN 1
                          ELSE (((i - 1) * n + j - 1) \div ((m * n) \div Cols(sshape))) + 1
           El(i, j) == [Elem(name, i, j) EXCEPT !.scale = Scale(i, j)]
           w == Matrix(m, n, El)
<1>2. /\ {"name", "dtype", "dims", "data"} \subseteq DOMAIN s
      /\ s.name = name /\ s.dtype = "F32" /\ s.dims = Len(shape) /\ s.data = w
  <2>1. s = [name |-> name, dtype |-> "F32", dims |-> Len(shape), data |-> w]
    BY Zenon DEF DequantSnapshot, Snapshot
  <2> HIDE DEF s, w
  <2>2. QED
    BY <2>1, FieldsOfSnapshot
<1>3. IsMatrix(w, m, n) /\ \A i \in 1 .. m : \A j \in 1 .. n : w[i][j] = El(i, j)
  BY Zenon DEF IsMatrix, Matrix
<1>4. /\ IsMatrix(DataOf(f, name), m, n)
      /\ \A i \in 1 .. m : \A j \in 1 .. n : DataOf(f, name)[i][j] = Own(f, name, i, j)
  BY Zenon DEF IsMatrix, Matrix, DataOf
<1>5. ASSUME Len(shape) <= 2, NEW i \in 1 .. m, NEW j \in 1 .. n
      PROVE  El(i, j) = Own(f, name, i, j)
  <2>1. OwnScale(f, name, i, j) = Scale(i, j)
    BY <1>5, ScaleOfFlat
  <2> HIDE DEF Scale
  <2>2. QED
    BY <2>1, Zenon DEF Own
<1>6. \A i, j : El(i, j).of = name /\ El(i, j).at = <<i, j>>
  <2> HIDE DEF Scale
  <2>1. QED
    BY ElemAt
<1> HIDE DEF s, w, El, m, n
<1>7. Len(shape) <= 2 => w = DataOf(f, name)
  <2> SUFFICES ASSUME Len(shape) <= 2
               PROVE  w = DataOf(f, name)
    OBVIOUS
  <2>1. \A i \in 1 .. m : \A j \in 1 .. n : w[i][j] = DataOf(f, name)[i][j]
    BY <1>3, <1>4, <1>5, ZenonT(60)
  <2>2. QED
    BY <1>3, <1>4, <2>1, SameMatrix, Zenon
<1>8. s.dtype \in Floats
  BY <1>2 DEF Floats
<1>9. \A i \in 1 .. m : \A j \in 1 .. n : w[i][j].of = name /\ w[i][j].at = <<i, j>>
  <2> SUFFICES ASSUME NEW i \in 1 .. m, NEW j \in 1 .. n
               PROVE  w[i][j].of = name /\ w[i][j].at = <<i, j>>
    OBVIOUS
  <2>1. w[i][j] = El(i, j)
    BY <1>3, Zenon
  <2>2. QED
    BY <1>6, <2>1, Zenon
<1>10. QED
  BY <1>2, <1>3, <1>7, <1>8, <1>9, Zenon DEF SnapshotOf, s, m, n

(* Every snapshot of a file that is not refused is a tensor of it, and what  *)
(* has none is a scale or a marker.                                          *)
LEMMA SnapshotsOfFile ==
  ASSUME NEW f, \A name \in DOMAIN f : f[name].shape \in Seq(Nat), ~Refused(f)
  PROVE  /\ \A s \in Snapshots(f) : \E name \in DOMAIN f : SnapshotOf(f, name, name, s)
         /\ \A name \in DOMAIN f :
              \/ \E s \in Snapshots(f) : s.name = name /\ SnapshotOf(f, name, name, s)
              \/ IsFp8(f) /\ (name \in UsedScales(f) \/ Marker(name))
<1>1. CASE IsFp8(f)
  <2>1. ~Fp8Refused(f) /\ Snapshots(f) = LoadFp8Snapshots(f)
    BY <1>1, Zenon DEF Refused, Snapshots
  <2>2. \A name \in Fp8Names(f) : ScaleFits(f, name)
    BY <2>1, Zenon DEF Fp8Refused
  <2> DEFINE Kept == {n \in DOMAIN f : n \notin UsedScales(f) /\ (n \in Fp8Names(f) \/ ~Marker(n))}
             Of(name) == IF name \in Fp8Names(f) THEN DequantSnapshot(f, name) ELSE PlainSnapshot(f, name)
  <2>3. Snapshots(f) = {Of(name) : name \in Kept}
    BY <2>1, Zenon DEF LoadFp8Snapshots
  <2>4. ASSUME NEW name \in Kept
        PROVE  name \in DOMAIN f /\ SnapshotOf(f, name, name, Of(name))
    <3>1. name \in DOMAIN f /\ f[name].shape \in Seq(Nat)
      BY Zenon
    <3>2. CASE name \in Fp8Names(f)
      <4>1. f[name].dtype = "F8_E4M3" /\ ScaleFits(f, name)
        BY <2>2, <3>2, Zenon DEF Fp8Names
      <4>2. SnapshotOf(f, name, name, DequantSnapshot(f, name))
        BY <3>1, <4>1, DequantSnapshotOf
      <4>3. QED
        BY <3>1, <3>2, <4>2, Zenon
    <3>3. CASE name \notin Fp8Names(f)
      <4>1. f[name].dtype \in Mapped
        BY <2>1, <3>1, <3>3, Zenon DEF Fp8Refused
      <4>2. SnapshotOf(f, name, name, PlainSnapshot(f, name))
        BY <3>1, <4>1, PlainSnapshotOf
      <4>3. QED
        BY <3>1, <3>3, <4>2, Zenon
    <3>4. QED
      BY <3>2, <3>3
  <2> HIDE DEF Of
  <2>5. \A name \in Kept : Of(name).name = name
    BY <2>4, Zenon DEF SnapshotOf
  <2>6. \A name \in DOMAIN f : name \in Kept \/ name \in UsedScales(f) \/ Marker(name)
    BY Zenon
  <2> HIDE DEF Kept
  <2>7. QED
    BY <1>1, <2>3, <2>4, <2>5, <2>6, Zenon
<1>2. CASE ~IsFp8(f)
  <2>1. Snapshots(f) = {PlainSnapshot(f, name) : name \in DOMAIN f}
    BY <1>2, Zenon DEF Snapshots, LoadPlainSnapshots
  <2>2. \A name \in DOMAIN f : f[name].dtype \in Mapped
    BY <1>2, Zenon DEF Refused, PlainRefused
  <2>3. \A name \in DOMAIN f : SnapshotOf(f, name, name, PlainSnapshot(f, name))
    BY <2>2, PlainSnapshotOf
  <2>4. \A name \in DOMAIN f : PlainSnapshot(f, name).name = name
    BY <2>3, Zenon DEF SnapshotOf
  <2>5. QED
    BY <2>1, <2>3, <2>4, Zenon
<1>3. QED
  BY <1>1, <1>2

LEMMA SnapshotHasItsSize ==
  ASSUME NEW f, NEW name, NEW path, NEW s, SnapshotOf(f, name, path, s), f[name].shape \in Seq(Nat)
  PROVE  /\ Len(s.data) = Rows(f[name].shape)
         /\ Columns(s.data) = IF Rows(f[name].shape) = 0 THEN 0 ELSE Cols(f[name].shape)
<1>1. IsMatrix(s.data, Rows(f[name].shape), Cols(f[name].shape))
  BY Zenon DEF SnapshotOf
<1>2. Rows(f[name].shape) \in Nat /\ Cols(f[name].shape) \in Nat
  BY SizesOfShape
<1>3. QED
  BY <1>1, <1>2, MatrixSize

-----------------------------------------------------------------------------
(* What the applier finds in a file *)

(* Snapshots that are tensors of the file, each under the path "to" gives it. *)
Delivers(f, to, snapshots) ==
  /\ \A name \in DOMAIN f : f[name].shape \in Seq(Nat)
  /\ \A name, other \in DOMAIN f : to[name] = to[other] => name = other
  /\ \A s \in snapshots : \E name \in DOMAIN f : SnapshotOf(f, name, to[name], s)

(* What the applier takes for a path, once cast.                             *)
TakenFor(snapshots, path, dtype) == CastFloats(CHOOSE s \in snapshots : s.name = path, dtype)
KeysOf(snapshots) == {s.name : s \in snapshots}
FoundIn(model, snapshots) == KeysOf(snapshots) \cap Visited(model)
ParamOf(path, t) == [data |-> Stored(path, t.data), dtype |-> t.dtype, dims |-> t.dims]

(* The tensor a path is read from, if the file has one.                      *)
ReadFrom(f, to, path, name) ==
  (\E n \in DOMAIN f : to[n] = path) => name \in DOMAIN f /\ to[name] = path

(* A tensor of the file, cast.                                               *)
TensorAs(f, name, dtype, t) ==
  /\ t.dims = Len(f[name].shape)
  /\ Len(t.data) = Rows(f[name].shape)
  /\ Columns(t.data) = IF Rows(f[name].shape) = 0 THEN 0 ELSE Cols(f[name].shape)
  /\ Len(f[name].shape) <= 2 => t.data = DataOf(f, name)
  /\ f[name].dtype # "U8" => t.dtype = dtype

LEMMA Renamed ==
  ASSUME NEW f, NEW name, NEW path, NEW s, SnapshotOf(f, name, path, s), NEW other
  PROVE  SnapshotOf(f, name, other, [s EXCEPT !.name = other])
<1> DEFINE n == [s EXCEPT !.name = other]
<1>1. {"name", "dtype", "dims", "data"} \subseteq DOMAIN s
  BY Zenon DEF SnapshotOf
<1>2. /\ {"name", "dtype", "dims", "data"} \subseteq DOMAIN n
      /\ n.name = other /\ n.dtype = s.dtype /\ n.dims = s.dims /\ n.data = s.data
  BY <1>1
<1> HIDE DEF n
<1>3. SnapshotOf(f, name, other, n)
  BY <1>2, Zenon DEF SnapshotOf
<1>4. QED
  BY <1>3 DEF n

LEMMA CastTensor ==
  ASSUME NEW f, NEW name, NEW path, NEW s, SnapshotOf(f, name, path, s), NEW dtype
  PROVE  /\ CastFloats(s, dtype).dims = Len(f[name].shape)
         /\ CastFloats(s, dtype).data = s.data
         /\ f[name].dtype # "U8" => CastFloats(s, dtype).dtype = dtype
<1>1. {"name", "dtype", "dims", "data"} \subseteq DOMAIN s
      /\ (s.dtype \in Floats \/ f[name].dtype = "U8") /\ s.dims = Len(f[name].shape)
  BY Zenon DEF SnapshotOf
<1>2. CASE s.dtype \in Floats
  <2>1. CastFloats(s, dtype) = [s EXCEPT !.dtype = dtype]
    BY <1>2, Zenon DEF CastFloats
  <2>2. /\ [s EXCEPT !.dtype = dtype].dims = s.dims /\ [s EXCEPT !.dtype = dtype].data = s.data
        /\ [s EXCEPT !.dtype = dtype].dtype = dtype
    BY <1>1
  <2>3. QED
    BY <1>1, <2>1, <2>2, Zenon
<1>3. CASE s.dtype \notin Floats
  <2>1. CastFloats(s, dtype) = s
    BY <1>3, Zenon DEF CastFloats
  <2>2. QED
    BY <1>1, <1>3, <2>1, Zenon
<1>4. QED
  BY <1>2, <1>3

(* The tensor of a file behind a path is the only one.                       *)
LEMMA TakenFromFile ==
  ASSUME NEW f, NEW to, NEW snapshots, Delivers(f, to, snapshots),
         NEW path \in KeysOf(snapshots), NEW dtype,
         NEW name, ReadFrom(f, to, path, name)
  PROVE  /\ name \in DOMAIN f /\ to[name] = path
         /\ TensorAs(f, name, dtype, TakenFor(snapshots, path, dtype))
<1> DEFINE s == CHOOSE x \in snapshots : x.name = path
<1>1. s \in snapshots /\ s.name = path
  BY Zenon DEF KeysOf
<1>2. PICK n \in DOMAIN f : SnapshotOf(f, n, to[n], s)
  BY <1>1, Zenon DEF Delivers
<1>3. to[n] = path
  BY <1>1, <1>2, Zenon DEF SnapshotOf
<1>4. name \in DOMAIN f /\ to[name] = path
  BY <1>2, <1>3, Zenon DEF ReadFrom
<1>5. n = name
  BY <1>3, <1>4, Zenon DEF Delivers
<1>6. TakenFor(snapshots, path, dtype) = CastFloats(s, dtype)
  BY Zenon DEF TakenFor
<1> HIDE DEF s
<1>7. /\ CastFloats(s, dtype).dims = Len(f[name].shape) /\ CastFloats(s, dtype).data = s.data
      /\ f[name].dtype # "U8" => CastFloats(s, dtype).dtype = dtype
  BY <1>2, <1>5, CastTensor
<1>8. Len(f[name].shape) <= 2 => s.data = DataOf(f, name)
  BY <1>2, <1>5, Zenon DEF SnapshotOf
<1>9. f[name].shape \in Seq(Nat)
  BY <1>4, Zenon DEF Delivers
<1>10. /\ Len(s.data) = Rows(f[name].shape)
       /\ Columns(s.data) = IF Rows(f[name].shape) = 0 THEN 0 ELSE Cols(f[name].shape)
  BY <1>2, <1>5, <1>9, SnapshotHasItsSize
<1>11. TensorAs(f, name, dtype, CastFloats(s, dtype))
  BY <1>7, <1>8, <1>10, Zenon DEF TensorAs
<1>12. QED
  BY <1>4, <1>6, <1>11, Zenon

(* What the applier says of a model and makes of it.                         *)
LEMMA Applied ==
  ASSUME NEW model, NEW snapshots, NEW dtype
  PROVE  /\ Apply(model, snapshots, dtype).errors = {} =>
              \A p \in FoundIn(model, snapshots) : FitsAt(model, p, TakenFor(snapshots, p, dtype))
         /\ Apply(model, snapshots, dtype).missing = Visited(model) \ FoundIn(model, snapshots)
         /\ Apply(model, snapshots, dtype).unused = KeysOf(snapshots) \ Visited(model)
         /\ {"bases", "params"} \subseteq DOMAIN Apply(model, snapshots, dtype).model
         /\ DOMAIN Apply(model, snapshots, dtype).model.bases = DOMAIN model.bases
         /\ DOMAIN Apply(model, snapshots, dtype).model.params = DOMAIN model.params
         /\ \A p \in DOMAIN model.bases :
              Apply(model, snapshots, dtype).model.bases[p] =
                 IF p \in PlainSites(model) /\ Weight(p) \in FoundIn(model, snapshots)
                 THEN PlainLinear(Transpose(TakenFor(snapshots, Weight(p), dtype).data),
                                  TakenFor(snapshots, Weight(p), dtype).dtype)
                 ELSE model.bases[p]
         /\ \A p \in DOMAIN model.params :
              Apply(model, snapshots, dtype).model.params[p] =
                 IF p \in FoundIn(model, snapshots)
                 THEN ParamOf(p, TakenFor(snapshots, p, dtype)) ELSE model.params[p]
<1> DEFINE found == FoundIn(model, snapshots)
           at(p) == TakenFor(snapshots, p, dtype)
           bases == [p \in DOMAIN model.bases |->
                       IF p \in PlainSites(model) /\ Weight(p) \in found
                       THEN PlainLinear(Transpose(at(Weight(p)).data), at(Weight(p)).dtype)
                       ELSE model.bases[p]]
           params == [p \in DOMAIN model.params |->
                        IF p \in found THEN ParamOf(p, at(p)) ELSE model.params[p]]
           errors == {p \in found : ~FitsAt(model, p, at(p))}
           missing == Visited(model) \ found
           unused == KeysOf(snapshots) \ Visited(model)
           a == Apply(model, snapshots, dtype)
<1>1. a = [errors |-> errors, missing |-> missing, unused |-> unused,
           model |-> [bases |-> bases, params |-> params]]
  BY Zenon DEF Apply, FoundIn, TakenFor, ParamOf, KeysOf
<1> HIDE DEF errors, missing, unused, bases, params, a
<1>2. PICK m : m = [bases |-> bases, params |-> params]
  OBVIOUS
<1>3. {"bases", "params"} \subseteq DOMAIN m /\ m.bases = bases /\ m.params = params
  BY <1>2
<1>4. a = [errors |-> errors, missing |-> missing, unused |-> unused, model |-> m]
  BY <1>1, <1>2, Zenon
<1>5. a.errors = errors /\ a.missing = missing /\ a.unused = unused /\ a.model = m
  BY <1>4
<1>6. a.errors = {} => \A p \in found : FitsAt(model, p, at(p))
  BY <1>5, Zenon DEF errors
<1>7. a.missing = Visited(model) \ found /\ a.unused = KeysOf(snapshots) \ Visited(model)
  BY <1>5, Zenon DEF missing, unused
<1>8. /\ DOMAIN a.model.bases = DOMAIN model.bases
      /\ \A p \in DOMAIN model.bases : a.model.bases[p] =
           IF p \in PlainSites(model) /\ Weight(p) \in found
           THEN PlainLinear(Transpose(at(Weight(p)).data), at(Weight(p)).dtype)
           ELSE model.bases[p]
  <2>1. a.model.bases = bases
    BY <1>3, <1>5, Zenon
  <2>2. QED
    BY <2>1, Zenon DEF bases
<1>9. /\ DOMAIN a.model.params = DOMAIN model.params
      /\ \A p \in DOMAIN model.params : a.model.params[p] =
           IF p \in found THEN ParamOf(p, at(p)) ELSE model.params[p]
  <2>1. a.model.params = params
    BY <1>3, <1>5, Zenon
  <2>2. QED
    BY <2>1, Zenon DEF params
<1>10. {"bases", "params"} \subseteq DOMAIN a.model
  BY <1>3, <1>5, Zenon
<1>11. QED
  BY <1>6, <1>7, <1>8, <1>9, <1>10, Zenon DEF a

LEMMA AppliedModel ==
  ASSUME NEW model, NEW snapshots, NEW dtype
  PROVE  /\ {"bases", "params"} \subseteq DOMAIN Apply(model, snapshots, dtype).model
         /\ DOMAIN Apply(model, snapshots, dtype).model.bases = DOMAIN model.bases
         /\ DOMAIN Apply(model, snapshots, dtype).model.params = DOMAIN model.params
BY Applied

LEMMA AppliedBase ==
  ASSUME NEW model, NEW snapshots, NEW dtype, NEW p \in DOMAIN model.bases, p \notin PlainSites(model)
  PROVE  Apply(model, snapshots, dtype).model.bases[p] = model.bases[p]
<1>1. \A q \in DOMAIN model.bases :
        Apply(model, snapshots, dtype).model.bases[q] =
          IF q \in PlainSites(model) /\ Weight(q) \in FoundIn(model, snapshots)
          THEN PlainLinear(Transpose(TakenFor(snapshots, Weight(q), dtype).data),
                           TakenFor(snapshots, Weight(q), dtype).dtype)
          ELSE model.bases[q]
  BY Applied
<1>2. QED
  BY <1>1, Zenon

LEMMA FrontOfAppend ==
  ASSUME NEW S, NEW s \in Seq(S), NEW x \in S
  PROVE  Front(Append(s, x)) = s /\ Append(s, x) \in Seq(S) /\ Append(s, x)[Len(s) + 1] = x
<1>1. Append(s, x) \in Seq(S) /\ Len(Append(s, x)) = Len(s) + 1 /\ Append(s, x)[Len(s) + 1] = x
  OBVIOUS
<1>2. \A i \in 1 .. Len(s) : Append(s, x)[i] = s[i]
  OBVIOUS
<1> DEFINE t == Append(s, x)
           u == SubSeq(t, 1, Len(s))
<1> HIDE DEF t
<1>3. u \in Seq(S) /\ Len(u) = Len(s) /\ \A i \in 1 .. Len(s) : u[i] = t[i]
  BY <1>1 DEF t
<1> HIDE DEF u
<1>4. \A i \in 1 .. Len(s) : u[i] = s[i]
  BY <1>2, <1>3 DEF t
<1>5. u = s
  BY <1>3, <1>4
<1>6. Len(t) - 1 = Len(s)
  BY <1>1 DEF t
<1>7. Front(t) = u
  BY <1>6, Zenon DEF Front, u
<1>8. QED
  BY <1>1, <1>5, <1>7, Zenon DEF t

(* The paths of weights are of their sites, and of nothing else.             *)
LEMMA PathsOfSites ==
  /\ \A p \in DOMAIN Dims : Front(Weight(p)) = p
  /\ \A p, q \in DOMAIN Dims : Weight(p) = Weight(q) => p = q
  /\ \A p \in DOMAIN Dims : Weight(p) \notin DOMAIN Params /\ Weight(p) \notin DOMAIN Dims
<1>1. \A p \in DOMAIN Dims : Front(Weight(p)) = p
  <2> SUFFICES ASSUME NEW p \in DOMAIN Dims
               PROVE  Front(Weight(p)) = p
    OBVIOUS
  <2>1. p \in Seq(STRING)
    BY PathsAssumption, Zenon
  <2> DEFINE S == STRING \cup {"weight"}
  <2>2. p \in Seq(S)
    BY <2>1
  <2>3. "weight" \in S
    OBVIOUS
  <2> HIDE DEF S
  <2>5. Front(Append(p, "weight")) = p
    BY <2>2, <2>3, FrontOfAppend
  <2>4. QED
    BY <2>5, Zenon DEF Weight
<1>2. \A p \in DOMAIN Dims : Weight(p) \notin DOMAIN Params /\ Weight(p) \notin DOMAIN Dims
  BY PathsAssumption, Zenon
<1>3. QED
  BY <1>1, <1>2, Zenon

LEMMA SizesThatFit ==
  ASSUME NEW a \in Nat, NEW b \in Nat, NEW w, IsMatrix(w, a, b), NEW data,
         NEW m \in Nat, NEW n \in Nat, Len(data) = m, Columns(data) = (IF m = 0 THEN 0 ELSE n),
         SameShape(data, Transpose(w))
  PROVE  m # 0 => n # 0
<1>1. Len(w) = a /\ Columns(w) = IF a = 0 THEN 0 ELSE b
  BY MatrixSize
<1>2. PICK c \in Nat : c = Columns(w)
  BY <1>1
<1>3. IsMatrix(Transpose(w), c, a)
  BY <1>1, <1>2, TransposedIsMatrix, Zenon
<1>4. Len(Transpose(w)) = c /\ Columns(Transpose(w)) = IF c = 0 THEN 0 ELSE a
  BY <1>3, MatrixSize
<1>5. m = c /\ Columns(data) = Columns(Transpose(w))
  BY <1>4, Zenon DEF SameShape
<1>6. QED
  BY <1>1, <1>2, <1>4, <1>5

LEMMA InitParamsAre ==
  ASSUME NEW shapes, NEW dtype, NEW p \in DOMAIN shapes
  PROVE  DOMAIN InitParams(shapes, dtype) = DOMAIN shapes
         /\ InitParams(shapes, dtype)[p].dims = Len(shapes[p])
<1> DEFINE data == Stored(p, Matrix(Rows(shapes[p]), Cols(shapes[p]), LAMBDA i, j : Elem(<<"init">>, i, j)))
<1>1. DOMAIN InitParams(shapes, dtype) = DOMAIN shapes
      /\ InitParams(shapes, dtype)[p] = [data |-> data, dtype |-> dtype, dims |-> Len(shapes[p])]
  BY Zenon DEF InitParams
<1>2. \A a, b, c : [data |-> a, dtype |-> b, dims |-> c].dims = c
  OBVIOUS
<1> HIDE DEF data
<1>3. QED
  BY <1>1, <1>2

(* A parameter, and the linear of a site, as a tensor of the file has them.  *)
Small(shapes) == \A q \in DOMAIN shapes : Len(shapes[q]) <= 2
ParamTaken(param, f, to, name, path, dtype) ==
  /\ name \in DOMAIN f /\ to[name] = path
  /\ param.data = Stored(path, DataOf(f, name))
  /\ f[name].dtype # "U8" => param.dtype = dtype
SiteTaken(base, f, to, name, path, dtype) ==
  /\ name \in DOMAIN f /\ to[name] = path /\ Len(f[name].shape) = 2
  /\ f[name].dtype # "U8" => base = PlainLinear(Transpose(DataOf(f, name)), dtype)
  /\ Rows(f[name].shape) # 0 => Cols(f[name].shape) # 0

LEMMA LoadedParams ==
  ASSUME NEW f, NEW to, NEW snapshots, Delivers(f, to, snapshots), NEW dtype,
         NEW model, NEW shapes, NEW d, model.params = InitParams(shapes, d),
         Small(shapes),
         Apply(model, snapshots, dtype).errors = {},
         NEW p \in DOMAIN shapes, p \in FoundIn(model, snapshots),
         NEW name, ReadFrom(f, to, p, name)
  PROVE  ParamTaken(Apply(model, snapshots, dtype).model.params[p], f, to, name, p, dtype)
<1> DEFINE t == TakenFor(snapshots, p, dtype)
<1>1. p \in KeysOf(snapshots)
  BY Zenon DEF FoundIn
<1>10. name \in DOMAIN f /\ to[name] = p /\ TensorAs(f, name, dtype, t)
  BY <1>1, TakenFromFile, Zenon
<1>2. /\ name \in DOMAIN f /\ to[name] = p /\ t.dims = Len(f[name].shape)
      /\ Len(f[name].shape) <= 2 => t.data = DataOf(f, name)
      /\ f[name].dtype # "U8" => t.dtype = dtype
  BY <1>10, Zenon DEF TensorAs
<1>3. FitsAt(model, p, t)
  BY Applied, Zenon
<1>4. p \in DOMAIN model.params /\ model.params[p].dims = Len(shapes[p])
  BY InitParamsAre
<1>5. t.dims = Len(shapes[p])
  BY <1>3, <1>4, Zenon DEF FitsAt, FileDims
<1>6. Len(f[name].shape) <= 2
  <2>1. Len(shapes[p]) <= 2
    BY Zenon DEF Small
  <2>2. QED
    BY <1>2, <1>5, <2>1, Zenon
<1>7. Apply(model, snapshots, dtype).model.params[p] = ParamOf(p, t)
  BY <1>4, Applied, Zenon
<1>8. ParamOf(p, t).data = Stored(p, t.data) /\ ParamOf(p, t).dtype = t.dtype
  BY DEF ParamOf
<1> HIDE DEF t
<1>9. QED
  BY <1>2, <1>6, <1>7, <1>8, Zenon DEF ParamTaken

LEMMA LoadedSite ==
  ASSUME NEW f, NEW to, NEW snapshots, Delivers(f, to, snapshots), NEW dtype,
         NEW model, DOMAIN model.params = DOMAIN Params, DOMAIN model.bases = DOMAIN Dims,
         Apply(model, snapshots, dtype).errors = {},
         NEW p \in PlainSites(model), Weight(p) \in FoundIn(model, snapshots),
         IsMatrix(model.bases[p].weight, Dims[p][2], Dims[p][1]),
         NEW name, ReadFrom(f, to, Weight(p), name)
  PROVE  SiteTaken(Apply(model, snapshots, dtype).model.bases[p], f, to, name, Weight(p), dtype)
<1> DEFINE t == TakenFor(snapshots, Weight(p), dtype)
<1>1. Weight(p) \in KeysOf(snapshots)
  BY Zenon DEF FoundIn
<1>11. name \in DOMAIN f /\ to[name] = Weight(p) /\ TensorAs(f, name, dtype, t)
  BY <1>1, TakenFromFile, Zenon
<1>2. /\ name \in DOMAIN f /\ to[name] = Weight(p) /\ t.dims = Len(f[name].shape)
      /\ Len(t.data) = Rows(f[name].shape)
      /\ Columns(t.data) = IF Rows(f[name].shape) = 0 THEN 0 ELSE Cols(f[name].shape)
      /\ Len(f[name].shape) <= 2 => t.data = DataOf(f, name)
      /\ f[name].dtype # "U8" => t.dtype = dtype
  BY <1>11, Zenon DEF TensorAs
<1>3. FitsAt(model, Weight(p), t)
  BY Applied, Zenon
<1>4. p \in DOMAIN Dims
  BY Zenon DEF PlainSites
<1>5. Weight(p) \notin DOMAIN model.params /\ Front(Weight(p)) = p
  BY <1>4, PathsOfSites, Zenon
<1>6. t.dims = 2 /\ SameShape(t.data, Transpose(model.bases[p].weight))
  BY <1>3, <1>5, Zenon DEF FitsAt, FileDims, InFileLayout
<1>7. Len(f[name].shape) = 2 /\ Len(f[name].shape) <= 2
  <2>1. 2 <= 2
    OBVIOUS
  <2>2. QED
    BY <1>2, <1>6, <2>1, Zenon
<1>8. Rows(f[name].shape) # 0 => Cols(f[name].shape) # 0
  <2>1. Rows(f[name].shape) \in Nat /\ Cols(f[name].shape) \in Nat
    BY <1>2, SizesOfShape, Zenon DEF Delivers
  <2>2. Dims[p][1] \in Nat /\ Dims[p][2] \in Nat
    <3>1. Dims[p] \in Nat \X Nat
      BY <1>4, FrozenLinearAssumption, Zenon
    <3>2. QED
      BY <3>1
  <2>3. QED
    BY <1>2, <1>6, <2>1, <2>2, SizesThatFit, SMTT(30)
<1>9. Apply(model, snapshots, dtype).model.bases[p] = PlainLinear(Transpose(t.data), t.dtype)
  BY <1>4, Applied, Zenon
<1> HIDE DEF t
<1>10. QED
  BY <1>2, <1>7, <1>8, <1>9, Zenon DEF SiteTaken

-----------------------------------------------------------------------------
(* What the loaders return *)

Frozen(base) == [base EXCEPT !.grad = FALSE]

(* A base site, and another parameter, as the file has them.                 *)
SiteLoaded(base, f, path, dtype, limit) ==
  LET name == TensorOf(f, Weight(path))
  IN  /\ f[name].shape \in Seq(Nat) /\ Len(f[name].shape) = 2
      /\ \/ /\ base = Frozen(PlainLinear(Transpose(DataOf(f, name)), dtype))
            /\ Rows(f[name].shape) # 0 => Cols(f[name].shape) # 0
         \/ /\ base = Frozen(QuantLinear(QuantizeChunked(DataOf(f, name), limit)))
            /\ Rows(f[name].shape) # 0 => (Cols(f[name].shape) % QuantBlock) = 0
ParamLoaded(param, f, name, path, dtype) ==
  /\ f[name].shape \in Seq(Nat)
  /\ param.data = Stored(path, DataOf(f, name)) /\ param.dtype = dtype

Consumed(f, quant) ==
  IsFp8(f) \/ quant # "none" =>
    \A name \in DOMAIN f :
      \/ KeyRemap(name) \in DOMAIN Params \cup {Weight(p) : p \in DOMAIN Dims}
      \/ name \in UsedScales(f)
      \/ (IsFp8(f) /\ Marker(name))

ModelLoaded(model, f, dtype, limit, quant) ==
  /\ {"bases", "params"} \subseteq DOMAIN model
  /\ DOMAIN model.bases = DOMAIN Dims
  /\ \A p \in DOMAIN Dims : SiteLoaded(model.bases[p], f, p, dtype, limit)
  /\ \A p \in DOMAIN Params : ParamLoaded(model.params[p], f, TensorOf(f, p), p, dtype)
  /\ Consumed(f, quant)

(* A checkpoint: the shapes and the names the assumptions speak of.          *)
IsCheckpoint(f) ==
  /\ \A name \in DOMAIN f : f[name].shape \in Seq(Nat)
  /\ \A name \in DOMAIN f :
       /\ \A other \in DOMAIN f : KeyRemap(name) = KeyRemap(other) => name = other
       /\ \A p \in DOMAIN Dims : Front(KeyRemap(name)) # Weight(p)
       /\ f[name].dtype = "U8" =>
            KeyRemap(name) \notin DOMAIN Params \cup {Weight(p) : p \in DOMAIN Dims}
ModulePaths(f) == [name \in DOMAIN f |-> KeyRemap(name)]

LEMMA CheckpointsAre ==
  ASSUME NEW r \in Runs, NEW f \in Checkpoints[r]
  PROVE  IsCheckpoint(f)
<1>1. \A name \in DOMAIN f : f[name].shape \in Seq(Nat)
  BY FilesAssumption, Zenon
<1>2. QED
  BY <1>1, NamesAssumption, Zenon DEF IsCheckpoint

LEMMA TensorIsRead ==
  ASSUME NEW f, NEW path
  PROVE  ReadFrom(f, ModulePaths(f), path, TensorOf(f, path))
BY Zenon DEF ReadFrom, ModulePaths, TensorOf

(* The snapshots of a checkpoint, under the paths of the model.              *)
LEMMA RemappedDelivers ==
  ASSUME NEW f, IsCheckpoint(f), ~Refused(f), NEW snapshots, snapshots \subseteq Remapped(Snapshots(f))
  PROVE  Delivers(f, ModulePaths(f), snapshots)
<1>1. \A name \in DOMAIN f : f[name].shape \in Seq(Nat)
  BY Zenon DEF IsCheckpoint
<1>2. \A name, other \in DOMAIN f : ModulePaths(f)[name] = ModulePaths(f)[other] => name = other
  BY Zenon DEF IsCheckpoint, ModulePaths
<1>3. ASSUME NEW t \in snapshots
      PROVE  \E name \in DOMAIN f : SnapshotOf(f, name, ModulePaths(f)[name], t)
  <2>1. PICK s \in Snapshots(f) : t = [s EXCEPT !.name = KeyRemap(s.name)]
    BY Zenon DEF Remapped
  <2>2. PICK name \in DOMAIN f : SnapshotOf(f, name, name, s)
    BY <1>1, SnapshotsOfFile, Zenon
  <2>3. s.name = name
    BY <2>2, Zenon DEF SnapshotOf
  <2>4. SnapshotOf(f, name, KeyRemap(name), [s EXCEPT !.name = KeyRemap(name)])
    BY <2>2, Renamed, Zenon
  <2>5. QED
    BY <2>1, <2>3, <2>4, Zenon DEF ModulePaths
<1>4. QED
  BY <1>1, <1>2, <1>3, Zenon DEF Delivers

(* No tensor of the file is unused that is not a scale or a marker.          *)
LEMMA NothingUnused ==
  ASSUME NEW f, IsCheckpoint(f), ~Refused(f), NEW paths,
         \A s \in Remapped(Snapshots(f)) : s.name \in paths
  PROVE  \A name \in DOMAIN f :
           KeyRemap(name) \in paths \/ name \in UsedScales(f) \/ (IsFp8(f) /\ Marker(name))
<1>1. \A name \in DOMAIN f : f[name].shape \in Seq(Nat)
  BY Zenon DEF IsCheckpoint
<1>2. ASSUME NEW name \in DOMAIN f, NEW s \in Snapshots(f), s.name = name, SnapshotOf(f, name, name, s)
      PROVE  KeyRemap(name) \in paths
  <2>1. SnapshotOf(f, name, KeyRemap(name), [s EXCEPT !.name = KeyRemap(name)])
    BY <1>2, Renamed, Zenon
  <2>2. [s EXCEPT !.name = KeyRemap(name)].name = KeyRemap(name)
    BY <2>1, Zenon DEF SnapshotOf
  <2>3. [s EXCEPT !.name = KeyRemap(name)] \in Remapped(Snapshots(f))
    BY <1>2, Zenon DEF Remapped
  <2>4. QED
    BY <2>2, <2>3, Zenon
<1>3. ASSUME NEW name \in DOMAIN f
      PROVE  KeyRemap(name) \in paths \/ name \in UsedScales(f) \/ (IsFp8(f) /\ Marker(name))
  <2>1. \/ \E s \in Snapshots(f) : s.name = name /\ SnapshotOf(f, name, name, s)
        \/ IsFp8(f) /\ (name \in UsedScales(f) \/ Marker(name))
    BY <1>1, SnapshotsOfFile, Zenon
  <2>2. QED
    BY <1>2, <2>1, Zenon
<1>4. QED
  BY <1>3, Zenon

(* Every plain site and every other parameter that the applier finds.        *)
LEMMA FoundIsLoaded ==
  ASSUME NEW f, IsCheckpoint(f), NEW snapshots, Delivers(f, ModulePaths(f), snapshots),
         NEW dtype, NEW d, NEW limit, NEW model,
         model.params = InitParams(Params, d), DOMAIN model.bases = DOMAIN Dims,
         Apply(model, snapshots, dtype).errors = {}
  PROVE  /\ \A p \in DOMAIN Params : p \in FoundIn(model, snapshots) =>
              ParamLoaded(Apply(model, snapshots, dtype).model.params[p], f, TensorOf(f, p), p, dtype)
         /\ \A p \in PlainSites(model) :
              /\ Weight(p) \in FoundIn(model, snapshots)
              /\ IsMatrix(model.bases[p].weight, Dims[p][2], Dims[p][1])
              => SiteLoaded(Frozen(Apply(model, snapshots, dtype).model.bases[p]), f, p, dtype, limit)
<1>1. DOMAIN model.params = DOMAIN Params
  BY InitParamsAre, Zenon DEF InitParams
<1>2. ASSUME NEW p \in DOMAIN Params, p \in FoundIn(model, snapshots)
      PROVE  ParamLoaded(Apply(model, snapshots, dtype).model.params[p], f, TensorOf(f, p), p, dtype)
  <2> DEFINE name == TensorOf(f, p)
  <2>1. ReadFrom(f, ModulePaths(f), p, name)
    BY TensorIsRead
  <2>2. Small(Params)
    BY ShapesAssumption, Zenon DEF Small
  <2> HIDE DEF name
  <2>7. ParamTaken(Apply(model, snapshots, dtype).model.params[p], f, ModulePaths(f), name, p, dtype)
    BY <1>2, <2>1, <2>2, LoadedParams, Zenon
  <2>3. /\ name \in DOMAIN f /\ ModulePaths(f)[name] = p
        /\ Apply(model, snapshots, dtype).model.params[p].data = Stored(p, DataOf(f, name))
        /\ f[name].dtype # "U8" => Apply(model, snapshots, dtype).model.params[p].dtype = dtype
    BY <2>7, Zenon DEF ParamTaken
  <2>4. KeyRemap(name) = p
    BY <2>3, Zenon DEF ModulePaths
  <2>5. f[name].dtype # "U8" /\ f[name].shape \in Seq(Nat)
    BY <2>3, <2>4, Zenon DEF IsCheckpoint
  <2>6. QED
    BY <2>3, <2>5, Zenon DEF ParamLoaded, name
<1>3. ASSUME NEW p \in PlainSites(model), Weight(p) \in FoundIn(model, snapshots),
             IsMatrix(model.bases[p].weight, Dims[p][2], Dims[p][1])
      PROVE  SiteLoaded(Frozen(Apply(model, snapshots, dtype).model.bases[p]), f, p, dtype, limit)
  <2> DEFINE name == TensorOf(f, Weight(p))
  <2>1. ReadFrom(f, ModulePaths(f), Weight(p), name)
    BY TensorIsRead
  <2> HIDE DEF name
  <2>6. SiteTaken(Apply(model, snapshots, dtype).model.bases[p], f, ModulePaths(f), name, Weight(p), dtype)
    BY <1>1, <1>3, <2>1, LoadedSite, Zenon
  <2>2. /\ name \in DOMAIN f /\ ModulePaths(f)[name] = Weight(p) /\ Len(f[name].shape) = 2
        /\ f[name].dtype # "U8" =>
             Apply(model, snapshots, dtype).model.bases[p] = PlainLinear(Transpose(DataOf(f, name)), dtype)
        /\ Rows(f[name].shape) # 0 => Cols(f[name].shape) # 0
    BY <2>6, Zenon DEF SiteTaken
  <2>3. KeyRemap(name) = Weight(p) /\ p \in DOMAIN Dims
    BY <2>2, Zenon DEF ModulePaths, PlainSites
  <2>4. f[name].dtype # "U8" /\ f[name].shape \in Seq(Nat)
    BY <2>2, <2>3, Zenon DEF IsCheckpoint
  <2>5. QED
    BY <2>2, <2>4, Zenon DEF SiteLoaded, name
<1>4. QED
  BY <1>2, <1>3, Zenon

LEMMA NoGradFreezes ==
  ASSUME NEW model, {"bases", "params"} \subseteq DOMAIN model
  PROVE  /\ {"bases", "params"} \subseteq DOMAIN NoGrad(model)
         /\ NoGrad(model).params = model.params
         /\ DOMAIN NoGrad(model).bases = DOMAIN model.bases
         /\ \A p \in DOMAIN model.bases : NoGrad(model).bases[p] = Frozen(model.bases[p])
<1> DEFINE bases == [p \in DOMAIN model.bases |-> [model.bases[p] EXCEPT !.grad = FALSE]]
<1>1. NoGrad(model) = [model EXCEPT !.bases = bases]
  BY Zenon DEF NoGrad
<1>2. DOMAIN bases = DOMAIN model.bases /\ \A p \in DOMAIN model.bases : bases[p] = Frozen(model.bases[p])
  BY Zenon DEF Frozen
<1> HIDE DEF bases
<1>3. /\ {"bases", "params"} \subseteq DOMAIN [model EXCEPT !.bases = bases]
      /\ [model EXCEPT !.bases = bases].bases = bases
      /\ [model EXCEPT !.bases = bases].params = model.params
  OBVIOUS
<1>4. QED
  BY <1>1, <1>2, <1>3, Zenon

LEMMA InitModelIs ==
  ASSUME NEW dtype
  PROVE  /\ {"bases", "params"} \subseteq DOMAIN InitModel(dtype)
         /\ InitModel(dtype).params = InitParams(Params, dtype)
         /\ InitModel(dtype).bases = InitBases(dtype)
         /\ PlainSites(InitModel(dtype)) = DOMAIN Dims
<1>1. /\ {"bases", "params"} \subseteq DOMAIN InitModel(dtype)
      /\ InitModel(dtype).params = InitParams(Params, dtype)
      /\ InitModel(dtype).bases = InitBases(dtype)
  BY DEF InitModel
<1>2. PlainSites(InitModel(dtype)) = DOMAIN Dims
  BY <1>1, InitBasesArePlain, Zenon DEF PlainSites
<1>3. QED
  BY <1>1, <1>2

(* What the loaders have checked of what they return.                        *)
Whole(result, f) ==
  result.errors = {} /\ result.missing = {} /\ (IsFp8(f) => result.unused = {})

LEMMA PlainModelLoaded ==
  ASSUME NEW f, IsCheckpoint(f), ~Refused(f), NEW dtype, NEW limit,
         Whole(Apply(InitModel(dtype), Remapped(Snapshots(f)), dtype), f)
  PROVE  ModelLoaded(NoGrad(Apply(InitModel(dtype), Remapped(Snapshots(f)), dtype).model),
                     f, dtype, limit, "none")
<1> DEFINE init == InitModel(dtype)
           snapshots == Remapped(Snapshots(f))
<1>0. PICK result : result = Apply(InitModel(dtype), Remapped(Snapshots(f)), dtype)
  OBVIOUS
<1>1. /\ init.params = InitParams(Params, dtype) /\ init.bases = InitBases(dtype)
      /\ PlainSites(init) = DOMAIN Dims /\ DOMAIN init.bases = DOMAIN Dims
      /\ \A p \in DOMAIN Dims : IsMatrix(init.bases[p].weight, Dims[p][2], Dims[p][1])
  BY InitModelIs, InitBasesArePlain, Zenon
<1>2. DOMAIN init.params = DOMAIN Params
  BY <1>1, Zenon DEF InitParams
<1>3. Delivers(f, ModulePaths(f), snapshots)
  BY RemappedDelivers, Zenon
<1> HIDE DEF init
<1>4. /\ Apply(init, snapshots, dtype).errors = {} /\ result = Apply(init, snapshots, dtype)
      /\ Apply(init, snapshots, dtype).missing = {}
      /\ IsFp8(f) => Apply(init, snapshots, dtype).unused = {}
  BY <1>0, Zenon DEF init, Whole
<1> HIDE DEF snapshots
<1>5. Visited(init) = DOMAIN Params \cup {Weight(p) : p \in DOMAIN Dims}
  BY <1>1, <1>2, Zenon DEF Visited
<1>6. Visited(init) \subseteq FoundIn(init, snapshots)
  <2>1. Visited(init) \ FoundIn(init, snapshots) = {}
    BY <1>4, Applied, ZenonT(60)
  <2>2. QED
    BY <2>1, Zenon
<1>7. /\ \A p \in DOMAIN Params : ParamLoaded(result.model.params[p], f, TensorOf(f, p), p, dtype)
      /\ \A p \in DOMAIN Dims : SiteLoaded(Frozen(result.model.bases[p]), f, p, dtype, limit)
  <2>1. /\ \A p \in DOMAIN Params : p \in FoundIn(init, snapshots) =>
             ParamLoaded(Apply(init, snapshots, dtype).model.params[p], f, TensorOf(f, p), p, dtype)
        /\ \A p \in PlainSites(init) :
             /\ Weight(p) \in FoundIn(init, snapshots)
             /\ IsMatrix(init.bases[p].weight, Dims[p][2], Dims[p][1])
             => SiteLoaded(Frozen(Apply(init, snapshots, dtype).model.bases[p]), f, p, dtype, limit)
    BY <1>1, <1>3, <1>4, FoundIsLoaded
  <2>2. \A p \in DOMAIN Params : p \in FoundIn(init, snapshots)
    BY <1>5, <1>6, Zenon
  <2>3. \A p \in DOMAIN Dims : Weight(p) \in FoundIn(init, snapshots)
    BY <1>5, <1>6, Zenon
  <2>4. QED
    BY <1>1, <1>4, <2>1, <2>2, <2>3, Zenon
<1>8. {"bases", "params"} \subseteq DOMAIN result.model /\ DOMAIN result.model.bases = DOMAIN Dims
  <2>1. /\ {"bases", "params"} \subseteq DOMAIN Apply(init, snapshots, dtype).model
        /\ DOMAIN Apply(init, snapshots, dtype).model.bases = DOMAIN init.bases
    BY AppliedModel
  <2>2. QED
    BY <1>1, <1>4, <2>1, Zenon
<1>9. Consumed(f, "none")
  <2> SUFFICES ASSUME IsFp8(f)
               PROVE  \A name \in DOMAIN f :
                        \/ KeyRemap(name) \in DOMAIN Params \cup {Weight(p) : p \in DOMAIN Dims}
                        \/ name \in UsedScales(f)
                        \/ (IsFp8(f) /\ Marker(name))
    BY DEF Consumed
  <2>1. KeysOf(snapshots) \ Visited(init) = {}
    BY <1>4, Applied, Zenon
  <2>2. \A s \in Remapped(Snapshots(f)) : s.name \in Visited(init)
    BY <2>1, Zenon DEF KeysOf, snapshots
  <2>3. \A name \in DOMAIN f :
          KeyRemap(name) \in Visited(init) \/ name \in UsedScales(f) \/ (IsFp8(f) /\ Marker(name))
    BY <2>2, NothingUnused
  <2>4. QED
    BY <1>5, <2>3, Zenon
<1>10. PICK model : model = result.model
  OBVIOUS
<1>11. {"bases", "params"} \subseteq DOMAIN model /\ DOMAIN model.bases = DOMAIN Dims
  BY <1>8, <1>10, Zenon
<1>12. /\ {"bases", "params"} \subseteq DOMAIN NoGrad(model) /\ NoGrad(model).params = model.params
       /\ DOMAIN NoGrad(model).bases = DOMAIN model.bases
       /\ \A p \in DOMAIN model.bases : NoGrad(model).bases[p] = Frozen(model.bases[p])
  BY <1>11, NoGradFreezes
<1>13. \A p \in DOMAIN Params : NoGrad(model).params[p] = model.params[p]
  BY <1>12, Zenon
<1>14. QED
  BY <1>0, <1>7, <1>9, <1>10, <1>11, <1>12, <1>13, Zenon DEF ModelLoaded

LEMMA BaseLoaded ==
  ASSUME NEW f, IsCheckpoint(f), NEW dtype, NEW limit, LoadBase(f, dtype) # <<>>
  PROVE  ModelLoaded(NoGrad(LoadBase(f, dtype)[1]), f, dtype, limit, "none")
<1> DEFINE result == Apply(InitModel(dtype), Remapped(Snapshots(f)), dtype)
<1>1. \A x : <<x>>[1] = x
  OBVIOUS
<1>2. LoadBase(f, dtype) = <<result.model>> /\ ~Refused(f) /\ Whole(result, f)
  <2>1. CASE IsFp8(f)
    <3>1. LoadFp8Module(f, dtype) # <<>> /\ LoadBase(f, dtype) = LoadFp8Module(f, dtype)
      BY <2>1, Zenon DEF LoadBase
    <3>2. Snapshots(f) = LoadFp8Snapshots(f) /\ (Refused(f) <=> Fp8Refused(f))
      BY <2>1, Zenon DEF Snapshots, Refused
    <3>3. QED
      BY <2>1, <3>1, <3>2, Zenon DEF LoadFp8Module, Whole
  <2>2. CASE ~IsFp8(f)
    <3>1. LoadModule(f, dtype) # <<>> /\ LoadBase(f, dtype) = LoadModule(f, dtype)
      BY <2>2, Zenon DEF LoadBase
    <3>2. Snapshots(f) = LoadPlainSnapshots(f) /\ (Refused(f) <=> PlainRefused(f))
      BY <2>2, Zenon DEF Snapshots, Refused
    <3>3. QED
      BY <2>2, <3>1, <3>2, Zenon DEF LoadModule, Whole
  <2>3. QED
    BY <2>1, <2>2
<1>3. LoadBase(f, dtype)[1] = result.model
  BY <1>1, <1>2, Zenon
<1>4. ModelLoaded(NoGrad(result.model), f, dtype, limit, "none")
  BY <1>2, PlainModelLoaded
<1>5. QED
  BY <1>3, <1>4, Zenon

-----------------------------------------------------------------------------
(* The text trunk *)

TrunkPaths(f) == [name \in DOMAIN f |-> ComfyRemap(name)]
TrunkTensor(f, path) == CHOOSE name \in DOMAIN f : ComfyRemap(name) = path
EncoderIs(params, f) ==
  \A p \in DOMAIN EncoderParams :
    /\ f[TrunkTensor(f, p)].shape \in Seq(Nat)
    /\ params[p].data = Stored(p, DataOf(f, TrunkTensor(f, p)))

Trunk(f) ==
  LET named == IF IsFp8(f) THEN {[s EXCEPT !.name = ComfyRemap(s.name)] : s \in LoadFp8Snapshots(f)}
               ELSE LoadPlainSnapshots(f)
  IN  {s \in named : Head(s.name) = "language_model"}

LEMMA TrunkDelivers ==
  ASSUME NEW f \in EncoderFiles, ~Refused(f)
  PROVE  Delivers(f, TrunkPaths(f), Trunk(f))
<1>1. \A name \in DOMAIN f : f[name].shape \in Seq(Nat)
  BY FilesAssumption, Zenon
<1>2. \A name, other \in DOMAIN f : TrunkPaths(f)[name] = TrunkPaths(f)[other] => name = other
  BY NamesAssumption, Zenon DEF TrunkPaths
<1>3. ASSUME NEW t \in Trunk(f)
      PROVE  \E name \in DOMAIN f : SnapshotOf(f, name, TrunkPaths(f)[name], t)
  <2>1. CASE IsFp8(f)
    <3>1. PICK s \in Snapshots(f) : t = [s EXCEPT !.name = ComfyRemap(s.name)]
      BY <2>1, Zenon DEF Trunk, Snapshots
    <3>2. PICK name \in DOMAIN f : SnapshotOf(f, name, name, s)
      BY <1>1, SnapshotsOfFile, Zenon
    <3>3. s.name = name
      BY <3>2, Zenon DEF SnapshotOf
    <3>4. SnapshotOf(f, name, ComfyRemap(name), [s EXCEPT !.name = ComfyRemap(name)])
      BY <3>2, Renamed, Zenon
    <3>5. QED
      BY <3>1, <3>3, <3>4, Zenon DEF TrunkPaths
  <2>2. CASE ~IsFp8(f)
    <3>1. t \in Snapshots(f) /\ Head(t.name) = "language_model"
      BY <2>2, Zenon DEF Trunk, Snapshots
    <3>2. PICK name \in DOMAIN f : SnapshotOf(f, name, name, t)
      BY <1>1, <3>1, SnapshotsOfFile, Zenon
    <3>3. t.name = name
      BY <3>2, Zenon DEF SnapshotOf
    <3>4. Head(name) # "model"
      BY <3>1, <3>3
    <3>5. ComfyRemap(name) = name
      BY <3>4, Zenon DEF ComfyRemap
    <3>6. QED
      BY <3>2, <3>5, Zenon DEF TrunkPaths
  <2>3. QED
    BY <2>1, <2>2
<1>4. QED
  BY <1>1, <1>2, <1>3, Zenon DEF Delivers

LEMMA EncoderLoaded ==
  ASSUME NEW f \in EncoderFiles, NEW dtype, LoadEncoder(f, dtype) # <<>>
  PROVE  EncoderIs(LoadEncoder(f, dtype)[1].params, f)
<1> DEFINE init == InitEncoder(dtype)
           snapshots == Trunk(f)
<1>1. \A x : <<x>>[1] = x
  OBVIOUS
<1>2. /\ ~Refused(f) /\ LoadEncoder(f, dtype) = <<Apply(init, snapshots, dtype).model>>
      /\ Apply(init, snapshots, dtype).errors = {} /\ Apply(init, snapshots, dtype).missing = {}
  BY Zenon DEF LoadEncoder, Trunk
<1>3. Delivers(f, TrunkPaths(f), snapshots)
  BY <1>2, TrunkDelivers
<1>4. init.params = InitParams(EncoderParams, dtype)
  BY DEF InitEncoder
<1>5. DOMAIN init.params = DOMAIN EncoderParams
  BY <1>4, Zenon DEF InitParams
<1> HIDE DEF init, snapshots
<1>6. DOMAIN EncoderParams \subseteq FoundIn(init, snapshots)
  <2>1. Visited(init) \ FoundIn(init, snapshots) = {}
    BY <1>2, Applied, ZenonT(60)
  <2>2. DOMAIN init.params \subseteq Visited(init)
    BY Zenon DEF Visited
  <2>3. QED
    BY <1>5, <2>1, <2>2, Zenon
<1>7. Small(EncoderParams)
  BY ShapesAssumption, Zenon DEF Small
<1>8. ASSUME NEW p \in DOMAIN EncoderParams
      PROVE  /\ f[TrunkTensor(f, p)].shape \in Seq(Nat)
             /\ Apply(init, snapshots, dtype).model.params[p].data = Stored(p, DataOf(f, TrunkTensor(f, p)))
  <2> DEFINE name == TrunkTensor(f, p)
  <2>1. ReadFrom(f, TrunkPaths(f), p, name)
    BY Zenon DEF ReadFrom, TrunkPaths, TrunkTensor
  <2>2. p \in FoundIn(init, snapshots)
    BY <1>6, Zenon
  <2> HIDE DEF name
  <2>3. ParamTaken(Apply(init, snapshots, dtype).model.params[p], f, TrunkPaths(f), name, p, dtype)
    BY <1>2, <1>3, <1>4, <1>7, <2>1, <2>2, LoadedParams, Zenon
  <2>4. QED
    BY <2>3, FilesAssumption, Zenon DEF ParamTaken, name
<1>9. LoadEncoder(f, dtype)[1] = Apply(init, snapshots, dtype).model
  BY <1>1, <1>2, Zenon
<1>10. QED
  BY <1>8, <1>9, Zenon DEF EncoderIs

-----------------------------------------------------------------------------
(* The streaming loader *)

(* A weight as the quantization pass leaves it.                              *)
TakenWeight(f, path, w, limit) ==
  LET name == TensorOf(f, Weight(path))
  IN  /\ f[name].shape \in Seq(Nat) /\ Len(f[name].shape) = 2
      /\ w = QuantizeChunked(DataOf(f, name), limit)
      /\ Rows(f[name].shape) # 0 => (Cols(f[name].shape) % QuantBlock) = 0

(* A site the pass leaves to the applier, or one it takes.                   *)
StreamSite(base, f, path, covered, dtype, limit) ==
  \/ base = InitBases(dtype)[path]
  \/ \E w : /\ base = QuantLinear(w) /\ Len(w) \in Nat \ {0}
            /\ Weight(path) \in covered => TakenWeight(f, path, w, limit)

StreamOf(stream, f, dtype, limit) ==
  /\ {"model", "byKey", "covered"} \subseteq DOMAIN stream
  /\ {"bases", "params"} \subseteq DOMAIN stream.model
  /\ stream.model.params = InitParams(Params, dtype)
  /\ DOMAIN stream.model.bases = DOMAIN Dims
  /\ \A p \in DOMAIN Dims : StreamSite(stream.model.bases[p], f, p, stream.covered, dtype, limit)
  /\ \A k \in stream.covered : \E p \in DOMAIN Dims : k = Weight(p) /\ stream.model.bases[p].arm = "Quant"
  /\ stream.byKey = {s \in Remapped(Snapshots(f)) : s.name \notin stream.covered}

LEMMA UnderSites ==
  ASSUME NEW p \in DOMAIN Dims, NEW x
  PROVE  /\ Front(Append(Weight(p), x)) = Weight(p)
         /\ \A q \in DOMAIN Dims : Append(Weight(p), x) # Weight(q)
<1> DEFINE S == STRING \cup {"weight", x}
<1>1. p \in Seq(STRING)
  BY PathsAssumption, Zenon
<1>2. p \in Seq(S) /\ "weight" \in S /\ x \in S
  BY <1>1
<1> HIDE DEF S
<1>3. Append(p, "weight") \in Seq(S)
  BY <1>2, FrontOfAppend
<1>4. Weight(p) \in Seq(S)
  BY <1>3, Zenon DEF Weight
<1>5. Front(Append(Weight(p), x)) = Weight(p)
  BY <1>2, <1>4, FrontOfAppend
<1>6. \A q \in DOMAIN Dims : Front(Weight(q)) = q /\ Weight(p) # q
  BY PathsOfSites, Zenon
<1>7. QED
  BY <1>5, <1>6, Zenon

LEMMA SnapshotAt ==
  ASSUME NEW f, NEW to, NEW snapshots, Delivers(f, to, snapshots), NEW s \in snapshots,
         NEW path, s.name = path, NEW name, ReadFrom(f, to, path, name)
  PROVE  /\ name \in DOMAIN f /\ to[name] = path /\ SnapshotOf(f, name, path, s)
         /\ f[name].shape \in Seq(Nat)
<1>1. PICK n \in DOMAIN f : SnapshotOf(f, n, to[n], s)
  BY Zenon DEF Delivers
<1>2. to[n] = path
  BY <1>1, Zenon DEF SnapshotOf
<1>3. name \in DOMAIN f /\ to[name] = path
  BY <1>2, Zenon DEF ReadFrom
<1>4. n = name
  BY <1>2, <1>3, Zenon DEF Delivers
<1>5. QED
  BY <1>1, <1>2, <1>3, <1>4, Zenon DEF Delivers

LEMMA SomeChunk ==
  ASSUME NEW w, NEW m \in Nat, NEW n \in Nat, IsMatrix(w, m, n), NEW limit \in Nat
  PROVE  Len(QuantizeChunked(w, limit)) \in Nat \ {0}
<1>1. Chunked(QuantizeChunked(w, limit), limit, m, IF m = 0 THEN 0 ELSE n)
  BY ChunksCutRows
<1>2. QED
  BY <1>1, Zenon DEF Chunked, Splits

LEMMA OpenedStreamOf ==
  ASSUME NEW f, IsCheckpoint(f), NEW dtype, NEW limit \in Nat
  PROVE  StreamOf(OpenStream(f, dtype, limit), f, dtype, limit)
<1> DEFINE stream == OpenStream(f, dtype, limit)
           plain == InitBases(dtype)
           bases == IntoQuantizedChunked(plain, limit)
<1>1. /\ {"bases", "params"} \subseteq DOMAIN InitModel(dtype)
      /\ InitModel(dtype).bases = plain /\ InitModel(dtype).params = InitParams(Params, dtype)
  BY InitModelIs
<1>2. /\ {"bases", "params"} \subseteq DOMAIN Skeleton(dtype, limit)
      /\ Skeleton(dtype, limit).bases = bases
      /\ Skeleton(dtype, limit).params = InitParams(Params, dtype)
  <2>1. \A m, x : {"bases", "params"} \subseteq DOMAIN m =>
          /\ {"bases", "params"} \subseteq DOMAIN [m EXCEPT !.bases = x]
          /\ [m EXCEPT !.bases = x].bases = x /\ [m EXCEPT !.bases = x].params = m.params
    OBVIOUS
  <2>2. Skeleton(dtype, limit) = [InitModel(dtype) EXCEPT !.bases = bases]
    BY <1>1, Zenon DEF Skeleton
  <2> HIDE DEF bases
  <2>3. QED
    BY <1>1, <2>1, <2>2, Zenon
<1>3. /\ {"model", "byKey", "covered"} \subseteq DOMAIN stream
      /\ stream.model = Skeleton(dtype, limit) /\ stream.byKey = Remapped(Snapshots(f))
      /\ stream.covered = {}
  <2>1. PICK a, b, c : a = Skeleton(dtype, limit) /\ b = Remapped(Snapshots(f)) /\ c = {}
    OBVIOUS
  <2>2. stream = [model |-> a, byKey |-> b, covered |-> c]
    BY <2>1, Zenon DEF OpenStream
  <2> HIDE DEF stream
  <2>3. {"model", "byKey", "covered"} \subseteq DOMAIN stream
        /\ stream.model = a /\ stream.byKey = b /\ stream.covered = c
    BY <2>2
  <2>4. QED
    BY <2>1, <2>3, Zenon
<1>4. DOMAIN bases = DOMAIN Dims /\ \A p \in DOMAIN Dims :
        bases[p] = IF p \in QuantizedFields THEN QuantizeField(plain[p], limit) ELSE plain[p]
  BY InitBasesArePlain, Zenon DEF IntoQuantizedChunked
<1> HIDE DEF bases, stream
<1>5. ASSUME NEW p \in DOMAIN Dims
      PROVE  bases[p] = plain[p] \/ \E w : bases[p] = QuantLinear(w) /\ Len(w) \in Nat \ {0}
  <2> DEFINE chunks == QuantizeChunked(Transpose(plain[p].weight), limit)
  <2>1. PICK o \in Nat, i \in Nat : o = Dims[p][1] /\ i = Dims[p][2]
    BY FrozenLinearAssumption
  <2>2. IsMatrix(plain[p].weight, i, o)
    BY <2>1, InitBasesArePlain, Zenon
  <2>3. Len(plain[p].weight) = i /\ Columns(plain[p].weight) \in Nat
    BY <2>2, MatrixSize
  <2>4. IsMatrix(Transpose(plain[p].weight), Columns(plain[p].weight), i)
    BY <2>3, TransposedIsMatrix
  <2>5. Len(chunks) \in Nat \ {0}
    BY <2>3, <2>4, SomeChunk
  <2>6. QuantizeField(plain[p], limit) \in {QuantLinear(chunks), plain[p]}
    BY Zenon DEF QuantizeField
  <2> HIDE DEF chunks
  <2>7. QED
    BY <1>4, <2>5, <2>6, Zenon
<1>6. \A p \in DOMAIN Dims : StreamSite(bases[p], f, p, {}, dtype, limit)
  BY <1>5, Zenon DEF StreamSite
<1>7. \A k : k \notin {}
  OBVIOUS
<1>8. stream.byKey = {s \in Remapped(Snapshots(f)) : s.name \notin stream.covered}
  BY <1>3, <1>7, Zenon
<1>9. QED
  BY <1>2, <1>3, <1>4, <1>6, <1>7, <1>8, Zenon DEF StreamOf, stream

LEMMA StreamDelivers ==
  ASSUME NEW stream, NEW f, IsCheckpoint(f), ~Refused(f), NEW dtype, NEW limit,
         StreamOf(stream, f, dtype, limit)
  PROVE  Delivers(f, ModulePaths(f), stream.byKey)
<1>1. stream.byKey \subseteq Remapped(Snapshots(f))
  BY Zenon DEF StreamOf
<1>2. QED
  BY <1>1, RemappedDelivers

(* What the pass takes for a site is a whole matrix of the file.             *)
LEMMA TakenIsOfFile ==
  ASSUME NEW stream, NEW f, IsCheckpoint(f), ~Refused(f), NEW dtype, NEW limit,
         StreamOf(stream, f, dtype, limit),
         NEW p \in DOMAIN Dims, NEW s \in stream.byKey, s.name = Weight(p), Quantizable(s)
  PROVE  /\ TakenWeight(f, p, QuantizeChunked(s.data, limit), limit)
         /\ \E m, n \in Nat : IsMatrix(s.data, m, n)
<1> DEFINE name == TensorOf(f, Weight(p))
<1>1. ReadFrom(f, ModulePaths(f), Weight(p), name)
  BY TensorIsRead
<1>2. Delivers(f, ModulePaths(f), stream.byKey)
  BY StreamDelivers
<1> HIDE DEF name
<1>3. /\ name \in DOMAIN f /\ SnapshotOf(f, name, Weight(p), s)
      /\ f[name].shape \in Seq(Nat)
  BY <1>1, <1>2, SnapshotAt
<1>4. /\ s.dims = Len(f[name].shape)
      /\ IsMatrix(s.data, Rows(f[name].shape), Cols(f[name].shape))
      /\ Len(f[name].shape) <= 2 => s.data = DataOf(f, name)
  BY <1>3, Zenon DEF SnapshotOf
<1>5. s.dims = 2 /\ (Columns(s.data) % QuantBlock) = 0
  BY Zenon DEF Quantizable
<1>6. Len(f[name].shape) = 2 /\ s.data = DataOf(f, name)
  <2>1. 2 <= 2
    OBVIOUS
  <2>2. QED
    BY <1>4, <1>5, <2>1, Zenon
<1>7. Columns(s.data) = IF Rows(f[name].shape) = 0 THEN 0 ELSE Cols(f[name].shape)
  BY <1>3, SnapshotHasItsSize, Zenon
<1>8. Rows(f[name].shape) # 0 => (Cols(f[name].shape) % QuantBlock) = 0
  BY <1>5, <1>7, Zenon
<1>9. Rows(f[name].shape) \in Nat /\ Cols(f[name].shape) \in Nat
  BY <1>3, SizesOfShape
<1>10. QED
  BY <1>3, <1>4, <1>6, <1>8, <1>9, Zenon DEF TakenWeight, name

LEMMA QuantFields ==
  ASSUME NEW w
  PROVE  /\ QuantLinear(w).arm = "Quant" /\ QuantLinear(w).weight = w
         /\ QuantLinear(w).arm # "Plain"
         /\ \A v : [QuantLinear(w) EXCEPT !.weight = v] = QuantLinear(v)
<1>1. QuantLinear(w).arm = "Quant" /\ QuantLinear(w).weight = w /\ QuantLinear(w).arm # "Plain"
  BY DEF QuantLinear
<1> DEFINE Record(v, g) == [arm |-> "Quant", weight |-> v, dtype |-> "Q", grad |-> g]
<1>2. \A v, g : [Record(w, g) EXCEPT !.weight = v] = Record(v, g)
  OBVIOUS
<1>4. \A v : QuantLinear(v) = Record(v, TRUE)
  BY Zenon DEF QuantLinear
<1> HIDE DEF Record
<1>5. \A v : [QuantLinear(w) EXCEPT !.weight = v] = QuantLinear(v)
  BY <1>2, <1>4, Zenon
<1>3. QED
  BY <1>1, <1>5, Zenon

LEMMA QuantizedSiteOf ==
  ASSUME NEW stream, NEW f, IsCheckpoint(f), ~Refused(f), NEW dtype, NEW limit \in Nat,
         StreamOf(stream, f, dtype, limit), NEW site \in DOMAIN Dims,
         QuantizeSite(stream, site, limit) # <<>>
  PROVE  StreamOf(QuantizeSite(stream, site, limit)[1], f, dtype, limit)
<1> DEFINE own == {s \in stream.byKey : s.name = Weight(site)}
           taken == CHOOSE s \in own : TRUE
           chunks == QuantizeChunked(taken.data, limit)
           model == [stream.model EXCEPT !.bases[site].weight = chunks]
           next == QuantizeSite(stream, site, limit)[1]
           covered == stream.covered \cup {Weight(site)}
<1>1. \A x : <<x>>[1] = x
  OBVIOUS
<1>2. CASE stream.model.bases[site].arm = "Plain"
  <2>1. QuantizeSite(stream, site, limit) = <<stream>>
    BY <1>2, Zenon DEF QuantizeSite
  <2>2. QED
    BY <1>1, <2>1, Zenon
<1>3. CASE stream.model.bases[site].arm # "Plain"
  <2>1. /\ own # {} /\ Quantizable(taken)
        /\ QuantizeSite(stream, site, limit) =
             <<[model |-> model, byKey |-> stream.byKey \ own, covered |-> covered]>>
    BY <1>3, Zenon DEF QuantizeSite
  <2>2. taken \in stream.byKey /\ taken.name = Weight(site)
    BY <2>1, Zenon
  <2>3. /\ TakenWeight(f, site, chunks, limit) /\ Len(chunks) \in Nat \ {0}
    <3> HIDE DEF taken
    <3>1. TakenWeight(f, site, chunks, limit) /\ \E m, n \in Nat : IsMatrix(taken.data, m, n)
      BY <2>1, <2>2, TakenIsOfFile
    <3>2. QED
      BY <3>1, SomeChunk
  <2> HIDE DEF own, taken, chunks
  <2>4. /\ {"model", "byKey", "covered"} \subseteq DOMAIN next
        /\ next.model = model /\ next.byKey = stream.byKey \ own /\ next.covered = covered
    <3> HIDE DEF model, covered
    <3>1. PICK a, b, c : a = model /\ b = stream.byKey \ own /\ c = covered
      OBVIOUS
    <3>2. next = [model |-> a, byKey |-> b, covered |-> c]
      BY <1>1, <2>1, <3>1, Zenon
    <3> HIDE DEF next
    <3>3. {"model", "byKey", "covered"} \subseteq DOMAIN next
          /\ next.model = a /\ next.byKey = b /\ next.covered = c
      BY <3>2
    <3>4. QED
      BY <3>1, <3>3, Zenon
  <2>5. /\ {"bases", "params"} \subseteq DOMAIN stream.model
        /\ stream.model.params = InitParams(Params, dtype)
        /\ DOMAIN stream.model.bases = DOMAIN Dims
        /\ \A p \in DOMAIN Dims : StreamSite(stream.model.bases[p], f, p, stream.covered, dtype, limit)
        /\ \A k \in stream.covered : \E p \in DOMAIN Dims : k = Weight(p) /\ stream.model.bases[p].arm = "Quant"
        /\ stream.byKey = {s \in Remapped(Snapshots(f)) : s.name \notin stream.covered}
    BY Zenon DEF StreamOf
  <2>6. /\ {"bases", "params"} \subseteq DOMAIN model /\ model.params = stream.model.params
        /\ model.bases = [stream.model.bases EXCEPT ![site].weight = chunks]
    <3>1. PICK m : m = stream.model
      OBVIOUS
    <3>2. {"bases", "params"} \subseteq DOMAIN m /\ model = [m EXCEPT !.bases[site].weight = chunks]
      BY <2>5, <3>1, Zenon
    <3> HIDE DEF model
    <3>3. /\ {"bases", "params"} \subseteq DOMAIN model /\ model.params = m.params
          /\ model.bases = [m.bases EXCEPT ![site].weight = chunks]
      BY <3>2
    <3>4. QED
      BY <3>1, <3>3, Zenon
  <2> DEFINE old == stream.model.bases
             bases == model.bases
  <2>7. /\ DOMAIN bases = DOMAIN Dims
        /\ \A p \in DOMAIN Dims : p # site => bases[p] = old[p]
        /\ bases[site] = [old[site] EXCEPT !.weight = chunks]
    <3> HIDE DEF old, model
    <3>1. bases = [old EXCEPT ![site].weight = chunks] /\ DOMAIN old = DOMAIN Dims
      BY <2>5, <2>6 DEF old
    <3> HIDE DEF bases
    <3>2. QED
      BY <3>1
  <2>8. PICK w : old[site] = QuantLinear(w)
    <3>1. InitBases(dtype)[site].arm = "Plain"
      BY InitBasesArePlain
    <3>2. QED
      BY <1>3, <2>5, <3>1, Zenon DEF StreamSite
  <2> HIDE DEF model, bases, old, next
  <2>9. bases[site] = QuantLinear(chunks) /\ QuantLinear(chunks).arm = "Quant"
    <3>1. bases[site] = [QuantLinear(w) EXCEPT !.weight = chunks]
      BY <2>7, <2>8, Zenon
    <3>2. [QuantLinear(w) EXCEPT !.weight = chunks] = QuantLinear(chunks)
      BY QuantFields
    <3>3. QED
      BY <3>1, <3>2, QuantFields, Zenon
  <2>10. ASSUME NEW p \in DOMAIN Dims
         PROVE  StreamSite(bases[p], f, p, covered, dtype, limit)
    <3>1. CASE p = site
      <4>1. \E v : /\ bases[p] = QuantLinear(v) /\ Len(v) \in Nat \ {0}
                   /\ Weight(p) \in covered => TakenWeight(f, p, v, limit)
        BY <2>3, <2>9, <3>1, Zenon
      <4>2. QED
        BY <4>1, Zenon DEF StreamSite
    <3>2. CASE p # site
      <4>1. Weight(p) \in covered <=> Weight(p) \in stream.covered
        BY <3>2, PathsOfSites, Zenon
      <4>2. bases[p] = old[p]
        BY <2>7, <3>2, Zenon
      <4>3. StreamSite(old[p], f, p, stream.covered, dtype, limit)
        BY <2>5, Zenon DEF old
      <4>4. QED
        BY <4>1, <4>2, <4>3, Zenon DEF StreamSite
    <3>3. QED
      BY <3>1, <3>2
  <2>11. ASSUME NEW k \in covered
         PROVE  \E p \in DOMAIN Dims : k = Weight(p) /\ bases[p].arm = "Quant"
    <3>1. CASE k \in stream.covered
      <4>1. PICK p \in DOMAIN Dims : k = Weight(p) /\ old[p].arm = "Quant"
        BY <2>5, <3>1, Zenon DEF old
      <4>2. bases[p].arm = "Quant"
        BY <2>7, <2>9, <4>1, Zenon
      <4>3. QED
        BY <4>1, <4>2, Zenon
    <3>2. CASE k \notin stream.covered
      BY <2>9, <3>2, Zenon
    <3>3. QED
      BY <3>1, <3>2
  <2>12. stream.byKey \ own = {s \in Remapped(Snapshots(f)) : s.name \notin covered}
    <3>1. \A s : s \in stream.byKey \ own <=> s \in stream.byKey /\ s.name # Weight(site)
      BY Zenon DEF own
    <3>2. QED
      BY <2>5, <3>1, Zenon
  <2>13. /\ {"bases", "params"} \subseteq DOMAIN next.model
         /\ next.model.params = InitParams(Params, dtype) /\ next.model.bases = bases
    BY <2>4, <2>5, <2>6, Zenon DEF bases
  <2>14. /\ DOMAIN next.model.bases = DOMAIN Dims
         /\ \A p \in DOMAIN Dims : StreamSite(next.model.bases[p], f, p, next.covered, dtype, limit)
    BY <2>4, <2>7, <2>10, <2>13, Zenon
  <2>15. \A k \in next.covered : \E p \in DOMAIN Dims : k = Weight(p) /\ next.model.bases[p].arm = "Quant"
    BY <2>4, <2>11, <2>13, Zenon
  <2>16. next.byKey = {s \in Remapped(Snapshots(f)) : s.name \notin next.covered}
    BY <2>4, <2>12, Zenon
  <2>17. StreamOf(next, f, dtype, limit)
    BY <2>4, <2>13, <2>14, <2>15, <2>16, Zenon DEF StreamOf
  <2>18. QED
    BY <2>17 DEF next
<1>4. QED
  BY <1>2, <1>3

(* No tensor of a checkpoint is under a weight.                              *)
LEMMA NoKeyUnderAWeight ==
  ASSUME NEW f, IsCheckpoint(f), NEW snapshots, Delivers(f, ModulePaths(f), snapshots),
         NEW p \in DOMAIN Dims, NEW x
  PROVE  Append(Weight(p), x) \notin KeysOf(snapshots)
<1> SUFFICES ASSUME NEW s \in snapshots, s.name = Append(Weight(p), x)
             PROVE  FALSE
  BY Zenon DEF KeysOf
<1>1. PICK n \in DOMAIN f : SnapshotOf(f, n, ModulePaths(f)[n], s)
  BY Zenon DEF Delivers
<1>2. KeyRemap(n) = Append(Weight(p), x)
  BY <1>1, Zenon DEF SnapshotOf, ModulePaths
<1>3. Front(KeyRemap(n)) = Weight(p)
  BY <1>2, UnderSites, Zenon
<1>4. QED
  BY <1>3, Zenon DEF IsCheckpoint

(* What is missing from the rest of a stream was taken by the pass.          *)
LEMMA CoveredIsAWeight ==
  ASSUME NEW stream, NEW f, NEW dtype, NEW limit, StreamOf(stream, f, dtype, limit)
  PROVE  /\ \A p \in DOMAIN Params : ~CoveredBy(stream, p)
         /\ \A p \in DOMAIN Dims : stream.model.bases[p].arm # "Quant" => ~CoveredBy(stream, Weight(p))
         /\ \A p \in DOMAIN Dims : \A x :
              CoveredBy(stream, Append(Weight(p), x)) => Weight(p) \in stream.covered
<1>1. \A k \in stream.covered : \E q \in DOMAIN Dims : k = Weight(q) /\ stream.model.bases[q].arm = "Quant"
  BY Zenon DEF StreamOf
<1>2. \A p \in DOMAIN Params : ~CoveredBy(stream, p)
  <2>1. \A p \in DOMAIN Params : \A q \in DOMAIN Dims : p # Weight(q) /\ Front(p) # Weight(q)
    BY PathsAssumption, Zenon
  <2>2. QED
    BY <1>1, <2>1, Zenon DEF CoveredBy
<1>3. ASSUME NEW p \in DOMAIN Dims, stream.model.bases[p].arm # "Quant"
      PROVE  ~CoveredBy(stream, Weight(p))
  <2>1. Front(Weight(p)) = p /\ \A q \in DOMAIN Dims : Weight(p) = Weight(q) => p = q
    BY PathsOfSites, Zenon
  <2>2. \A q \in DOMAIN Dims : p # Weight(q)
    BY PathsAssumption, Zenon
  <2>3. Weight(p) \notin stream.covered
    <3> SUFFICES ASSUME Weight(p) \in stream.covered
                 PROVE  FALSE
      OBVIOUS
    <3>1. PICK q \in DOMAIN Dims : Weight(p) = Weight(q) /\ stream.model.bases[q].arm = "Quant"
      BY <1>1, Zenon
    <3>2. p = q
      BY <2>1, <3>1, Zenon
    <3>3. QED
      BY <1>3, <3>1, <3>2
  <2>4. p \notin stream.covered
    BY <1>1, <2>2, Zenon
  <2>5. QED
    BY <2>1, <2>3, <2>4, Zenon DEF CoveredBy
<1>4. ASSUME NEW p \in DOMAIN Dims, NEW x, CoveredBy(stream, Append(Weight(p), x))
      PROVE  Weight(p) \in stream.covered
  <2>1. Front(Append(Weight(p), x)) = Weight(p) /\ \A q \in DOMAIN Dims : Append(Weight(p), x) # Weight(q)
    BY UnderSites
  <2>2. QED
    BY <1>1, <1>4, <2>1, Zenon DEF CoveredBy
<1>5. QED
  BY <1>2, <1>3, <1>4, Zenon

LEMMA RestLoaded ==
  ASSUME NEW stream, NEW f, IsCheckpoint(f), ~Refused(f), NEW dtype, NEW limit,
         StreamOf(stream, f, dtype, limit), ApplyRest(stream, dtype) # <<>>, NEW quant
  PROVE  ModelLoaded(NoGrad(ApplyRest(stream, dtype)[1]), f, dtype, limit, quant)
<1> DEFINE snapshots == stream.byKey
           model == stream.model
           result == Apply(model, snapshots, dtype)
<1>1. \A x : <<x>>[1] = x
  OBVIOUS
<1>2. /\ ApplyRest(stream, dtype) = <<result.model>>
      /\ Apply(model, snapshots, dtype).errors = {} /\ Apply(model, snapshots, dtype).unused = {}
      /\ \A p \in Apply(model, snapshots, dtype).missing : CoveredBy(stream, p)
  BY Zenon DEF ApplyRest
<1>3. ApplyRest(stream, dtype)[1] = Apply(model, snapshots, dtype).model
  BY <1>1, <1>2, Zenon
<1>4. /\ {"bases", "params"} \subseteq DOMAIN model /\ model.params = InitParams(Params, dtype)
      /\ DOMAIN model.bases = DOMAIN Dims
      /\ \A p \in DOMAIN Dims : StreamSite(model.bases[p], f, p, stream.covered, dtype, limit)
      /\ snapshots = {s \in Remapped(Snapshots(f)) : s.name \notin stream.covered}
  BY Zenon DEF StreamOf
<1>5. DOMAIN model.params = DOMAIN Params
  BY <1>4, Zenon DEF InitParams
<1>6. Delivers(f, ModulePaths(f), snapshots)
  BY StreamDelivers
<1> HIDE DEF model, snapshots
<1>7. ASSUME NEW p \in DOMAIN Dims
      PROVE  /\ p \in PlainSites(model) =>
                  /\ model.bases[p].arm # "Quant"
                  /\ IsMatrix(model.bases[p].weight, Dims[p][2], Dims[p][1])
             /\ p \notin PlainSites(model) =>
                  \E w : /\ model.bases[p] = QuantLinear(w) /\ Len(w) \in Nat \ {0}
                         /\ Weight(p) \in stream.covered => TakenWeight(f, p, w, limit)
  <2>1. CASE model.bases[p] = InitBases(dtype)[p]
    <3>1. /\ InitBases(dtype)[p].arm = "Plain"
          /\ IsMatrix(InitBases(dtype)[p].weight, Dims[p][2], Dims[p][1])
      BY InitBasesArePlain
    <3>2. model.bases[p].arm # "Quant" /\ model.bases[p].arm = "Plain"
      BY <2>1, <3>1
    <3>3. QED
      BY <1>4, <2>1, <3>1, <3>2, Zenon DEF PlainSites
  <2>2. ASSUME NEW w, model.bases[p] = QuantLinear(w), Len(w) \in Nat \ {0},
               Weight(p) \in stream.covered => TakenWeight(f, p, w, limit)
        PROVE  p \notin PlainSites(model)
    <3>1. model.bases[p].arm # "Plain"
      BY <2>2, QuantFields, Zenon
    <3>2. QED
      BY <3>1, Zenon DEF PlainSites
  <2>3. QED
    BY <1>4, <2>1, <2>2, Zenon DEF StreamSite
<1>8. /\ Apply(model, snapshots, dtype).missing = Visited(model) \ FoundIn(model, snapshots)
      /\ Apply(model, snapshots, dtype).unused = KeysOf(snapshots) \ Visited(model)
  BY Applied, Zenon
<1>9. \A p \in Visited(model) : p \in FoundIn(model, snapshots) \/ CoveredBy(stream, p)
  BY <1>2, <1>8, Zenon
<1>10. \A p \in DOMAIN Params : p \in FoundIn(model, snapshots)
  <2>1. \A p \in DOMAIN Params : p \in Visited(model)
    BY <1>5, Zenon DEF Visited
  <2>2. QED
    BY <1>9, <2>1, CoveredIsAWeight, Zenon
<1>11. \A p \in PlainSites(model) : p \in DOMAIN Dims /\ Weight(p) \in FoundIn(model, snapshots)
  <2>1. \A p \in PlainSites(model) : p \in DOMAIN Dims /\ Weight(p) \in Visited(model)
    BY <1>4, Zenon DEF Visited, PlainSites
  <2>2. \A p \in PlainSites(model) : model.bases[p].arm # "Quant"
    BY <1>7, <2>1, Zenon
  <2>3. \A p \in PlainSites(model) : ~CoveredBy(stream, Weight(p))
    BY <2>1, <2>2, CoveredIsAWeight, Zenon DEF model
  <2>4. QED
    BY <1>9, <2>1, <2>3, Zenon
<1>12. /\ \A p \in DOMAIN Params : ParamLoaded(Apply(model, snapshots, dtype).model.params[p], f, TensorOf(f, p), p, dtype)
       /\ \A p \in PlainSites(model) : SiteLoaded(Frozen(Apply(model, snapshots, dtype).model.bases[p]), f, p, dtype, limit)
  <2>1. /\ \A p \in DOMAIN Params : p \in FoundIn(model, snapshots) =>
             ParamLoaded(Apply(model, snapshots, dtype).model.params[p], f, TensorOf(f, p), p, dtype)
        /\ \A p \in PlainSites(model) :
             /\ Weight(p) \in FoundIn(model, snapshots)
             /\ IsMatrix(model.bases[p].weight, Dims[p][2], Dims[p][1])
             => SiteLoaded(Frozen(Apply(model, snapshots, dtype).model.bases[p]), f, p, dtype, limit)
    BY <1>2, <1>4, <1>6, FoundIsLoaded
  <2>2. \A p \in PlainSites(model) : IsMatrix(model.bases[p].weight, Dims[p][2], Dims[p][1])
    BY <1>7, <1>11, Zenon
  <2>3. QED
    BY <1>10, <1>11, <2>1, <2>2, Zenon
<1>13. ASSUME NEW p \in DOMAIN Dims, p \notin PlainSites(model)
       PROVE  SiteLoaded(Frozen(Apply(model, snapshots, dtype).model.bases[p]), f, p, dtype, limit)
  <2>1. PICK w : /\ model.bases[p] = QuantLinear(w) /\ Len(w) \in Nat \ {0}
                 /\ Weight(p) \in stream.covered => TakenWeight(f, p, w, limit)
    BY <1>7, <1>13, Zenon
  <2>2. model.bases[p].weight = w
    BY <2>1, QuantFields, Zenon
  <2>3. 1 \in 1 .. Len(model.bases[p].weight)
    BY <2>1, <2>2
  <2> DEFINE chunk == Append(Weight(p), ToString(1))
  <2>4. chunk \in Visited(model)
    <3>1. p \in DOMAIN model.bases \ PlainSites(model)
      BY <1>4, <1>13, Zenon
    <3>2. chunk \in {Append(Weight(p), ToString(k)) : k \in 1 .. Len(model.bases[p].weight)}
      BY <2>3, Zenon
    <3>3. QED
      BY <3>1, <3>2, Zenon DEF Visited
  <2>5. chunk \notin FoundIn(model, snapshots)
    BY <1>6, NoKeyUnderAWeight, Zenon DEF FoundIn
  <2>6. CoveredBy(stream, chunk)
    BY <1>9, <2>4, <2>5, Zenon
  <2>7. Weight(p) \in stream.covered
    BY <2>6, CoveredIsAWeight, Zenon
  <2>8. TakenWeight(f, p, w, limit)
    BY <2>1, <2>7, Zenon
  <2>9. Apply(model, snapshots, dtype).model.bases[p] = QuantLinear(w)
    <3>1. Apply(model, snapshots, dtype).model.bases[p] = model.bases[p]
      BY <1>4, <1>13, AppliedBase
    <3>2. QED
      BY <1>13, <2>1, <3>1, Zenon
  <2>10. QED
    BY <2>8, <2>9, Zenon DEF TakenWeight, SiteLoaded
<1>14. /\ {"bases", "params"} \subseteq DOMAIN Apply(model, snapshots, dtype).model
       /\ DOMAIN Apply(model, snapshots, dtype).model.bases = DOMAIN Dims
  <2>1. /\ {"bases", "params"} \subseteq DOMAIN Apply(model, snapshots, dtype).model
        /\ DOMAIN Apply(model, snapshots, dtype).model.bases = DOMAIN model.bases
    BY AppliedModel
  <2>2. QED
    BY <1>4, <2>1, Zenon
<1>15. Consumed(f, quant)
  <2> DEFINE paths == DOMAIN Params \cup {Weight(p) : p \in DOMAIN Dims}
  <2>1. ASSUME NEW s \in Remapped(Snapshots(f))
        PROVE  s.name \in paths
    <3>1. CASE s.name \in stream.covered
      BY <3>1, Zenon DEF StreamOf
    <3>2. CASE s.name \notin stream.covered
      <4>1. s.name \in KeysOf(snapshots)
        BY <1>4, <3>2, Zenon DEF KeysOf
      <4>2. s.name \in Visited(model)
        BY <1>2, <1>8, <4>1, Zenon
      <4>3. \A p \in DOMAIN Dims : \A x : s.name # Append(Weight(p), x)
        BY <1>6, <4>1, NoKeyUnderAWeight, Zenon
      <4>4. CASE s.name \in DOMAIN model.params
        BY <1>5, <4>4, Zenon
      <4>5. CASE s.name \in {Weight(p) : p \in PlainSites(model)}
        BY <1>11, <4>5, Zenon
      <4>6. CASE s.name \in UNION {{Append(Weight(p), ToString(k)) : k \in 1 .. Len(model.bases[p].weight)} :
                                      p \in DOMAIN model.bases \ PlainSites(model)}
        BY <1>4, <4>3, <4>6, Zenon
      <4>7. QED
        BY <4>2, <4>4, <4>5, <4>6, Zenon DEF Visited
    <3>3. QED
      BY <3>1, <3>2
  <2> HIDE DEF paths
  <2>2. \A name \in DOMAIN f : KeyRemap(name) \in paths \/ name \in UsedScales(f) \/ (IsFp8(f) /\ Marker(name))
    BY <2>1, NothingUnused
  <2>3. QED
    BY <2>2, Zenon DEF Consumed, paths
<1>16. PICK m : m = Apply(model, snapshots, dtype).model
  OBVIOUS
<1>17. /\ {"bases", "params"} \subseteq DOMAIN m /\ DOMAIN m.bases = DOMAIN Dims
       /\ \A p \in DOMAIN Params : ParamLoaded(m.params[p], f, TensorOf(f, p), p, dtype)
       /\ \A p \in DOMAIN Dims : SiteLoaded(Frozen(m.bases[p]), f, p, dtype, limit)
  BY <1>12, <1>13, <1>14, <1>16, Zenon
<1>18. /\ {"bases", "params"} \subseteq DOMAIN NoGrad(m) /\ NoGrad(m).params = m.params
       /\ DOMAIN NoGrad(m).bases = DOMAIN m.bases
       /\ \A p \in DOMAIN m.bases : NoGrad(m).bases[p] = Frozen(m.bases[p])
  BY <1>17, NoGradFreezes
<1>19. ModelLoaded(NoGrad(m), f, dtype, limit, quant)
  BY <1>15, <1>17, <1>18, Zenon DEF ModelLoaded
<1>20. QED
  BY <1>3, <1>16, <1>19, Zenon

-----------------------------------------------------------------------------
(* The rows a forward multiplies with *)

(* The clauses of SiteIsTheFile, for a base, a checkpoint and an adapter.    *)
BlockAt(o, i) ==
  LET first == ((i - 1) \div QuantBlock) * QuantBlock + 1
  IN  {<<o, k>> : k \in first .. first + QuantBlock - 1}
DeltasAre(plus, f, adapter, site, o, i) ==
  IF adapter = <<>> THEN plus = <<>>
  ELSE LET downs == DownsOf(adapter[1], site)
       IN  IF downs = {} THEN plus = <<>>
           ELSE /\ Len(plus) = 1
                /\ \E d \in downs : IsDelta(plus[1], adapter[1], d, o, i)
ElementIs(e, arm, f, adapter, site, name, o, i) ==
  /\ e.of = name /\ e.at = <<o, i>> /\ e.scale = OwnScale(f, name, o, i)
  /\ e.block = (IF arm = "Plain" THEN {} ELSE BlockAt(o, i))
  /\ DeltasAre(e.plus, f, adapter, site, o, i)
SiteIs(base, f, adapter, site, precision) ==
  LET name == TensorOf(f, Weight(site))
      rows == ForwardRows(base)
  IN  /\ Len(rows) = f[name].shape[1] /\ ~base.grad
      /\ base.dtype = (IF base.arm = "Quant" THEN "Q" ELSE precision)
      /\ \A o \in 1 .. Len(rows) : \A i \in 1 .. f[name].shape[2] :
           ElementIs(rows[o][i], base.arm, f, adapter, site, name, o, i)

InBlock(e, x) == [e EXCEPT !.block = x]
WithDelta(e, x) == [e EXCEPT !.plus = Append(@, x)]

LEMMA Blocked ==
  ASSUME NEW of, NEW at, NEW scale, NEW block, NEW plus, NEW x,
         NEW e, e = [of |-> of, at |-> at, scale |-> scale, block |-> block, plus |-> plus],
         NEW d, d = [e EXCEPT !.block = x]
  PROVE  d.of = of /\ d.at = at /\ d.scale = scale /\ d.block = x /\ d.plus = plus
OBVIOUS

IsElem(e, of, at, scale, block) ==
  e = [of |-> of, at |-> at, scale |-> scale, block |-> block, plus |-> <<>>]

LEMMA OwnFields ==
  ASSUME NEW f, NEW name, NEW i, NEW j,
         NEW at, at = <<i, j>>, NEW scale, scale = OwnScale(f, name, i, j), NEW block, block = {}
  PROVE  IsElem(Own(f, name, i, j), name, at, scale, block)
<1>1. PICK e : e = Elem(name, i, j)
  OBVIOUS
<1>2. e = [of |-> name, at |-> at, scale |-> 0, block |-> block, plus |-> <<>>]
  BY <1>1, Zenon DEF Elem
<1>3. PICK d : d = [e EXCEPT !.scale = scale]
  OBVIOUS
<1>4. d = [of |-> name, at |-> at, scale |-> scale, block |-> block, plus |-> <<>>]
  BY <1>2, <1>3
<1>5. d = Own(f, name, i, j)
  BY <1>1, <1>3, Zenon DEF Own
<1>6. QED
  BY <1>4, <1>5, Zenon DEF IsElem

(* An element as the file has it, in a quantization block, or with a delta.  *)
LEMMA OwnPlain ==
  ASSUME NEW f, NEW name, NEW i, NEW j, NEW e, e = Own(f, name, i, j)
  PROVE  /\ e.of = name /\ e.at = <<i, j>> /\ e.scale = OwnScale(f, name, i, j)
         /\ e.block = {} /\ e.plus = <<>>
<1>3. PICK at, block, scale : at = <<i, j>> /\ block = {} /\ scale = OwnScale(f, name, i, j)
  BY Zenon
<1>1. IsElem(Own(f, name, i, j), name, at, scale, block)
  BY <1>3, OwnFields
<1>4. e = [of |-> name, at |-> at, scale |-> scale, block |-> block, plus |-> <<>>]
  BY <1>1, Zenon DEF IsElem
<1>2. e.of = name /\ e.at = at /\ e.scale = scale /\ e.block = block /\ e.plus = <<>>
  BY <1>4
<1>5. QED
  BY <1>2, <1>3, Zenon

LEMMA OwnBlocked ==
  ASSUME NEW f, NEW name, NEW i, NEW j, NEW x, NEW e, e = InBlock(Own(f, name, i, j), x)
  PROVE  /\ e.of = name /\ e.at = <<i, j>> /\ e.scale = OwnScale(f, name, i, j)
         /\ e.block = x /\ e.plus = <<>>
<1>1. PICK at, block, scale : at = <<i, j>> /\ block = {} /\ scale = OwnScale(f, name, i, j)
  BY Zenon
<1>6. IsElem(Own(f, name, i, j), name, at, scale, block)
  BY <1>1, OwnFields
<1>2. PICK o : o = Own(f, name, i, j)
  OBVIOUS
<1>3. o = [of |-> name, at |-> at, scale |-> scale, block |-> block, plus |-> <<>>] /\ e = [o EXCEPT !.block = x]
  BY <1>2, <1>6, Zenon DEF IsElem, InBlock
<1>4. e.of = name /\ e.at = at /\ e.scale = scale /\ e.block = x /\ e.plus = <<>>
  BY <1>3, Blocked
<1>5. QED
  BY <1>1, <1>4, Zenon

LEMMA OwnAdded ==
  ASSUME NEW f, NEW name, NEW i, NEW j, NEW x, NEW e, e = WithDelta(Own(f, name, i, j), x)
  PROVE  /\ e.of = name /\ e.at = <<i, j>> /\ e.scale = OwnScale(f, name, i, j)
         /\ e.block = {} /\ e.plus = <<x>>
<1>1. PICK at, block, scale : at = <<i, j>> /\ block = {} /\ scale = OwnScale(f, name, i, j)
  BY Zenon
<1>6. IsElem(Own(f, name, i, j), name, at, scale, block)
  BY <1>1, OwnFields
<1>2. PICK o : o = Own(f, name, i, j)
  OBVIOUS
<1>3. o = [of |-> name, at |-> at, scale |-> scale, block |-> block, plus |-> <<>>]
      /\ e = [o EXCEPT !.plus = Append(@, x)]
  BY <1>2, <1>6, Zenon DEF IsElem, WithDelta
<1>4. e.of = name /\ e.at = at /\ e.scale = scale /\ e.block = block /\ e.plus = <<x>>
  <2>1. PICK y : y = Append(o.plus, x)
    OBVIOUS
  <2>2. e = [o EXCEPT !.plus = y]
    BY <1>3, <2>1, Zenon
  <2>3. o.plus = <<>>
    BY <1>3
  <2>4. y = <<x>>
    BY <2>1, <2>3
  <2>5. o = [of |-> name, at |-> at, scale |-> scale, block |-> block, plus |-> <<>>]
    BY <1>3
  <2>6. e.of = name /\ e.at = at /\ e.scale = scale /\ e.block = block /\ e.plus = y
    BY <2>2, <2>5
  <2>7. QED
    BY <2>4, <2>6
<1>5. QED
  BY <1>1, <1>4, Zenon

(* A quantization block of whole rows of blocks stays within its row.        *)
LEMMA BlockInRow ==
  ASSUME NEW c \in Nat \ {0}, NEW n \in Nat, (n % c) = 0, NEW i \in 1 .. n
  PROVE  LET b == (i - 1) \div c
         IN  b * c + 1 >= 1 /\ (b + 1) * c <= n /\ (b + 1) * c = b * c + 1 + c - 1
             /\ b * c + 1 \in Int /\ (b + 1) * c \in Int
<1> DEFINE b == (i - 1) \div c
           q == n \div c
<1>1. i - 1 \in Nat
  OBVIOUS
<1>2. b \in Nat /\ (i - 1) % c \in 0 .. c - 1 /\ i - 1 = b * c + ((i - 1) % c)
  BY <1>1, Quotient
<1>3. q \in Nat /\ n = q * c + (n % c)
  BY Quotient
<1> HIDE DEF b, q
<1>4. b * c \in Nat /\ q * c \in Nat
  BY <1>2, <1>3
<1>5. b * c < q * c
  BY <1>2, <1>3, <1>4
<1>6. b < q
  BY <1>2, <1>3, <1>5, Z3
<1>7. (b + 1) * c = b * c + c /\ (b + 1) * c <= q * c
  BY <1>2, <1>3, <1>6, Z3
<1>8. q * c = n
  BY <1>3, <1>4
<1>9. QED
  BY <1>4, <1>7, <1>8 DEF b

OwnElements(w, f, name, m, n) == \A i \in 1 .. m : \A j \in 1 .. n : w[i][j] = Own(f, name, i, j)
AllBlocks(n) == (n % QuantBlock) = 0
FieldsAre(e, name, at, scale, block, plus) ==
  e.of = name /\ e.at = at /\ e.scale = scale /\ e.block = block /\ e.plus = plus

LEMMA QuantizedElement ==
  ASSUME NEW f, NEW name, NEW m \in Nat, NEW n \in Nat, AllBlocks(n),
         NEW w, OwnElements(w, f, name, m, n),
         NEW o \in 1 .. m, NEW i \in 1 .. n
  PROVE  FieldsAre(Quantized(w, o, i), name, <<o, i>>, OwnScale(f, name, o, i), BlockAt(o, i), <<>>)
<1> DEFINE b == (i - 1) \div QuantBlock
           low == b * QuantBlock + 1
           high == (b + 1) * QuantBlock
           first == b * QuantBlock + 1
<1>1. QuantBlock \in Nat \ {0}
  BY FrozenLinearAssumption, Zenon
<1>2. low >= 1 /\ high <= n /\ high = first + QuantBlock - 1 /\ low \in Int /\ high \in Int
  <2>1. (n % QuantBlock) = 0
    BY DEF AllBlocks
  <2>2. QED
    BY <1>1, <2>1, BlockInRow
<1>3. Quantized(w, o, i) = [w[o][i] EXCEPT !.block = {w[o][k].at : k \in low .. high}]
  BY Zenon DEF Quantized
<1>4. BlockAt(o, i) = {<<o, k>> : k \in first .. first + QuantBlock - 1}
  BY Zenon DEF BlockAt
<1> HIDE DEF low, high, b
<1>5. low = first
  BY DEF low, b
<1> HIDE DEF first
<1>6. \A k \in low .. high : k \in 1 .. n
  BY <1>2
<1>7. ASSUME NEW k \in low .. high
      PROVE  w[o][k].at = <<o, k>>
  <2>1. w[o][k] = Own(f, name, o, k)
    BY <1>6, Zenon DEF OwnElements
  <2>2. QED
    <3>1. PICK e : e = w[o][k]
      OBVIOUS
    <3>2. e = Own(f, name, o, k)
      BY <2>1, <3>1, Zenon
    <3>3. e.at = <<o, k>>
      BY <3>2, OwnPlain
    <3>4. QED
      BY <3>1, <3>3, Zenon
<1>8. {w[o][k].at : k \in low .. high} = {<<o, k>> : k \in low .. high}
  BY <1>7, Zenon
<1>9. low .. high = first .. first + QuantBlock - 1
  BY <1>2, <1>5, Zenon
<1>10. {w[o][k].at : k \in low .. high} = BlockAt(o, i)
  BY <1>4, <1>8, <1>9, Zenon
<1>11. w[o][i] = Own(f, name, o, i)
  BY Zenon DEF OwnElements
<1>12. PICK e, x : e = Quantized(w, o, i) /\ x = BlockAt(o, i)
  BY Zenon
<1>13. e = InBlock(Own(f, name, o, i), x)
  BY <1>3, <1>10, <1>11, <1>12, Zenon DEF InBlock
<1>14. /\ e.of = name /\ e.at = <<o, i>> /\ e.scale = OwnScale(f, name, o, i)
       /\ e.block = x /\ e.plus = <<>>
  BY <1>13, OwnBlocked
<1>15. QED
  BY <1>12, <1>14, Zenon DEF FieldsAre

LEMMA ShapeOfMatrix ==
  ASSUME NEW shape \in Seq(Nat), Len(shape) = 2
  PROVE  /\ Rows(shape) = shape[1] /\ Cols(shape) = shape[2]
         /\ shape[1] \in Nat /\ shape[2] \in Nat
<1>5. Len(shape) # 0 /\ Len(shape) \in Nat
  OBVIOUS
<1>1. shape # <<>>
  BY <1>5, EmptySeq, Zenon
<1>2. shape[1] \in Nat /\ shape[2] \in Nat
  <2>1. 1 \in 1 .. Len(shape)
    OBVIOUS
  <2>2. 2 \in 1 .. Len(shape)
    OBVIOUS
  <2>3. \A i \in 1 .. Len(shape) : shape[i] \in Nat
    BY ElementOfSeq
  <2>4. QED
    BY <2>1, <2>2, <2>3, Zenon
<1>3. Last(shape) = shape[2]
  BY Zenon DEF Last
<1>4. QED
  BY <1>1, <1>2, <1>3, Zenon DEF Rows, Cols

LEMMA DataIsMatrix ==
  ASSUME NEW f, NEW name
  PROVE  /\ IsMatrix(DataOf(f, name), Rows(f[name].shape), Cols(f[name].shape))
         /\ \A i \in 1 .. Rows(f[name].shape) : \A j \in 1 .. Cols(f[name].shape) :
              DataOf(f, name)[i][j] = Own(f, name, i, j)
BY Zenon DEF IsMatrix, Matrix, DataOf

LEMMA TransposeOf ==
  ASSUME NEW v, NEW a \in Nat, NEW b \in Nat, IsMatrix(v, a, b)
  PROVE  /\ IsMatrix(Transpose(v), IF a = 0 THEN 0 ELSE b, a)
         /\ \A i \in 1 .. b : \A j \in 1 .. a : Transpose(v)[i][j] = v[j][i]
<1>1. Len(v) = a /\ Columns(v) = (IF a = 0 THEN 0 ELSE b)
  BY MatrixSize
<1>2. IsMatrix(Transpose(v), Columns(v), Len(v))
  BY TransposedIsMatrix
<1>3. ASSUME NEW i \in 1 .. b, NEW j \in 1 .. a
      PROVE  Transpose(v)[i][j] = v[j][i]
  <2>1. a # 0
    OBVIOUS
  <2>2. i \in 1 .. Columns(v) /\ j \in 1 .. Len(v)
    BY <1>1, <2>1
  <2>3. QED
    BY <2>2, Zenon DEF Transpose, Matrix
<1>4. QED
  BY <1>1, <1>2, <1>3, Zenon

(* Storage holds the transpose of a file's matrix, and the forward           *)
(* transposes it back.                                                       *)
LEMMA StoredRows ==
  ASSUME NEW d, NEW m \in Nat, NEW n \in Nat, IsMatrix(d, m, n), m # 0 => n # 0
  PROVE  /\ IsMatrix(Transpose(d), IF m = 0 THEN 0 ELSE n, m)
         /\ Len(Transpose(d)) = (IF m = 0 THEN 0 ELSE n) /\ Columns(Transpose(d)) = m
         /\ \A o \in 1 .. m : \A i \in 1 .. n : Transpose(d)[i][o] = d[o][i]
<1>1. /\ IsMatrix(Transpose(d), IF m = 0 THEN 0 ELSE n, m)
      /\ \A i \in 1 .. n : \A o \in 1 .. m : Transpose(d)[i][o] = d[o][i]
  BY TransposeOf
<1>2. PICK k \in Nat : k = IF m = 0 THEN 0 ELSE n
  OBVIOUS
<1>3. Len(Transpose(d)) = k /\ Columns(Transpose(d)) = IF k = 0 THEN 0 ELSE m
  BY <1>1, <1>2, MatrixSize
<1>4. (IF k = 0 THEN 0 ELSE m) = m
  BY <1>2
<1>5. Len(Transpose(d)) = k /\ Columns(Transpose(d)) = m
  BY <1>3, <1>4, Zenon
<1>6. QED
  BY <1>1, <1>2, <1>5, Zenon

(* The rows of a weight in storage.                                          *)
LEMMA RowsOfStored ==
  ASSUME NEW w, NEW m \in Nat, NEW n \in Nat, IsMatrix(w, IF m = 0 THEN 0 ELSE n, m), m # 0 => n # 0
  PROVE  /\ Len(Transpose(w)) = m
         /\ \A o \in 1 .. m : \A i \in 1 .. n : Transpose(w)[o][i] = w[i][o]
<1>1. PICK k \in Nat : k = IF m = 0 THEN 0 ELSE n
  OBVIOUS
<1>2. IsMatrix(w, k, m)
  BY <1>1, Zenon
<1>3. /\ IsMatrix(Transpose(w), IF k = 0 THEN 0 ELSE m, k)
      /\ \A o \in 1 .. m : \A i \in 1 .. k : Transpose(w)[o][i] = w[i][o]
  BY <1>2, TransposeOf
<1>4. (IF k = 0 THEN 0 ELSE m) = m
  BY <1>1
<1>5. Len(Transpose(w)) = m
  <2>1. IsMatrix(Transpose(w), m, k)
    BY <1>3, <1>4, Zenon
  <2>2. QED
    BY <2>1, MatrixSize
<1>6. \A o \in 1 .. m : k = n
  BY <1>1
<1>7. QED
  BY <1>3, <1>5, <1>6, Zenon

LEMMA FrozenPlain ==
  ASSUME NEW w, NEW dtype
  PROVE  /\ Frozen(PlainLinear(w, dtype)).arm = "Plain" /\ Frozen(PlainLinear(w, dtype)).weight = w
         /\ Frozen(PlainLinear(w, dtype)).dtype = dtype /\ ~Frozen(PlainLinear(w, dtype)).grad
<1> DEFINE Record(v, g) == [[arm |-> "Plain", weight |-> w, dtype |-> dtype, grad |-> v] EXCEPT !.grad = g]
           HasFields(x, g) == x.arm = "Plain" /\ x.weight = w /\ x.dtype = dtype /\ x.grad = g
<1>1. \A v, g : HasFields(Record(v, g), g)
  OBVIOUS
<1> HIDE DEF Record, HasFields
<1>2. HasFields(Record(TRUE, FALSE), FALSE)
  BY <1>1, Zenon
<1>3. Frozen(PlainLinear(w, dtype)) = Record(TRUE, FALSE)
  BY Zenon DEF Frozen, PlainLinear, QuantLinear, Record
<1>4. HasFields(Frozen(PlainLinear(w, dtype)), FALSE)
  BY <1>2, <1>3, Zenon
<1>5. QED
  BY <1>4, Zenon DEF HasFields

LEMMA FrozenQuant ==
  ASSUME NEW w
  PROVE  /\ Frozen(QuantLinear(w)).arm = "Quant" /\ Frozen(QuantLinear(w)).weight = w
         /\ Frozen(QuantLinear(w)).dtype = "Q" /\ ~Frozen(QuantLinear(w)).grad
<1> DEFINE Record(v, g) == [[arm |-> "Quant", weight |-> w, dtype |-> "Q", grad |-> v] EXCEPT !.grad = g]
           HasFields(x, g) == x.arm = "Quant" /\ x.weight = w /\ x.dtype = "Q" /\ x.grad = g
<1>1. \A v, g : HasFields(Record(v, g), g)
  OBVIOUS
<1> HIDE DEF Record, HasFields
<1>2. HasFields(Record(TRUE, FALSE), FALSE)
  BY <1>1, Zenon
<1>3. Frozen(QuantLinear(w)) = Record(TRUE, FALSE)
  BY Zenon DEF Frozen, PlainLinear, QuantLinear, Record
<1>4. HasFields(Frozen(QuantLinear(w)), FALSE)
  BY <1>2, <1>3, Zenon
<1>5. QED
  BY <1>4, Zenon DEF HasFields

(* A site no delta is meant for is its tensor of the file.                   *)
LEMMA SiteUntouched ==
  ASSUME NEW base, NEW f, NEW path, NEW dtype, NEW limit \in Nat, NEW adapter,
         SiteLoaded(base, f, path, dtype, limit),
         adapter # <<>> => DownsOf(adapter[1], path) = {}
  PROVE  SiteIs(base, f, adapter, path, dtype)
<1> DEFINE name == TensorOf(f, Weight(path))
           d == DataOf(f, name)
           rows == ForwardRows(base)
<1>1. f[name].shape \in Seq(Nat) /\ Len(f[name].shape) = 2
  BY Zenon DEF SiteLoaded
<1>2. PICK m \in Nat : m = f[name].shape[1] /\ m = Rows(f[name].shape)
  BY <1>1, ShapeOfMatrix
<1>3. PICK n \in Nat : n = f[name].shape[2] /\ n = Cols(f[name].shape)
  BY <1>1, ShapeOfMatrix
<1>4. IsMatrix(d, m, n) /\ \A i \in 1 .. m : \A j \in 1 .. n : d[i][j] = Own(f, name, i, j)
  <2>1. /\ IsMatrix(d, Rows(f[name].shape), Cols(f[name].shape))
        /\ \A i \in 1 .. Rows(f[name].shape) : \A j \in 1 .. Cols(f[name].shape) : d[i][j] = Own(f, name, i, j)
    BY DataIsMatrix, Zenon
  <2> HIDE DEF d, name
  <2>2. QED
    BY <1>2, <1>3, <2>1, Zenon
<1>5. \A o, i : DeltasAre(<<>>, f, adapter, path, o, i)
  BY Zenon DEF DeltasAre
<1>6. \/ base = Frozen(PlainLinear(Transpose(d), dtype)) /\ (m # 0 => n # 0)
      \/ base = Frozen(QuantLinear(QuantizeChunked(d, limit))) /\ (m # 0 => (n % QuantBlock) = 0)
  BY <1>2, <1>3, Zenon DEF SiteLoaded
<1> HIDE DEF name, d
<1>7. CASE base = Frozen(PlainLinear(Transpose(d), dtype)) /\ (m # 0 => n # 0)
  <2>1. base.arm = "Plain" /\ base.weight = Transpose(d) /\ base.dtype = dtype /\ ~base.grad
    <3>1. PICK w : w = Transpose(d)
      OBVIOUS
    <3>2. /\ Frozen(PlainLinear(w, dtype)).arm = "Plain" /\ Frozen(PlainLinear(w, dtype)).weight = w
          /\ Frozen(PlainLinear(w, dtype)).dtype = dtype /\ ~Frozen(PlainLinear(w, dtype)).grad
      BY FrozenPlain
    <3>3. base = Frozen(PlainLinear(w, dtype))
      BY <1>7, <3>1, Zenon
    <3>4. QED
      BY <3>1, <3>2, <3>3, Zenon
  <2>2. rows = Transpose(Transpose(d))
    BY <2>1, Zenon DEF ForwardRows
  <2>3. /\ IsMatrix(Transpose(d), IF m = 0 THEN 0 ELSE n, m)
        /\ \A o \in 1 .. m : \A i \in 1 .. n : Transpose(d)[i][o] = d[o][i]
    BY <1>4, <1>7, StoredRows
  <2>4. /\ Len(Transpose(Transpose(d))) = m
        /\ \A o \in 1 .. m : \A i \in 1 .. n : Transpose(Transpose(d))[o][i] = Transpose(d)[i][o]
    BY <1>7, <2>3, RowsOfStored
  <2> HIDE DEF rows
  <2>5. ASSUME NEW o \in 1 .. m, NEW i \in 1 .. n
        PROVE  ElementIs(rows[o][i], "Plain", f, adapter, path, name, o, i)
    <3>1. PICK e : e = rows[o][i]
      OBVIOUS
    <3>2. e = Own(f, name, o, i)
      <4>1. d[o][i] = Own(f, name, o, i)
        BY <1>4, Zenon
      <4>2. Transpose(d)[i][o] = d[o][i]
        BY <2>3, Zenon
      <4>3. Transpose(Transpose(d))[o][i] = Transpose(d)[i][o]
        BY <2>4, Zenon
      <4>4. QED
        BY <2>2, <3>1, <4>1, <4>2, <4>3, Zenon
    <3>3. /\ e.of = name /\ e.at = <<o, i>> /\ e.scale = OwnScale(f, name, o, i)
          /\ e.block = {} /\ e.plus = <<>>
      BY <3>2, OwnPlain
    <3>4. QED
      BY <1>5, <3>1, <3>3, Zenon DEF ElementIs
  <2>6. Len(rows) = m
    BY <2>2, <2>4, Zenon
  <2>7. base.arm # "Quant"
    BY <2>1
  <2>8. QED
    BY <1>2, <1>3, <2>1, <2>5, <2>6, <2>7, Zenon DEF SiteIs, rows, name
<1>8. CASE base = Frozen(QuantLinear(QuantizeChunked(d, limit))) /\ (m # 0 => (n % QuantBlock) = 0)
  <2> DEFINE weight == QuantizeChunked(d, limit)
  <2>1. base.arm = "Quant" /\ base.weight = weight /\ base.dtype = "Q" /\ ~base.grad
    BY <1>8, FrozenQuant, Zenon
  <2>0. base.arm # "Plain"
    BY <2>1
  <2>2. rows = FlattenSeq(weight)
    BY <2>0, <2>1, Zenon DEF ForwardRows
  <2>3. Len(FlattenSeq(weight)) = m
    <3>1. PICK c \in Nat : c = IF m = 0 THEN 0 ELSE n
      OBVIOUS
    <3>2. Chunked(weight, limit, m, c)
      BY <1>4, <3>1, ChunksCutRows, Zenon
    <3> HIDE DEF weight
    <3>3. QED
      BY <3>2, FlattenedRows, Zenon
  <2>4. \A o \in 1 .. m : \A i \in 1 .. n : FlattenSeq(weight)[o][i] = Quantized(d, o, i)
    BY <1>4, QuantizedRows, ZenonT(60)
  <2> HIDE DEF rows, weight
  <2>5. ASSUME NEW o \in 1 .. m, NEW i \in 1 .. n
        PROVE  ElementIs(rows[o][i], "Quant", f, adapter, path, name, o, i)
    <3>1. PICK e : e = rows[o][i]
      OBVIOUS
    <3>2. e = Quantized(d, o, i)
      BY <2>2, <2>4, <3>1, Zenon
    <3>3. (n % QuantBlock) = 0
      <4>1. m # 0
        OBVIOUS
      <4>2. QED
        BY <1>8, <4>1
    <3>4. OwnElements(d, f, name, m, n) /\ AllBlocks(n)
      BY <1>4, <3>3, Zenon DEF OwnElements, AllBlocks
    <3>7. FieldsAre(Quantized(d, o, i), name, <<o, i>>, OwnScale(f, name, o, i), BlockAt(o, i), <<>>)
      BY <3>4, QuantizedElement, Zenon
    <3>8. "Quant" # "Plain"
      OBVIOUS
    <3>9. QED
      BY <1>5, <3>1, <3>2, <3>7, <3>8, Zenon DEF ElementIs, FieldsAre
  <2>6. Len(rows) = m
    BY <2>2, <2>3, Zenon
  <2>7. QED
    BY <1>2, <1>3, <2>1, <2>5, <2>6, Zenon DEF SiteIs, rows, name
<1>9. QED
  BY <1>6, <1>7, <1>8

-----------------------------------------------------------------------------
(* The sites of an adapter *)

LEMMA PairAtEnd ==
  ASSUME NEW p \in Seq(STRING), NEW x, NEW y
  PROVE  Front(Front(p \o <<x, y>>)) = p /\ Last(p \o <<x, y>>) = y
<1> DEFINE S == STRING \cup {x, y}
<1>1. p \in Seq(S) /\ x \in S /\ y \in S
  OBVIOUS
<1> HIDE DEF S
<1>2. Append(p, x) \in Seq(S) /\ Front(Append(p, x)) = p
  BY <1>1, FrontOfAppend
<1>3. Front(Append(Append(p, x), y)) = Append(p, x)
  BY <1>1, <1>2, FrontOfAppend
<1>4. p \o <<x, y>> = Append(Append(p, x), y)
  BY <1>1, <1>2
<1>5. Last(Append(Append(p, x), y)) = y
  BY <1>1, <1>2 DEF Last
<1>6. QED
  BY <1>2, <1>3, <1>4, <1>5, Zenon

LEMMA FrontIsSequence ==
  ASSUME NEW S, NEW p \in Seq(S)
  PROVE  Front(p) \in Seq(S)
<1>1. Front(p) = SubSeq(p, 1, Len(p) - 1)
  BY Zenon DEF Front
<1>2. Len(p) \in Nat /\ Len(p) - 1 <= Len(p) /\ 1 >= 1
  OBVIOUS
<1>3. SubSeq(p, 1, Len(p) - 1) \in Seq(S)
  OBVIOUS
<1>4. QED
  BY <1>1, <1>3, Zenon

LEMMA DownNames ==
  ASSUME NEW g \in AdapterFiles, NEW name \in DOMAIN g.tensors, IsDown(name)
  PROVE  SitePrefix(name) \in Seq(STRING) /\ Leaf(name) = "weight"
<1>1. name \in Seq(STRING)
  BY AdaptersAssumption, Zenon
<1>2. SitePrefix(name) \in Seq(STRING)
  BY <1>1, FrontIsSequence, Zenon DEF SitePrefix
<1>3. PICK x : name = SitePrefix(name) \o <<x, "weight">>
  <2>1. PICK s \in Down : name = SitePrefix(name) \o s
    BY Zenon DEF IsDown
  <2>2. s = <<"lora_A", "weight">> \/ s = <<"lora_down", "weight">>
    BY Zenon DEF Down
  <2>3. QED
    BY <2>1, <2>2, Zenon
<1>4. Last(SitePrefix(name) \o <<x, "weight">>) = "weight"
  BY <1>2, PairAtEnd
<1>5. QED
  BY <1>2, <1>3, <1>4, Zenon DEF Leaf

(* A factor is a matrix of the adapter's file.                               *)
FactorOf(g, s) ==
  /\ s.name \in DOMAIN g.tensors /\ SnapshotOf(g.tensors, s.name, s.name, s)
  /\ g.tensors[s.name].shape \in Seq(Nat) /\ Len(g.tensors[s.name].shape) = 2

LEMMA FactorsOfFile ==
  ASSUME NEW g \in AdapterFiles, ~AdapterRefused(g), NEW s \in Factors(g)
  PROVE  FactorOf(g, s)
<1>1. ~Refused(g.tensors)
  BY Zenon DEF AdapterRefused
<1>2. \A name \in DOMAIN g.tensors : g.tensors[name].shape \in Seq(Nat)
  BY FilesAssumption, Zenon
<1>3. s \in Snapshots(g.tensors) /\ s.dims = 2
  BY Zenon DEF Factors
<1>4. \E name \in DOMAIN g.tensors : SnapshotOf(g.tensors, name, name, s)
  BY <1>1, <1>2, <1>3, SnapshotsOfFile
<1>5. PICK name \in DOMAIN g.tensors : SnapshotOf(g.tensors, name, name, s)
  BY <1>4, Zenon
<1>6. s.name = name /\ s.dims = Len(g.tensors[name].shape)
  BY <1>5, Zenon DEF SnapshotOf
<1>7. QED
  BY <1>2, <1>3, <1>5, <1>6, Zenon DEF FactorOf

(* What a down factor and its up factor make.                                *)
SiteOfDown(g, s, d) ==
  /\ s.path = RemapSitePath(StripPrefix(SitePrefix(d.name)))
  /\ s.a = Transpose(d.data) /\ s.b = Transpose(UpFactor(Factors(g), SitePrefix(d.name)).data)
  /\ s.scaling = Scaling(g, SitePrefix(d.name), Len(d.data))

LEMMA SitesOfDowns ==
  ASSUME NEW g
  PROVE  /\ \A s \in AdapterSites(g) : \E d \in Factors(g) : IsDown(d.name) /\ SiteOfDown(g, s, d)
         /\ \A d \in Factors(g) : IsDown(d.name) => \E s \in AdapterSites(g) : SiteOfDown(g, s, d)
<1> DEFINE Made(d) == [path |-> RemapSitePath(StripPrefix(SitePrefix(d.name))),
                       a |-> Transpose(d.data), b |-> Transpose(UpFactor(Factors(g), SitePrefix(d.name)).data),
                       scaling |-> Scaling(g, SitePrefix(d.name), Len(d.data))]
<1>1. AdapterSites(g) = {Made(d) : d \in {f \in Factors(g) : IsDown(f.name)}}
  BY Zenon DEF AdapterSites
<1>2. \A p, a, b, c : LET r == [path |-> p, a |-> a, b |-> b, scaling |-> c]
                     IN  r.path = p /\ r.a = a /\ r.b = b /\ r.scaling = c
  OBVIOUS
<1>3. \A d : SiteOfDown(g, Made(d), d)
  BY <1>2, Zenon DEF SiteOfDown
<1> HIDE DEF Made
<1>4. QED
  BY <1>1, <1>3, Zenon

LEMMA DownsAreFactors ==
  ASSUME NEW g \in AdapterFiles, ~AdapterRefused(g), NEW path, DownsOf(g, path) # {}
  PROVE  \E s \in AdapterSites(g) : s.path = path
<1>1. PICK name \in DownsOf(g, path) : TRUE
  OBVIOUS
<1>2. /\ name \in DOMAIN g.tensors /\ IsDown(name) /\ Len(g.tensors[name].shape) = 2
      /\ RemapSitePath(StripPrefix(SitePrefix(name))) = path
  BY <1>1, Zenon DEF DownsOf
<1>3. ~Refused(g.tensors)
  BY Zenon DEF AdapterRefused
<1>4. \A n \in DOMAIN g.tensors : g.tensors[n].shape \in Seq(Nat)
  BY FilesAssumption, Zenon
<1>5. Leaf(name) = "weight"
  BY <1>2, DownNames, Zenon
<1>6. ~Marker(name) /\ Leaf(name) # "alpha"
  BY <1>5 DEF Marker
<1>7. name \notin UsedScales(g.tensors)
  BY <1>2, AdaptersAssumption, Zenon
<1>8. PICK d \in Snapshots(g.tensors) : d.name = name /\ SnapshotOf(g.tensors, name, name, d)
  <2>1. \/ \E s \in Snapshots(g.tensors) : s.name = name /\ SnapshotOf(g.tensors, name, name, s)
        \/ IsFp8(g.tensors) /\ (name \in UsedScales(g.tensors) \/ Marker(name))
    BY <1>2, <1>3, <1>4, SnapshotsOfFile
  <2>2. QED
    BY <1>6, <1>7, <2>1, Zenon
<1>9. d.dims = 2
  BY <1>2, <1>8, Zenon DEF SnapshotOf
<1>10. d \in Factors(g) /\ IsDown(d.name)
  BY <1>2, <1>6, <1>8, <1>9, Zenon DEF Factors
<1>11. PICK s \in AdapterSites(g) : SiteOfDown(g, s, d)
  BY <1>10, SitesOfDowns, Zenon
<1>12. s.path = path
  BY <1>2, <1>8, <1>11, Zenon DEF SiteOfDown
<1>13. QED
  BY <1>12, Zenon

(* The up factor of a down factor shares its prefix and its rank.            *)
LEMMA UpOfDown ==
  ASSUME NEW g \in AdapterFiles, ~AdapterRefused(g), NEW d \in Factors(g), IsDown(d.name),
         NEW up, up = UpFactor(Factors(g), SitePrefix(d.name))
  PROVE  FactorOf(g, up) /\ SitePrefix(up.name) = SitePrefix(d.name) /\ Columns(up.data) = Len(d.data)
<1> DEFINE prefix == SitePrefix(d.name)
           ups == Ups(Factors(g), prefix)
<1>1. ups # {} /\ Columns(up.data) = Len(d.data)
  BY Zenon DEF AdapterRefused
<1>2. ups \subseteq 1 .. 2 /\ \A k \in ups : \E s \in Factors(g) : s.name = prefix \o Up[k]
  BY Zenon DEF Ups
<1>3. \E k \in ups : \A l \in ups : k <= l
  <2> HIDE DEF ups
  <2>1. CASE 1 \in ups
    <3>1. \A l \in ups : 1 <= l
      BY <1>2
    <3>2. QED
      BY <2>1, <3>1, Zenon
  <2>2. CASE 1 \notin ups
    <3>1. \A l \in ups : l = 2
      BY <1>2, <2>2
    <3>2. \A k, l \in ups : k <= l
      BY <3>1
    <3>3. QED
      BY <1>1, <3>2, Zenon
  <2>3. QED
    BY <2>1, <2>2
<1>4. PICK k : k = CHOOSE j \in ups : \A l \in ups : j <= l
  OBVIOUS
<1>5. k \in ups
  BY <1>3, <1>4, Zenon
<1>6. up = Named(Factors(g), prefix \o Up[k])
  BY <1>4, Zenon DEF UpFactor
<1> HIDE DEF ups
<1>7. \E s \in Factors(g) : s.name = prefix \o Up[k]
  BY <1>2, <1>5, Zenon
<1>8. up \in Factors(g) /\ up.name = prefix \o Up[k]
  BY <1>6, <1>7, Zenon DEF Named
<1>9. FactorOf(g, up)
  BY <1>8, FactorsOfFile, Zenon
<1>10. PICK x : Up[k] = <<x, "weight">>
  <2>1. k = 1 \/ k = 2
    BY <1>2, <1>5
  <2>2. Up[1] = <<"lora_B", "weight">> /\ Up[2] = <<"lora_up", "weight">>
    BY DEF Up
  <2>3. QED
    BY <2>1, <2>2, Zenon
<1>11. prefix \in Seq(STRING)
  <2>1. d.name \in DOMAIN g.tensors
    BY FactorsOfFile, Zenon DEF FactorOf
  <2>2. QED
    BY <2>1, DownNames, Zenon
<1>12. SitePrefix(up.name) = prefix
  <2>1. Front(Front(prefix \o <<x, "weight">>)) = prefix
    BY <1>11, PairAtEnd
  <2>2. QED
    BY <1>8, <1>10, <2>1, Zenon DEF SitePrefix
<1>13. QED
  BY <1>1, <1>9, <1>12, Zenon

Positioned(s, m, n) ==
  /\ IsMatrix(s.data, m, n)
  /\ \A i \in 1 .. m : \A j \in 1 .. n : s.data[i][j].of = s.name /\ s.data[i][j].at = <<i, j>>

LEMMA FactorData ==
  ASSUME NEW g, NEW s, FactorOf(g, s)
  PROVE  \E m \in Nat : \E n \in Nat : m = g.tensors[s.name].shape[1] /\ Positioned(s, m, n)
<1> DEFINE shape == g.tensors[s.name].shape
<1>1. shape \in Seq(Nat) /\ Len(shape) = 2
  BY Zenon DEF FactorOf
<1>2. Rows(shape) = shape[1] /\ shape[1] \in Nat /\ Cols(shape) \in Nat
  <2> HIDE DEF shape
  <2>1. QED
    BY <1>1, ShapeOfMatrix, Zenon
<1>3. /\ IsMatrix(s.data, Rows(shape), Cols(shape))
      /\ \A i \in 1 .. Rows(shape) : \A j \in 1 .. Cols(shape) :
           s.data[i][j].of = s.name /\ s.data[i][j].at = <<i, j>>
  BY Zenon DEF FactorOf, SnapshotOf
<1> HIDE DEF shape
<1>4. QED
  BY <1>2, <1>3, ZenonT(60) DEF shape, Positioned

(* An element of the product, term by term.                                  *)
Term(a, b, i, o, k) == <<a[i][k].of, a[i][k].at, b[k][o].of, b[k][o].at>>
DeltaIs(delta, a, b, scaling, i, o) ==
  delta.terms = [k \in 1 .. Len(b) |-> Term(a, b, i, o, k)] /\ delta.scaling = scaling

LEMMA DeltaFields ==
  ASSUME NEW a, NEW b, NEW scaling, NEW i \in 1 .. Len(a), NEW o \in 1 .. Columns(b)
  PROVE  DeltaIs(MergeDelta(a, b, scaling)[i][o], a, b, scaling, i, o)
<1> DEFINE terms == [k \in 1 .. Len(b) |-> Term(a, b, i, o, k)]
<1>1. MergeDelta(a, b, scaling)[i][o] = [terms |-> terms, scaling |-> scaling]
  BY Zenon DEF MergeDelta, Matrix, Term
<1>2. \A t, c : [terms |-> t, scaling |-> c].terms = t /\ [terms |-> t, scaling |-> c].scaling = c
  OBVIOUS
<1>3. PICK t, d : t = terms /\ d = [terms |-> t, scaling |-> scaling]
  OBVIOUS
<1> HIDE DEF terms
<1>4. d.terms = t /\ d.scaling = scaling
  BY <1>2, <1>3, Zenon
<1>5. MergeDelta(a, b, scaling)[i][o] = d
  BY <1>1, <1>3, Zenon
<1>6. MergeDelta(a, b, scaling)[i][o].terms = [k \in 1 .. Len(b) |-> Term(a, b, i, o, k)]
  BY <1>3, <1>4, <1>5, Zenon DEF terms
<1>7. MergeDelta(a, b, scaling)[i][o].scaling = scaling
  BY <1>4, <1>5, Zenon
<1>8. QED
  BY <1>6, <1>7, Zenon DEF DeltaIs

Four(t, w, x, y, z) == t[1] = w /\ t[2] = x /\ t[3] = y /\ t[4] = z

LEMMA TermFields ==
  ASSUME NEW a, NEW b, NEW i, NEW o, NEW k
  PROVE  Four(Term(a, b, i, o, k), a[i][k].of, a[i][k].at, b[k][o].of, b[k][o].at)
<1>1. \A w, x, y, z : Four(<<w, x, y, z>>, w, x, y, z)
  BY DEF Four
<1>2. QED
  BY <1>1, Zenon DEF Term

LEMMA ScalingIs ==
  ASSUME NEW g \in AdapterFiles, NEW name \in DOMAIN g.tensors, NEW rank
  PROVE  Scaling(g, SitePrefix(name), rank) =
           IF SitePrefix(name) \in DOMAIN g.alpha THEN <<g.alpha[SitePrefix(name)], rank>>
           ELSE IF g.meta # <<>> /\ g.meta[2] > 0 THEN g.meta ELSE <<1, 1>>
<1>1. SitePrefix(name) \in DOMAIN g.alpha <=> Append(SitePrefix(name), "alpha") \in DOMAIN g.tensors
  BY AdaptersAssumption, Zenon
<1>2. QED
  BY <1>1, Zenon DEF Scaling

Delta(s) == MergeDelta(s.a, s.b, s.scaling)
AddsDelta(s, g, down) ==
  \A i \in 1 .. Len(s.a) : \A o \in 1 .. Columns(s.b) : IsDelta(Delta(s)[i][o], g, down, o, i)

(* What a site of the adapter adds is the delta of a down factor that means  *)
(* its path.                                                                 *)
LEMMA DeltaOfSite ==
  ASSUME NEW g \in AdapterFiles, ~AdapterRefused(g), NEW s \in AdapterSites(g)
  PROVE  \E down \in DownsOf(g, s.path) : AddsDelta(s, g, down)
<1>1. PICK d \in Factors(g) : IsDown(d.name) /\ SiteOfDown(g, s, d)
  BY SitesOfDowns, Zenon
<1> DEFINE prefix == SitePrefix(d.name)
<1>2. PICK up : up = UpFactor(Factors(g), prefix)
  OBVIOUS
<1>3. FactorOf(g, d)
  BY FactorsOfFile, Zenon
<1>4. FactorOf(g, up) /\ SitePrefix(up.name) = prefix /\ Columns(up.data) = Len(d.data)
  BY <1>1, <1>2, UpOfDown, Zenon
<1>5. d.name \in DownsOf(g, s.path)
  BY <1>1, <1>3, Zenon DEF DownsOf, FactorOf, SiteOfDown
<1>6. s.a = Transpose(d.data) /\ s.b = Transpose(up.data) /\ s.scaling = Scaling(g, prefix, Len(d.data))
  BY <1>1, <1>2, Zenon DEF SiteOfDown
<1>16. PICK m \in Nat, n \in Nat : m = g.tensors[d.name].shape[1] /\ Positioned(d, m, n)
  BY <1>3, FactorData, Zenon
<1>7. /\ m = g.tensors[d.name].shape[1] /\ IsMatrix(d.data, m, n)
      /\ \A i \in 1 .. m : \A j \in 1 .. n : d.data[i][j].of = d.name /\ d.data[i][j].at = <<i, j>>
  BY <1>16, Zenon DEF Positioned
<1>17. PICK p \in Nat, q \in Nat : Positioned(up, p, q)
  BY <1>4, FactorData, Zenon
<1>8. /\ IsMatrix(up.data, p, q)
      /\ \A i \in 1 .. p : \A j \in 1 .. q : up.data[i][j].of = up.name /\ up.data[i][j].at = <<i, j>>
  BY <1>17, Zenon DEF Positioned
<1>9. Len(d.data) = m /\ Columns(d.data) = IF m = 0 THEN 0 ELSE n
  BY <1>7, MatrixSize
<1>10. Len(up.data) = p /\ Columns(up.data) = m
  <2>1. Len(up.data) = p
    BY <1>8, MatrixSize
  <2>2. QED
    BY <1>4, <1>9, <2>1, Zenon
<1>11. m = IF p = 0 THEN 0 ELSE q
  <2>1. Columns(up.data) = IF p = 0 THEN 0 ELSE q
    BY <1>8, MatrixSize
  <2>2. QED
    BY <1>10, <2>1, Zenon
<1>12. /\ Len(s.a) = (IF m = 0 THEN 0 ELSE n)
       /\ \A i \in 1 .. n : \A k \in 1 .. m : s.a[i][k] = d.data[k][i]
  <2>1. /\ IsMatrix(Transpose(d.data), IF m = 0 THEN 0 ELSE n, m)
        /\ \A i \in 1 .. n : \A k \in 1 .. m : Transpose(d.data)[i][k] = d.data[k][i]
    <3>1. PICK w : w = d.data
      OBVIOUS
    <3>2. IsMatrix(w, m, n)
      BY <1>7, <3>1, Zenon
    <3>3. /\ IsMatrix(Transpose(w), IF m = 0 THEN 0 ELSE n, m)
          /\ \A i \in 1 .. n : \A k \in 1 .. m : Transpose(w)[i][k] = w[k][i]
      BY <3>2, TransposeOf
    <3>4. QED
      BY <3>1, <3>3, Zenon
  <2>2. PICK c \in Nat : c = IF m = 0 THEN 0 ELSE n
    OBVIOUS
  <2>3. Len(Transpose(d.data)) = c
    BY <2>1, <2>2, MatrixSize
  <2>4. QED
    BY <1>6, <2>1, <2>2, <2>3, Zenon
<1>13. /\ Len(s.b) = m /\ Columns(s.b) = (IF m = 0 THEN 0 ELSE p)
       /\ \A k \in 1 .. q : \A o \in 1 .. p : s.b[k][o] = up.data[o][k]
  <2>1. /\ IsMatrix(Transpose(up.data), IF p = 0 THEN 0 ELSE q, p)
        /\ \A k \in 1 .. q : \A o \in 1 .. p : Transpose(up.data)[k][o] = up.data[o][k]
    BY <1>8, TransposeOf
  <2>2. IsMatrix(Transpose(up.data), m, p)
    BY <1>11, <2>1, Zenon
  <2>3. Len(Transpose(up.data)) = m /\ Columns(Transpose(up.data)) = (IF m = 0 THEN 0 ELSE p)
    BY <2>2, MatrixSize
  <2>4. QED
    BY <1>6, <2>1, <2>3, Zenon
<1> HIDE DEF prefix
<1>14. ASSUME NEW i \in 1 .. Len(s.a), NEW o \in 1 .. Columns(s.b)
       PROVE  IsDelta(MergeDelta(s.a, s.b, s.scaling)[i][o], g, d.name, o, i)
  <2>1. PICK delta : delta = MergeDelta(s.a, s.b, s.scaling)[i][o]
    OBVIOUS
  <2>2. DeltaIs(delta, s.a, s.b, s.scaling, i, o)
    BY <2>1, DeltaFields, Zenon
  <2>3. m # 0 /\ i \in 1 .. n /\ o \in 1 .. p /\ q = m
    BY <1>11, <1>12, <1>13
  <2>4. delta.terms = [k \in 1 .. m |-> Term(s.a, s.b, i, o, k)]
    BY <1>13, <2>2, Zenon DEF DeltaIs
  <2>5. Len(delta.terms) = m
    <3>1. delta.terms = [k \in 1 .. m |-> delta.terms[k]]
      BY <2>4, Zenon
    <3>2. QED
      BY <3>1, SequenceOf, Zenon
  <2>6. ASSUME NEW k \in 1 .. m
        PROVE  /\ delta.terms[k][1] = d.name /\ delta.terms[k][2] = <<k, i>>
               /\ SitePrefix(delta.terms[k][3]) = prefix /\ delta.terms[k][4] = <<o, k>>
    <3>1. delta.terms[k] = Term(s.a, s.b, i, o, k)
      BY <2>4, Zenon
    <3>2. s.a[i][k] = d.data[k][i]
      BY <1>12, <2>3, Zenon
    <3>3. s.b[k][o] = up.data[o][k]
      BY <1>13, <2>3, Zenon
    <3>4. d.data[k][i].of = d.name /\ d.data[k][i].at = <<k, i>>
      BY <1>7, <2>3, Zenon
    <3>5. up.data[o][k].of = up.name /\ up.data[o][k].at = <<o, k>>
      BY <1>8, <2>3, Zenon
    <3>6. /\ delta.terms[k][1] = s.a[i][k].of /\ delta.terms[k][2] = s.a[i][k].at
          /\ delta.terms[k][3] = s.b[k][o].of /\ delta.terms[k][4] = s.b[k][o].at
      <4>1. Four(delta.terms[k], s.a[i][k].of, s.a[i][k].at, s.b[k][o].of, s.b[k][o].at)
        BY <3>1, TermFields, Zenon
      <4>2. QED
        BY <4>1, Zenon DEF Four
    <3>7. delta.terms[k][1] = d.name /\ delta.terms[k][2] = <<k, i>>
      BY <3>2, <3>4, <3>6, Zenon
    <3>8. delta.terms[k][3] = up.name /\ delta.terms[k][4] = <<o, k>>
      BY <3>3, <3>5, <3>6, Zenon
    <3>9. QED
      BY <1>4, <3>7, <3>8, Zenon
  <2>7. delta.scaling = Scaling(g, prefix, m)
    BY <1>6, <1>9, <2>2, Zenon DEF DeltaIs
  <2>8. d.name \in DOMAIN g.tensors
    BY <1>3, Zenon DEF FactorOf
  <2>9. delta.scaling = IF prefix \in DOMAIN g.alpha THEN <<g.alpha[prefix], m>>
                        ELSE IF g.meta # <<>> /\ g.meta[2] > 0 THEN g.meta ELSE <<1, 1>>
    BY <2>7, <2>8, ScalingIs, Zenon DEF prefix
  <2>10. IsDelta(delta, g, d.name, o, i)
    BY <1>7, <2>5, <2>6, <2>9, Zenon DEF IsDelta, prefix
  <2>11. QED
    BY <2>1, <2>10, Zenon
<1>15. QED
  BY <1>5, <1>14, Zenon DEF AddsDelta, Delta

(* The clauses of a site, from those of its rows in storage.                 *)
StoredElements(w, f, adapter, path, name, m, n) ==
  \A o \in 1 .. m : \A i \in 1 .. n : ElementIs(w[i][o], "Plain", f, adapter, path, name, o, i)
StorageOf(w, m, n) == IsMatrix(w, IF m = 0 THEN 0 ELSE n, m) /\ (m # 0 => n # 0)

LEMMA PlainSiteIs ==
  ASSUME NEW w, NEW f, NEW adapter, NEW path, NEW dtype,
         NEW m \in Nat, NEW n \in Nat, StorageOf(w, m, n),
         m = f[TensorOf(f, Weight(path))].shape[1], n = f[TensorOf(f, Weight(path))].shape[2],
         StoredElements(w, f, adapter, path, TensorOf(f, Weight(path)), m, n)
  PROVE  SiteIs(Frozen(PlainLinear(w, dtype)), f, adapter, path, dtype)
<1> DEFINE base == Frozen(PlainLinear(w, dtype))
           name == TensorOf(f, Weight(path))
           rows == ForwardRows(base)
<1>1. base.arm = "Plain" /\ base.weight = w /\ base.dtype = dtype /\ ~base.grad
  BY FrozenPlain
<1> HIDE DEF base, name
<1>2. rows = Transpose(w)
  BY <1>1, Zenon DEF ForwardRows
<1>3. /\ Len(Transpose(w)) = m
      /\ \A o \in 1 .. m : \A i \in 1 .. n : Transpose(w)[o][i] = w[i][o]
  <2>1. IsMatrix(w, IF m = 0 THEN 0 ELSE n, m) /\ (m # 0 => n # 0)
    BY Zenon DEF StorageOf
  <2>2. QED
    BY <2>1, RowsOfStored, SMTT(20)
<1> HIDE DEF rows
<1>4. ASSUME NEW o \in 1 .. m, NEW i \in 1 .. n
      PROVE  ElementIs(rows[o][i], "Plain", f, adapter, path, name, o, i)
  <2>1. ElementIs(w[i][o], "Plain", f, adapter, path, name, o, i)
    BY Zenon DEF StoredElements, name
  <2>2. rows[o][i] = w[i][o]
    BY <1>2, <1>3, Zenon
  <2>3. QED
    BY <2>1, <2>2, Zenon
<1>5. Len(rows) = m /\ base.arm # "Quant"
  BY <1>1, <1>2, <1>3
<1>6. m = f[name].shape[1] /\ n = f[name].shape[2]
  BY Zenon DEF name
<1>7. QED
  BY <1>1, <1>4, <1>5, <1>6, Zenon DEF SiteIs, rows, name, base

MergedWeight(w, s) == Matrix(Len(w), Columns(w), LAMBDA i, j : WithDelta(w[i][j], Delta(s)[i][j]))

LEMMA MergedIs ==
  ASSUME NEW base, NEW s
  PROVE  MergedLinear(base, s) = Frozen(PlainLinear(MergedWeight(base.weight, s), base.dtype))
BY Zenon DEF MergedLinear, Frozen, MergedWeight, Delta, WithDelta

AddedTo(v, w, s) ==
  /\ IsMatrix(v, Len(w), Columns(w))
  /\ \A i \in 1 .. Len(w) : \A j \in 1 .. Columns(w) : v[i][j] = WithDelta(w[i][j], Delta(s)[i][j])

LEMMA MergedElements ==
  ASSUME NEW w, NEW s
  PROVE  AddedTo(MergedWeight(w, s), w, s)
BY Zenon DEF AddedTo, IsMatrix, MergedWeight, Matrix

(* A merged site has the delta of its path added, once.                      *)
LEMMA SiteMerged ==
  ASSUME NEW base, NEW f, NEW path, NEW dtype, NEW limit \in Nat,
         SiteLoaded(base, f, path, dtype, limit), base.arm = "Plain",
         NEW g \in AdapterFiles, ~AdapterRefused(g), NEW s \in AdapterSites(g), s.path = path,
         Fits(base, s), NEW adapter, adapter = <<g>>
  PROVE  SiteIs(MergedLinear(base, s), f, adapter, path, dtype)
<1> DEFINE name == TensorOf(f, Weight(path))
           d == DataOf(f, name)
           w == Transpose(d)
           v == MergedWeight(w, s)
<1>1. f[name].shape \in Seq(Nat) /\ Len(f[name].shape) = 2
  BY Zenon DEF SiteLoaded
<1>2. PICK m \in Nat : m = f[name].shape[1] /\ m = Rows(f[name].shape)
  BY <1>1, ShapeOfMatrix
<1>3. PICK n \in Nat : n = f[name].shape[2] /\ n = Cols(f[name].shape)
  BY <1>1, ShapeOfMatrix
<1>4. IsMatrix(d, m, n) /\ \A i \in 1 .. m : \A j \in 1 .. n : d[i][j] = Own(f, name, i, j)
  <2>1. /\ IsMatrix(d, Rows(f[name].shape), Cols(f[name].shape))
        /\ \A i \in 1 .. Rows(f[name].shape) : \A j \in 1 .. Cols(f[name].shape) : d[i][j] = Own(f, name, i, j)
    BY DataIsMatrix, Zenon
  <2> HIDE DEF d, name
  <2>2. QED
    BY <1>2, <1>3, <2>1, Zenon
<1>5. base = Frozen(PlainLinear(w, dtype)) /\ (m # 0 => n # 0)
  <2>1. \A u : Frozen(QuantLinear(u)).arm # "Plain"
    <3> TAKE u
    <3>1. Frozen(QuantLinear(u)).arm = "Quant"
      BY FrozenQuant, Zenon
    <3>2. QED
      BY <3>1
  <2>2. base # Frozen(QuantLinear(QuantizeChunked(d, limit)))
    BY <2>1, Zenon
  <2>3. QED
    BY <1>2, <1>3, <2>2, Zenon DEF SiteLoaded
<1> HIDE DEF name, d
<1>6. base.weight = w /\ base.dtype = dtype
  <2>1. Frozen(PlainLinear(w, dtype)).weight = w /\ Frozen(PlainLinear(w, dtype)).dtype = dtype
    <3> HIDE DEF w
    <3>1. QED
      BY FrozenPlain
  <2>2. QED
    BY <1>5, <2>1, Zenon
<1>7. /\ Len(w) = (IF m = 0 THEN 0 ELSE n) /\ Columns(w) = m
      /\ \A o \in 1 .. m : \A i \in 1 .. n : w[i][o] = d[o][i]
  BY <1>4, <1>5, StoredRows
<1>8. Len(s.a) = Len(w) /\ Columns(s.b) = Columns(w)
  BY <1>6, Zenon DEF Fits
<1>18. PICK down \in DownsOf(g, path) : AddsDelta(s, g, down)
  BY DeltaOfSite, Zenon
<1>19. \A i \in 1 .. Len(s.a) : \A o \in 1 .. Columns(s.b) : IsDelta(Delta(s)[i][o], g, down, o, i)
  BY <1>18, Zenon DEF AddsDelta
<1>10. /\ IsMatrix(v, Len(w), Columns(w))
       /\ \A i \in 1 .. Len(w) : \A j \in 1 .. Columns(w) : v[i][j] = WithDelta(w[i][j], Delta(s)[i][j])
  <2>1. AddedTo(MergedWeight(w, s), w, s)
    <3> HIDE DEF w
    <3>1. QED
      BY MergedElements
  <2>2. AddedTo(v, w, s)
    BY <2>1, Zenon
  <2> HIDE DEF v, w
  <2>3. QED
    BY <2>2, Zenon DEF AddedTo
<1>11. MergedLinear(base, s) = Frozen(PlainLinear(v, dtype))
  BY <1>6, MergedIs, Zenon
<1> HIDE DEF v, w
<1>12. StorageOf(v, m, n)
  BY <1>5, <1>7, <1>10, Zenon DEF StorageOf
<1>13. adapter # <<>> /\ adapter[1] = g
  OBVIOUS
<1>14. ASSUME NEW o \in 1 .. m, NEW i \in 1 .. n
       PROVE  ElementIs(v[i][o], "Plain", f, adapter, path, name, o, i)
  <2>1. i \in 1 .. Len(w) /\ o \in 1 .. Columns(w)
    BY <1>7
  <2>2. PICK e, x : e = v[i][o] /\ x = Delta(s)[i][o]
    BY Zenon
  <2>3. w[i][o] = Own(f, name, o, i)
    BY <1>4, <1>7, ZenonT(60)
  <2>4. e = WithDelta(Own(f, name, o, i), x)
    BY <1>10, <2>1, <2>2, <2>3, Zenon
  <2>5. /\ e.of = name /\ e.at = <<o, i>> /\ e.scale = OwnScale(f, name, o, i)
        /\ e.block = {} /\ e.plus = <<x>>
    BY <2>4, OwnAdded
  <2>6. IsDelta(x, g, down, o, i)
    BY <1>8, <1>19, <2>1, <2>2, Zenon
  <2>7. Len(<<x>>) = 1 /\ <<x>>[1] = x
    OBVIOUS
  <2>8. DeltasAre(<<x>>, f, adapter, path, o, i)
    BY <1>18, <1>13, <2>6, <2>7, Zenon DEF DeltasAre
  <2>9. QED
    BY <2>2, <2>5, <2>8, Zenon DEF ElementIs
<1>15. StoredElements(v, f, adapter, path, name, m, n)
  BY <1>14, Zenon DEF StoredElements
<1>16. SiteIs(Frozen(PlainLinear(v, dtype)), f, adapter, path, dtype)
  BY <1>2, <1>3, <1>12, <1>15, PlainSiteIs, Zenon DEF name
<1>17. QED
  BY <1>11, <1>16, Zenon

-----------------------------------------------------------------------------
(* What a run holds of the files it has opened: the strengthening of         *)
(* BaseIsTheFile, from the encoder or the stream to the merged model.        *)

EncoderHeld(held) == held.from \in EncoderFiles /\ EncoderIs(held.encoder.params, held.from)

StreamHeld(held, opened, dtype, limit) ==
  /\ {"base", "adapter"} \subseteq DOMAIN opened /\ opened.adapter = <<>>
  /\ IsCheckpoint(opened.base) /\ ~Refused(opened.base)
  /\ held.site \in Nat \ {0} /\ StreamOf(held.stream, opened.base, dtype, limit)

ModelHeld(model, opened, dtype, limit, quant) ==
  /\ {"base", "adapter"} \subseteq DOMAIN opened /\ opened.adapter = <<>>
  /\ ModelLoaded(model, opened.base, dtype, limit, quant)

(* A base linear that is still to be merged, or has been, once.              *)
MergedSite(base, plain, path, g, left) ==
  \/ base = plain /\ \A s \in AdapterSites(g) : s.path = path => s \in left
  \/ /\ \A t \in left : t.path # path
     /\ \E s \in AdapterSites(g) : /\ s.path = path /\ plain.arm = "Plain" /\ Fits(plain, s)
                                   /\ base = MergedLinear(plain, s)

MergedFrom(model, plain, g, left) ==
  /\ {"bases", "params"} \subseteq DOMAIN model /\ DOMAIN model.bases = DOMAIN Dims
  /\ model.params = plain.params
  /\ \A p \in DOMAIN Dims : MergedSite(model.bases[p], plain.bases[p], p, g, left)

MergeHeld(model, opened, left, dtype, limit, quant) ==
  \E g \in AdapterFiles : \E plain :
    /\ opened.adapter = <<g>> /\ ~AdapterRefused(g) /\ left \subseteq AdapterSites(g)
    /\ ModelLoaded(plain, opened.base, dtype, limit, quant)
    /\ MergedFrom(model, plain, g, left)

FromFile(place, c, opened, held) ==
  LET dtype == Dispatch(c)[2]
      limit == ChunkBytes(c)
      quant == c.compute.quant
  IN  /\ place = "encoding" => EncoderHeld(held)
      /\ place = "quantize" => StreamHeld(held, opened, dtype, limit)
      /\ place = "loaded" => ModelHeld(held.model, opened, dtype, limit, quant)
      /\ place = "merge" => held.site \in Nat \ {0}
                            /\ MergeHeld(held.model, opened, held.left, dtype, limit, quant)
      /\ place = "ready" => \/ ModelHeld(held.model, opened, dtype, limit, quant)
                            \/ MergeHeld(held.model, opened, {}, dtype, limit, quant)

FileInv ==
  DOMAIN file = Runs /\ \A r \in Runs : FromFile(pc[r], config[r], file[r], load[r])

-----------------------------------------------------------------------------
(* What is held is the file                                                  *)

LEMMA ParamOfFile ==
  ASSUME NEW params, NEW f, NEW name, NEW path, f[name].shape \in Seq(Nat),
         params[path].data = Stored(path, DataOf(f, name))
  PROVE  ParamIsTheFile(params, f, name, path)
<1> DEFINE d == DataOf(f, name)
<1>1. PICK m \in Nat : m = Rows(f[name].shape)
  BY SizesOfShape
<1>2. PICK n \in Nat : n = Cols(f[name].shape)
  BY SizesOfShape
<1>3. IsMatrix(d, m, n) /\ \A i \in 1 .. m : \A j \in 1 .. n : d[i][j] = Own(f, name, i, j)
  <2>1. /\ IsMatrix(d, Rows(f[name].shape), Cols(f[name].shape))
        /\ \A i \in 1 .. Rows(f[name].shape) : \A j \in 1 .. Cols(f[name].shape) : d[i][j] = Own(f, name, i, j)
    BY DataIsMatrix, Zenon
  <2> HIDE DEF d
  <2>2. QED
    BY <1>1, <1>2, <2>1, Zenon
<1>4. params[path].data = Stored(path, d)
  OBVIOUS
<1> HIDE DEF d
<1>5. PICK k \in Nat : k = IF m = 0 THEN 0 ELSE n
  OBVIOUS
<1>6. IsMatrix(Transpose(d), k, m) /\ \A i \in 1 .. n : \A j \in 1 .. m : Transpose(d)[i][j] = d[j][i]
  <2>1. /\ IsMatrix(Transpose(d), IF m = 0 THEN 0 ELSE n, m)
        /\ \A i \in 1 .. n : \A j \in 1 .. m : Transpose(d)[i][j] = d[j][i]
    BY <1>3, TransposeOf
  <2>2. QED
    BY <1>5, <2>1
<1>7. \A i \in 1 .. m : \A j \in 1 .. k : Transpose(Transpose(d))[i][j] = Transpose(d)[j][i]
  BY <1>6, TransposeOf
<1>8. ASSUME NEW i \in 1 .. m, NEW j \in 1 .. n
      PROVE  Stored(path, params[path].data)[i][j] = Own(f, name, i, j)
  <2>1. d[i][j] = Own(f, name, i, j)
    BY <1>3, Zenon
  <2>2. CASE path \in Linears
    <3>1. Stored(path, params[path].data) = Transpose(Transpose(d))
      BY <1>4, <2>2, Zenon DEF Stored
    <3>2. j \in 1 .. k
      BY <1>5
    <3>3. Transpose(Transpose(d))[i][j] = Transpose(d)[j][i] /\ Transpose(d)[j][i] = d[i][j]
      BY <1>6, <1>7, <3>2, Zenon
    <3>4. QED
      BY <2>1, <3>1, <3>3, Zenon
  <2>3. CASE path \notin Linears
    <3>1. Stored(path, params[path].data) = d
      BY <1>4, <2>3, Zenon DEF Stored
    <3>2. QED
      BY <2>1, <3>1, Zenon
  <2>4. QED
    BY <2>2, <2>3
<1>9. QED
  BY <1>1, <1>2, <1>8, Zenon DEF ParamIsTheFile, Own

(* A site the adapter does not name is as loaded; one it names is merged.    *)
LEMMA MergedSiteIs ==
  ASSUME NEW base, NEW plain, NEW f, NEW path, NEW dtype, NEW limit \in Nat,
         SiteLoaded(plain, f, path, dtype, limit),
         NEW g \in AdapterFiles, ~AdapterRefused(g), MergedSite(base, plain, path, g, {}),
         NEW adapter, adapter = <<g>>
  PROVE  SiteIs(base, f, adapter, path, dtype)
<1>1. CASE base = plain /\ \A s \in AdapterSites(g) : s.path # path
  <2>1. DownsOf(g, path) = {}
    BY <1>1, DownsAreFactors, Zenon
  <2>2. adapter[1] = g
    OBVIOUS
  <2>3. SiteIs(plain, f, adapter, path, dtype)
    BY <2>1, <2>2, SiteUntouched
  <2>4. QED
    BY <1>1, <2>3, Zenon
<1>2. CASE \E s \in AdapterSites(g) : /\ s.path = path /\ plain.arm = "Plain" /\ Fits(plain, s)
                                      /\ base = MergedLinear(plain, s)
  <2>1. PICK s \in AdapterSites(g) : /\ s.path = path /\ plain.arm = "Plain" /\ Fits(plain, s)
                                     /\ base = MergedLinear(plain, s)
    BY <1>2
  <2>2. SiteIs(MergedLinear(plain, s), f, adapter, path, dtype)
    BY <2>1, SiteMerged
  <2>3. QED
    BY <2>1, <2>2, Zenon
<1>3. \A s : s \notin {}
  OBVIOUS
<1>4. QED
  BY <1>1, <1>2, <1>3, Zenon DEF MergedSite

TheFile(model, opened, dtype, quant) ==
  /\ \A site \in DOMAIN Dims : SiteIs(model.bases[site], opened.base, opened.adapter, site, dtype)
  /\ \A p \in DOMAIN Params :
       /\ ParamIsTheFile(model.params, opened.base, TensorOf(opened.base, p), p)
       /\ model.params[p].dtype = dtype
  /\ Consumed(opened.base, quant)

LEMMA LoadedParamsAre ==
  ASSUME NEW model, NEW f, NEW dtype, NEW limit, NEW quant, ModelLoaded(model, f, dtype, limit, quant)
  PROVE  \A p \in DOMAIN Params :
           /\ ParamIsTheFile(model.params, f, TensorOf(f, p), p)
           /\ model.params[p].dtype = dtype
<1>1. ASSUME NEW p \in DOMAIN Params
      PROVE  /\ ParamIsTheFile(model.params, f, TensorOf(f, p), p)
             /\ model.params[p].dtype = dtype
  <2>1. PICK name, params : name = TensorOf(f, p) /\ params = model.params
    OBVIOUS
  <2>2. ParamLoaded(params[p], f, name, p, dtype)
    BY <2>1, Zenon DEF ModelLoaded
  <2>3. /\ f[name].shape \in Seq(Nat) /\ params[p].data = Stored(p, DataOf(f, name))
        /\ params[p].dtype = dtype
    BY <2>2, Zenon DEF ParamLoaded
  <2>4. ParamIsTheFile(params, f, name, p)
    BY <2>3, ParamOfFile
  <2>5. QED
    BY <2>1, <2>3, <2>4, Zenon
<1>2. QED
  BY <1>1, Zenon

LEMMA HeldModelIsFile ==
  ASSUME NEW model, NEW opened, NEW dtype, NEW limit \in Nat, NEW quant,
         ModelHeld(model, opened, dtype, limit, quant)
  PROVE  TheFile(model, opened, dtype, quant)
<1>1. PICK f, adapter : f = opened.base /\ adapter = opened.adapter
  OBVIOUS
<1>2. adapter = <<>> /\ ModelLoaded(model, f, dtype, limit, quant)
  BY <1>1, Zenon DEF ModelHeld
<1>3. ASSUME NEW site \in DOMAIN Dims
      PROVE  SiteIs(model.bases[site], f, adapter, site, dtype)
  <2>1. SiteLoaded(model.bases[site], f, site, dtype, limit)
    BY <1>2, Zenon DEF ModelLoaded
  <2>2. QED
    BY <1>2, <2>1, SiteUntouched, Zenon
<1>4. Consumed(f, quant)
  BY <1>2, Zenon DEF ModelLoaded
<1>5. \A p \in DOMAIN Params : /\ ParamIsTheFile(model.params, f, TensorOf(f, p), p)
                               /\ model.params[p].dtype = dtype
  BY <1>2, LoadedParamsAre, Zenon
<1>6. QED
  BY <1>1, <1>3, <1>4, <1>5, Zenon DEF TheFile

LEMMA MergedModelIsFile ==
  ASSUME NEW model, NEW opened, NEW dtype, NEW limit \in Nat, NEW quant,
         MergeHeld(model, opened, {}, dtype, limit, quant)
  PROVE  TheFile(model, opened, dtype, quant)
<1>1. PICK f, adapter : f = opened.base /\ adapter = opened.adapter
  OBVIOUS
<1>2. PICK g \in AdapterFiles :
        \E plain : /\ opened.adapter = <<g>> /\ ~AdapterRefused(g)
                   /\ ModelLoaded(plain, opened.base, dtype, limit, quant)
                   /\ MergedFrom(model, plain, g, {})
  BY Zenon DEF MergeHeld
<1>3. PICK plain : /\ adapter = <<g>> /\ ~AdapterRefused(g)
                   /\ ModelLoaded(plain, f, dtype, limit, quant)
                   /\ MergedFrom(model, plain, g, {})
  BY <1>1, <1>2, Zenon
<1>4. ASSUME NEW site \in DOMAIN Dims
      PROVE  SiteIs(model.bases[site], f, adapter, site, dtype)
  <2>1. PICK base, old : base = model.bases[site] /\ old = plain.bases[site]
    OBVIOUS
  <2>2. SiteLoaded(old, f, site, dtype, limit)
    BY <1>3, <2>1, Zenon DEF ModelLoaded
  <2>3. MergedSite(base, old, site, g, {})
    BY <1>3, <2>1, Zenon DEF MergedFrom
  <2>4. SiteIs(base, f, adapter, site, dtype)
    BY <1>3, <2>2, <2>3, MergedSiteIs
  <2>5. QED
    BY <2>1, <2>4, Zenon
<1>5. model.params = plain.params
  BY <1>3, Zenon DEF MergedFrom
<1>6. Consumed(f, quant)
  BY <1>3, Zenon DEF ModelLoaded
<1>7. \A p \in DOMAIN Params : /\ ParamIsTheFile(plain.params, f, TensorOf(f, p), p)
                               /\ plain.params[p].dtype = dtype
  BY <1>3, LoadedParamsAre, Zenon
<1>8. QED
  BY <1>1, <1>4, <1>5, <1>6, <1>7, Zenon DEF TheFile

LEMMA HeldEncoderIsFile ==
  ASSUME NEW held, EncoderHeld(held), NEW p \in DOMAIN EncoderParams
  PROVE  ParamIsTheFile(held.encoder.params, held.from, TrunkTensor(held.from, p), p)
<1>1. PICK params, f : params = held.encoder.params /\ f = held.from
  OBVIOUS
<1>2. PICK name : name = TrunkTensor(f, p)
  OBVIOUS
<1>3. f[name].shape \in Seq(Nat) /\ params[p].data = Stored(p, DataOf(f, name))
  BY <1>1, <1>2, Zenon DEF EncoderHeld, EncoderIs
<1>4. ParamIsTheFile(params, f, name, p)
  BY <1>3, ParamOfFile
<1>5. QED
  BY <1>1, <1>2, <1>4, Zenon

(* A run ready for its first step runs in the precision it was configured.   *)
LEMMA ReadyRun ==
  ASSUME SetupInv, FileInv, NEW r \in Runs, pc[r] = "ready"
  PROVE  TheFile(load[r].model, file[r], config[r].compute.precision, config[r].compute.quant)
<1>1. PICK c : c = config[r]
  OBVIOUS
<1>2. "ready" \notin {"launch", "ended"} /\ "ready" \notin {"launch", "start", "ended"}
  OBVIOUS
<1>3. RunAt(request[r], pc[r], c, load[r])
  BY <1>1, Here, Zenon
<1>4. ConfigAt(request[r], c) /\ BackendHolds(c)
  BY <1>2, <1>3, Zenon DEF RunAt
<1>5. ChunkBytes(c) \in Nat
  BY <1>4, ThresholdBytes
<1>6. Dispatch(c)[2] = c.compute.precision
  <2>1. c.compute.backend \in Backends /\ c.compute.precision \in Precisions
    BY <1>4, Zenon DEF ConfigAt
  <2>2. Dispatch(c) = <<c.compute.backend, c.compute.precision>>
    BY <1>4, <2>1, CheckedArm
  <2>3. PICK x, y : x = c.compute.backend /\ y = c.compute.precision
    OBVIOUS
  <2>4. Dispatch(c) = <<x, y>>
    BY <2>2, <2>3, Zenon
  <2>5. Dispatch(c)[2] = y
    BY <2>4
  <2>6. QED
    BY <2>3, <2>5, Zenon
<1>7. FromFile(pc[r], c, file[r], load[r])
  BY <1>1, Zenon DEF FileInv
<1>8. PICK dtype, quant : dtype = c.compute.precision /\ quant = c.compute.quant
  OBVIOUS
<1>12. PICK limit \in Nat : limit = ChunkBytes(c)
  BY <1>5
<1>9. \/ ModelHeld(load[r].model, file[r], dtype, limit, quant)
      \/ MergeHeld(load[r].model, file[r], {}, dtype, limit, quant)
  BY <1>6, <1>7, <1>8, <1>12, pc[r] = "ready", Zenon DEF FromFile
<1>10. TheFile(load[r].model, file[r], dtype, quant)
  BY <1>9, HeldModelIsFile, MergedModelIsFile
<1>11. QED
  BY <1>1, <1>8, <1>10, Zenon

LEMMA FileIsLoaded ==
  ASSUME SetupInv, FileInv
  PROVE  BaseIsTheFile
<1>1. NothingIsIgnored
  <2>1. ASSUME NEW r \in Runs, pc[r] = "ready"
        PROVE  Consumed(file[r].base, config[r].compute.quant)
    BY <2>1, ReadyRun, Zenon DEF TheFile
  <2>2. QED
    BY <2>1, Zenon DEF NothingIsIgnored, Consumed
<1>2. ASSUME NEW r \in Runs, pc[r] = "ready"
      PROVE  /\ \A site \in DOMAIN Dims : SiteIsTheFile(r, site)
             /\ \A p \in DOMAIN Params :
                  /\ ParamIsTheFile(load[r].model.params, file[r].base, TensorOf(file[r].base, p), p)
                  /\ load[r].model.params[p].dtype = config[r].compute.precision
  <2>1. TheFile(load[r].model, file[r], config[r].compute.precision, config[r].compute.quant)
    BY <1>2, ReadyRun
  <2>2. ASSUME NEW site \in DOMAIN Dims
        PROVE  SiteIsTheFile(r, site)
    <3>1. SiteIs(load[r].model.bases[site], file[r].base, file[r].adapter, site, config[r].compute.precision)
      BY <2>1, Zenon DEF TheFile
    <3>2. QED
      BY <3>1, Zenon DEF SiteIsTheFile, SiteIs, ElementIs, DeltasAre, BlockAt
  <2>3. QED
    BY <2>1, <2>2, Zenon DEF TheFile
<1>3. ASSUME NEW r \in Runs, pc[r] = "encoding", NEW p \in DOMAIN EncoderParams
      PROVE  ParamIsTheFile(load[r].encoder.params, load[r].from,
                            CHOOSE n \in DOMAIN load[r].from : ComfyRemap(n) = p, p)
  <2>1. EncoderHeld(load[r])
    BY <1>3, Zenon DEF FileInv, FromFile
  <2>2. QED
    BY <1>3, <2>1, HeldEncoderIsFile, Zenon DEF TrunkTensor
<1>4. QED
  BY <1>1, <1>2, <1>3, Zenon DEF BaseIsTheFile

-----------------------------------------------------------------------------
(* Every step keeps what is held the file's                                  *)

FileLands(r) == FromFile(pc'[r], config'[r], file'[r], load'[r])

LEMMA HoldsNothing ==
  ASSUME NEW place, place \notin {"encoding", "quantize", "loaded", "merge", "ready"},
         NEW c, NEW opened, NEW held
  PROVE  FromFile(place, c, opened, held)
<1>1. place # "encoding" /\ place # "quantize" /\ place # "loaded" /\ place # "merge" /\ place # "ready"
  OBVIOUS
<1>2. QED
  BY <1>1, Zenon DEF FromFile

LEMMA HereWithFile ==
  ASSUME SetupInv, FileInv, NEW r \in Runs
  PROVE  /\ r \in DOMAIN pc /\ r \in DOMAIN config /\ r \in DOMAIN load /\ r \in DOMAIN file
         /\ FromFile(pc[r], config[r], file[r], load[r])
BY Here, Zenon DEF FileInv

LEMMA EndsWithoutFile ==
  ASSUME SetupInv, FileInv, NEW r \in Runs, End(r)
  PROVE  FileLands(r)
<1>1. pc'[r] = "ended"
  BY Here DEF End, To
<1>2. pc'[r] \notin {"encoding", "quantize", "loaded", "merge", "ready"}
  BY <1>1
<1>3. QED
  BY <1>2, HoldsNothing, Zenon DEF FileLands

LEMMA EarlyFile ==
  ASSUME SetupInv, FileInv, NEW r \in Runs,
         \/ Launch(r) \/ Validate(r) \/ EncodeWarm(r) \/ EncodeMiss(r) \/ Fetching(r)
         \/ EncodeRead(r) \/ EncodeDone(r) \/ EncodeFails(r) \/ Stop(r)
  PROVE  FileLands(r)
<1>1. \A place : To(r, place) => pc'[r] = place
  BY Here DEF To
<1>2. CASE Launch(r) \/ Validate(r) \/ EncodeWarm(r) \/ EncodeDone(r)
  <2>1. To(r, "start") \/ To(r, "encode") \/ To(r, "dispatch") \/ To(r, "ended")
    BY <1>2, Zenon DEF Launch, Validate, EncodeWarm, EncodeDone
  <2>2. pc'[r] \in {"start", "encode", "dispatch", "ended"}
    BY <1>1, <2>1
  <2>3. pc'[r] \notin {"encoding", "quantize", "loaded", "merge", "ready"}
    BY <2>2
  <2>4. QED
    BY <2>3, HoldsNothing, Zenon DEF FileLands
<1>3. CASE EncodeMiss(r) \/ Fetching(r) \/ EncodeRead(r)
  <2>1. pc' = pc /\ config' = config /\ file' = file /\ load' = load
    BY <1>3, Zenon DEF EncodeMiss, Fetching, EncodeRead
  <2>2. QED
    BY <2>1, HereWithFile, Zenon DEF FileLands
<1>4. CASE EncodeFails(r) \/ Stop(r)
  <2>1. End(r)
    BY <1>4, Zenon DEF EncodeFails, Stop
  <2>2. QED
    BY <2>1, EndsWithoutFile
<1>5. QED
  BY <1>2, <1>3, <1>4, Zenon

LEMMA EncoderFile ==
  ASSUME SetupInv, FileInv, NEW r \in Runs, EncodeLoad(r)
  PROVE  FileLands(r)
<1>1. r \in DOMAIN pc /\ r \in DOMAIN load
  BY Here
<1>2. PICK f \in EncoderFiles :
        \/ End(r)
        \/ /\ LoadEncoder(f, "F32") # <<>> /\ To(r, "encoding")
           /\ Holding(r, [kind |-> "encoder", from |-> f, encoder |-> LoadEncoder(f, "F32")[1]])
  BY Zenon DEF EncodeLoad
<1>3. CASE End(r)
  BY <1>3, EndsWithoutFile
<1>4. CASE /\ LoadEncoder(f, "F32") # <<>> /\ To(r, "encoding")
           /\ Holding(r, [kind |-> "encoder", from |-> f, encoder |-> LoadEncoder(f, "F32")[1]])
  <2>1. PICK e : e = LoadEncoder(f, "F32")[1]
    OBVIOUS
  <2>2. EncoderIs(e.params, f)
    BY <1>4, <2>1, EncoderLoaded, Zenon
  <2>3. pc'[r] = "encoding" /\ load'[r] = [kind |-> "encoder", from |-> f, encoder |-> e]
    BY <1>1, <1>4, <2>1 DEF To, Holding
  <2>4. load'[r].from = f /\ load'[r].encoder = e
    BY <2>3
  <2>5. EncoderHeld(load'[r])
    BY <2>2, <2>4, Zenon DEF EncoderHeld
  <2>6. /\ "encoding" # "quantize" /\ "encoding" # "loaded" /\ "encoding" # "merge"
        /\ "encoding" # "ready"
    OBVIOUS
  <2>7. QED
    BY <2>3, <2>5, <2>6, Zenon DEF FileLands, FromFile
<1>5. QED
  BY <1>2, <1>3, <1>4

(* What each place holds, one at a time.                                     *)
LEMMA Quantizing ==
  ASSUME NEW c, NEW opened, NEW held, StreamHeld(held, opened, Dispatch(c)[2], ChunkBytes(c))
  PROVE  FromFile("quantize", c, opened, held)
<1>1. /\ "quantize" # "encoding" /\ "quantize" # "loaded" /\ "quantize" # "merge"
      /\ "quantize" # "ready"
  OBVIOUS
<1>2. QED
  BY <1>1, Zenon DEF FromFile

LEMMA Loaded ==
  ASSUME NEW c, NEW opened, NEW held,
         ModelHeld(held.model, opened, Dispatch(c)[2], ChunkBytes(c), c.compute.quant)
  PROVE  FromFile("loaded", c, opened, held) /\ FromFile("ready", c, opened, held)
<1>1. /\ "loaded" # "encoding" /\ "loaded" # "quantize" /\ "loaded" # "merge"
      /\ "ready" # "encoding" /\ "ready" # "quantize" /\ "ready" # "merge" /\ "ready" # "loaded"
  OBVIOUS
<1>2. QED
  BY <1>1, Zenon DEF FromFile

LEMMA Merging ==
  ASSUME NEW c, NEW opened, NEW held, held.site \in Nat \ {0},
         MergeHeld(held.model, opened, held.left, Dispatch(c)[2], ChunkBytes(c), c.compute.quant)
  PROVE  FromFile("merge", c, opened, held)
<1>1. /\ "merge" # "encoding" /\ "merge" # "quantize" /\ "merge" # "loaded" /\ "merge" # "ready"
  OBVIOUS
<1>2. QED
  BY <1>1, Zenon DEF FromFile

(* What a run that quantizes, has loaded or merges, holds of its files.      *)
LEMMA HoldsOfFile ==
  ASSUME SetupInv, FileInv, NEW r \in Runs
  PROVE  /\ pc[r] = "quantize" =>
              StreamHeld(load[r], file[r], Dispatch(config[r])[2], ChunkBytes(config[r]))
         /\ pc[r] = "loaded" =>
              ModelHeld(load[r].model, file[r], Dispatch(config[r])[2], ChunkBytes(config[r]),
                        config[r].compute.quant)
         /\ pc[r] = "merge" =>
              /\ load[r].site \in Nat \ {0}
              /\ MergeHeld(load[r].model, file[r], load[r].left, Dispatch(config[r])[2],
                           ChunkBytes(config[r]), config[r].compute.quant)
<1>1. FromFile(pc[r], config[r], file[r], load[r])
  BY HereWithFile
<1>2. QED
  BY <1>1, Zenon DEF FromFile

LEMMA FileOpened ==
  ASSUME FileInv, NEW r \in Runs, NEW f, Reading(r, [NoFile EXCEPT !.base = f])
  PROVE  /\ {"base", "adapter"} \subseteq DOMAIN file'[r]
         /\ file'[r].base = f /\ file'[r].adapter = <<>>
<1>1. file'[r] = [NoFile EXCEPT !.base = f]
  BY DEF FileInv, Reading
<1>2. QED
  BY <1>1 DEF NoFile

LEMMA BaseFile ==
  ASSUME SetupInv, FileInv, NEW r \in Runs, OpenBase(r)
  PROVE  FileLands(r)
<1> DEFINE c == config[r]
           dtype == Dispatch(c)[2]
<1>1. r \in DOMAIN pc /\ r \in DOMAIN load /\ RunAt(request[r], pc[r], config[r], load[r])
  BY Here
<1>2. pc[r] = "dispatch" /\ config' = config
  BY Zenon DEF OpenBase
<1>3. ConfigAt(request[r], c)
  <2>1. "dispatch" \notin {"launch", "ended"}
    OBVIOUS
  <2>2. QED
    BY <1>1, <1>2, <2>1, Zenon DEF RunAt
<1>4. PICK limit \in Nat : limit = ChunkBytes(c)
  BY <1>3, ThresholdBytes
<1>5. PICK f \in Checkpoints[r] :
        \/ End(r)
        \/ /\ ~Refused(f) /\ To(r, "quantize") /\ Reading(r, [NoFile EXCEPT !.base = f])
           /\ Holding(r, [kind |-> "stream", site |-> 1, stream |-> OpenStream(f, dtype, ChunkBytes(c))])
        \/ /\ c.compute.quant = "none" /\ LoadBase(f, dtype) # <<>> /\ To(r, "loaded")
           /\ Reading(r, [NoFile EXCEPT !.base = f])
           /\ Holding(r, [kind |-> "model", model |-> NoGrad(LoadBase(f, dtype)[1])])
  BY Zenon DEF OpenBase
<1>6. IsCheckpoint(f)
  BY CheckpointsAre
<1>7. config'[r] = c
  BY <1>2
<1>8. PICK opened : opened = file'[r]
  OBVIOUS
<1> HIDE DEF c, dtype
<1>9. CASE End(r)
  BY <1>9, EndsWithoutFile
<1>10. CASE /\ ~Refused(f) /\ To(r, "quantize") /\ Reading(r, [NoFile EXCEPT !.base = f])
            /\ Holding(r, [kind |-> "stream", site |-> 1, stream |-> OpenStream(f, dtype, ChunkBytes(c))])
  <2>1. PICK stream : stream = OpenStream(f, dtype, ChunkBytes(c))
    OBVIOUS
  <2>2. StreamOf(stream, f, dtype, limit)
    BY <1>4, <1>6, <2>1, OpenedStreamOf, Zenon
  <2>3. pc'[r] = "quantize" /\ load'[r] = [kind |-> "stream", site |-> 1, stream |-> stream]
    BY <1>1, <1>10, <2>1 DEF To, Holding
  <2>4. load'[r].site \in Nat \ {0} /\ load'[r].stream = stream
    BY <2>3
  <2>5. {"base", "adapter"} \subseteq DOMAIN opened /\ opened.base = f /\ opened.adapter = <<>>
    BY <1>8, <1>10, FileOpened, Zenon
  <2>6. StreamHeld(load'[r], opened, dtype, limit)
    BY <1>6, <1>10, <2>2, <2>4, <2>5, Zenon DEF StreamHeld
  <2>7. FromFile("quantize", c, opened, load'[r])
    BY <1>4, <2>6, Quantizing, Zenon DEF dtype
  <2>8. QED
    BY <1>7, <1>8, <2>3, <2>7, Zenon DEF FileLands
<1>11. CASE /\ c.compute.quant = "none" /\ LoadBase(f, dtype) # <<>> /\ To(r, "loaded")
            /\ Reading(r, [NoFile EXCEPT !.base = f])
            /\ Holding(r, [kind |-> "model", model |-> NoGrad(LoadBase(f, dtype)[1])])
  <2>1. PICK model : model = NoGrad(LoadBase(f, dtype)[1])
    OBVIOUS
  <2>2. ModelLoaded(model, f, dtype, limit, "none")
    BY <1>6, <1>11, <2>1, BaseLoaded, Zenon
  <2>3. pc'[r] = "loaded" /\ load'[r] = [kind |-> "model", model |-> model]
    BY <1>1, <1>11, <2>1 DEF To, Holding
  <2>4. load'[r].model = model
    BY <2>3
  <2>5. {"base", "adapter"} \subseteq DOMAIN opened /\ opened.base = f /\ opened.adapter = <<>>
    BY <1>8, <1>11, FileOpened, Zenon
  <2>6. ModelHeld(load'[r].model, opened, dtype, limit, c.compute.quant)
    BY <1>11, <2>2, <2>4, <2>5, Zenon DEF ModelHeld
  <2>7. FromFile("loaded", c, opened, load'[r])
    BY <1>4, <2>6, Loaded, Zenon DEF dtype
  <2>8. QED
    BY <1>7, <1>8, <2>3, <2>7, Zenon DEF FileLands
<1>12. QED
  BY <1>5, <1>9, <1>10, <1>11, Zenon

LEMMA QuantizedFile ==
  ASSUME SetupInv, FileInv, NEW r \in Runs, QuantizeNext(r)
  PROVE  FileLands(r)
<1> DEFINE c == config[r]
           dtype == Dispatch(c)[2]
           site == AllBaseLinears[load[r].site]
           next == QuantizeSite(load[r].stream, site, ChunkBytes(c))
<1>1. r \in DOMAIN pc /\ r \in DOMAIN load
  BY Here
<1>2. /\ pc[r] = "quantize" /\ config' = config /\ load[r].site <= Len(AllBaseLinears)
      /\ (next = <<>> => End(r))
      /\ (next # <<>> => /\ Holding(r, [load[r] EXCEPT !.site = @ + 1, !.stream = next[1]])
                         /\ pc' = pc /\ file' = file)
  BY Zenon DEF QuantizeNext
<1>3. PICK limit \in Nat : limit = ChunkBytes(c)
  <2>1. pc[r] \in {"quantize", "loaded", "merge"}
    BY <1>2
  <2>2. ChunkBytes(c) \in Nat
    BY <2>1, Holds, Zenon
  <2>3. QED
    BY <2>2, Zenon
<1>4. {"kind", "stream", "site"} \subseteq DOMAIN load[r]
  <2>1. pc[r] \in {"quantize", "loaded", "merge"}
    BY <1>2
  <2>2. QED
    BY <1>2, <2>1, Holds, Zenon
<1>5. config'[r] = c
  BY <1>2
<1>6. PICK opened, held : opened = file[r] /\ held = load[r]
  OBVIOUS
<1>7. StreamHeld(held, opened, dtype, limit)
  BY <1>2, <1>3, <1>6, HoldsOfFile, Zenon
<1>8. PICK f : f = opened.base
  OBVIOUS
<1>9. /\ {"base", "adapter"} \subseteq DOMAIN opened
      /\ IsCheckpoint(f) /\ ~Refused(f) /\ opened.adapter = <<>> /\ held.site \in Nat \ {0}
      /\ StreamOf(held.stream, f, dtype, limit)
  BY <1>7, <1>8, Zenon DEF StreamHeld
<1>10. site \in DOMAIN Dims
  <2>1. AllBaseLinears \in Seq(DOMAIN Dims)
    BY SitesAssumption, Zenon
  <2>2. held.site \in 1 .. Len(AllBaseLinears)
    BY <1>2, <1>6, <1>9, <2>1
  <2>3. QED
    BY <1>6, <2>1, <2>2, ElementOfSeq, Zenon
<1> HIDE DEF c, dtype, site
<1>11. CASE next = <<>>
  BY <1>2, <1>11, EndsWithoutFile
<1>12. CASE next # <<>>
  <2>1. PICK stream : stream = next[1]
    OBVIOUS
  <2>2. PICK old : old = held.stream
    OBVIOUS
  <2>3. StreamOf(old, f, dtype, limit)
    BY <1>9, <2>2, Zenon
  <2>4. next = QuantizeSite(old, site, limit)
    BY <1>3, <1>6, <2>2, Zenon
  <2>5. StreamOf(stream, f, dtype, limit)
    <3>1. QuantizeSite(old, site, limit) # <<>>
      BY <1>12, <2>4, Zenon
    <3>2. StreamOf(QuantizeSite(old, site, limit)[1], f, dtype, limit)
      BY <1>9, <1>10, <2>3, <3>1, QuantizedSiteOf
    <3>3. QED
      BY <2>1, <2>4, <3>2, Zenon
  <2> HIDE DEF next
  <2>6. /\ pc'[r] = "quantize" /\ file'[r] = opened
        /\ load'[r] = [held EXCEPT !.site = @ + 1, !.stream = stream]
    BY <1>1, <1>2, <1>6, <1>12, <2>1 DEF Holding
  <2>7. load'[r].site = held.site + 1 /\ load'[r].stream = stream
    BY <1>4, <1>6, <2>6
  <2>8. load'[r].site \in Nat \ {0}
    BY <1>9, <2>7
  <2>9. StreamHeld(load'[r], opened, dtype, limit)
    BY <1>8, <1>9, <2>5, <2>7, <2>8, Zenon DEF StreamHeld
  <2>10. FromFile("quantize", c, opened, load'[r])
    BY <1>3, <2>9, Quantizing, Zenon DEF dtype
  <2>11. QED
    BY <1>5, <2>6, <2>10, Zenon DEF FileLands
<1>13. QED
  BY <1>11, <1>12

LEMMA AppliedFile ==
  ASSUME SetupInv, FileInv, NEW r \in Runs, QuantizeDone(r)
  PROVE  FileLands(r)
<1> DEFINE c == config[r]
           dtype == Dispatch(c)[2]
           applied == ApplyRest(load[r].stream, dtype)
<1>1. r \in DOMAIN pc /\ r \in DOMAIN load
  BY Here
<1>2. /\ pc[r] = "quantize" /\ config' = config
      /\ (applied = <<>> => End(r))
      /\ (applied # <<>> => /\ Holding(r, [kind |-> "model", model |-> NoGrad(applied[1])])
                            /\ To(r, "loaded") /\ file' = file)
  BY Zenon DEF QuantizeDone
<1>3. PICK limit : limit = ChunkBytes(c)
  OBVIOUS
<1>5. config'[r] = c
  BY <1>2
<1>6. PICK opened, held : opened = file[r] /\ held = load[r]
  OBVIOUS
<1>7. StreamHeld(held, opened, dtype, limit)
  BY <1>2, <1>3, <1>6, HoldsOfFile, Zenon
<1>8. PICK f, stream : f = opened.base /\ stream = held.stream
  OBVIOUS
<1>9. /\ {"base", "adapter"} \subseteq DOMAIN opened
      /\ IsCheckpoint(f) /\ ~Refused(f) /\ opened.adapter = <<>>
      /\ StreamOf(stream, f, dtype, limit)
  BY <1>7, <1>8, Zenon DEF StreamHeld
<1>10. PICK quant : quant = c.compute.quant
  OBVIOUS
<1> HIDE DEF c, dtype
<1>11. CASE applied = <<>>
  BY <1>2, <1>11, EndsWithoutFile
<1>12. CASE applied # <<>>
  <2>1. PICK model : model = NoGrad(applied[1])
    OBVIOUS
  <2>2. applied = ApplyRest(stream, dtype)
    BY <1>6, <1>8, Zenon
  <2>3. ModelLoaded(model, f, dtype, limit, quant)
    <3>1. ApplyRest(stream, dtype) # <<>>
      BY <1>12, <2>2, Zenon
    <3>2. ModelLoaded(NoGrad(ApplyRest(stream, dtype)[1]), f, dtype, limit, quant)
      BY <1>9, <3>1, RestLoaded
    <3>3. QED
      BY <2>1, <2>2, <3>2, Zenon
  <2> HIDE DEF applied
  <2>4. /\ pc'[r] = "loaded" /\ file'[r] = opened
        /\ load'[r] = [kind |-> "model", model |-> model]
    BY <1>1, <1>2, <1>6, <1>12, <2>1 DEF To, Holding
  <2>5. load'[r].model = model
    BY <2>4
  <2>6. ModelHeld(load'[r].model, opened, dtype, limit, quant)
    BY <1>8, <1>9, <2>3, <2>5, Zenon DEF ModelHeld
  <2>7. FromFile("loaded", c, opened, load'[r])
    BY <1>3, <1>10, <2>6, Loaded, Zenon DEF dtype
  <2>8. QED
    BY <1>5, <2>4, <2>7, Zenon DEF FileLands
<1>13. QED
  BY <1>11, <1>12

LEMMA UnmergedFile ==
  ASSUME SetupInv, FileInv, NEW r \in Runs, NoAdapter(r)
  PROVE  FileLands(r)
<1>1. /\ pc[r] = "loaded" /\ pc'[r] = "ready" /\ config' = config /\ file' = file /\ load' = load
  BY Here DEF NoAdapter, To
<1>2. ModelHeld(load[r].model, file[r], Dispatch(config[r])[2], ChunkBytes(config[r]), config[r].compute.quant)
  BY <1>1, HoldsOfFile, Zenon
<1>3. FromFile("ready", config[r], file[r], load[r])
  BY <1>2, Loaded
<1>4. QED
  BY <1>1, <1>3, Zenon DEF FileLands

LEMMA AdapterOpened ==
  ASSUME NEW opened, {"base", "adapter"} \subseteq DOMAIN opened, NEW f
  PROVE  /\ [opened EXCEPT !.adapter = <<f>>].base = opened.base
         /\ [opened EXCEPT !.adapter = <<f>>].adapter = <<f>>
<1>1. \A x : [opened EXCEPT !.adapter = x].base = opened.base /\ [opened EXCEPT !.adapter = x].adapter = x
  OBVIOUS
<1>2. QED
  BY <1>1, Zenon

(* Nothing is merged when the adapter has been opened.                       *)
LEMMA NothingMerged ==
  ASSUME NEW model, NEW g, {"bases", "params"} \subseteq DOMAIN model, DOMAIN model.bases = DOMAIN Dims
  PROVE  MergedFrom(model, model, g, AdapterSites(g))
<1>1. \A p \in DOMAIN Dims : MergedSite(model.bases[p], model.bases[p], p, g, AdapterSites(g))
  BY Zenon DEF MergedSite
<1>2. QED
  BY <1>1, Zenon DEF MergedFrom

LEMMA LoadedArm ==
  ASSUME NEW base, NEW f, NEW path, NEW dtype, NEW limit, SiteLoaded(base, f, path, dtype, limit)
  PROVE  base.arm \in {"Plain", "Quant"}
<1>1. PICK w, v : \/ base = Frozen(PlainLinear(w, dtype))
                  \/ base = Frozen(QuantLinear(v))
  BY Zenon DEF SiteLoaded
<1>2. base.arm = "Plain" \/ base.arm = "Quant"
  <2>1. CASE base = Frozen(PlainLinear(w, dtype))
    <3>1. Frozen(PlainLinear(w, dtype)).arm = "Plain"
      BY FrozenPlain
    <3>2. QED
      BY <2>1, <3>1, Zenon
  <2>2. CASE base = Frozen(QuantLinear(v))
    <3>1. Frozen(QuantLinear(v)).arm = "Quant"
      BY FrozenQuant
    <3>2. QED
      BY <2>2, <3>1, Zenon
  <2>3. QED
    BY <1>1, <2>1, <2>2
<1>3. QED
  BY <1>2

FoldedIn(model, path, x) == [model EXCEPT !.bases[path] = x]
Untaken(left, path) == left \ {s \in left : s.path = path}

LEMMA FoldedFields ==
  ASSUME NEW model, {"bases", "params"} \subseteq DOMAIN model, NEW path \in DOMAIN model.bases, NEW x
  PROVE  /\ {"bases", "params"} \subseteq DOMAIN FoldedIn(model, path, x)
         /\ FoldedIn(model, path, x).params = model.params
         /\ DOMAIN FoldedIn(model, path, x).bases = DOMAIN model.bases
         /\ FoldedIn(model, path, x).bases[path] = x
         /\ \A p \in DOMAIN model.bases : p # path => FoldedIn(model, path, x).bases[p] = model.bases[p]
BY DEF FoldedIn

(* A site is taken from the adapter once, and its linear merged once.        *)
LEMMA MergedOnce ==
  ASSUME NEW model, NEW plain, NEW g, NEW left, left \subseteq AdapterSites(g),
         MergedFrom(model, plain, g, left), NEW path \in DOMAIN Dims,
         NEW s \in left, s.path = path, Fits(model.bases[path], s),
         model.bases[path].arm # "Quant", plain.bases[path].arm \in {"Plain", "Quant"}
  PROVE  MergedFrom(FoldedIn(model, path, MergedLinear(model.bases[path], s)), plain, g, Untaken(left, path))
<1>1. /\ {"bases", "params"} \subseteq DOMAIN model /\ DOMAIN model.bases = DOMAIN Dims
      /\ model.params = plain.params
      /\ \A p \in DOMAIN Dims : MergedSite(model.bases[p], plain.bases[p], p, g, left)
  BY Zenon DEF MergedFrom
<1>2. PICK x : x = MergedLinear(model.bases[path], s)
  OBVIOUS
<1>3. PICK next : next = FoldedIn(model, path, x)
  OBVIOUS
<1>4. /\ {"bases", "params"} \subseteq DOMAIN next /\ next.params = model.params
      /\ DOMAIN next.bases = DOMAIN model.bases /\ next.bases[path] = x
      /\ \A p \in DOMAIN model.bases : p # path => next.bases[p] = model.bases[p]
  BY <1>1, <1>3, FoldedFields
<1>5. \A t : t \in Untaken(left, path) <=> t \in left /\ t.path # path
  BY Zenon DEF Untaken
<1>6. model.bases[path] = plain.bases[path]
  BY <1>1, Zenon DEF MergedSite
<1>7. MergedSite(next.bases[path], plain.bases[path], path, g, Untaken(left, path))
  <2>1. plain.bases[path].arm = "Plain"
    BY <1>6
  <2>2. s \in AdapterSites(g) /\ Fits(plain.bases[path], s)
    BY <1>6, Zenon
  <2>3. next.bases[path] = MergedLinear(plain.bases[path], s)
    BY <1>2, <1>4, <1>6, Zenon
  <2>4. QED
    BY <1>5, <2>1, <2>2, <2>3, Zenon DEF MergedSite
<1>8. ASSUME NEW p \in DOMAIN Dims, p # path
      PROVE  MergedSite(next.bases[p], plain.bases[p], p, g, Untaken(left, path))
  <2>1. MergedSite(model.bases[p], plain.bases[p], p, g, left)
    BY <1>1
  <2>2. next.bases[p] = model.bases[p]
    BY <1>1, <1>4, <1>8, Zenon
  <2>3. QED
    BY <1>5, <1>8, <2>1, <2>2, Zenon DEF MergedSite
<1>9. MergedFrom(next, plain, g, Untaken(left, path))
  BY <1>1, <1>4, <1>7, <1>8, Zenon DEF MergedFrom
<1>10. QED
  BY <1>2, <1>3, <1>9, Zenon

LEMMA AdapterFile ==
  ASSUME SetupInv, FileInv, NEW r \in Runs, OpenAdapter(r)
  PROVE  FileLands(r)
<1>1. r \in DOMAIN pc /\ r \in DOMAIN load /\ r \in DOMAIN file
  BY HereWithFile
<1>2. PICK c, opened, model : c = config[r] /\ opened = file[r] /\ model = load[r].model
  OBVIOUS
<1>3. pc[r] = "loaded" /\ config' = config
  BY Zenon DEF OpenAdapter
<1>4. PICK g \in AdapterFiles :
        \/ End(r)
        \/ /\ ~AdapterRefused(g) /\ To(r, "merge") /\ Reading(r, [opened EXCEPT !.adapter = <<g>>])
           /\ Holding(r, [kind |-> "merge", model |-> model, site |-> 1, left |-> AdapterSites(g)])
  BY <1>2, Zenon DEF OpenAdapter
<1>5. PICK dtype, limit, quant : dtype = Dispatch(c)[2] /\ limit = ChunkBytes(c) /\ quant = c.compute.quant
  OBVIOUS
<1>6. ModelHeld(model, opened, dtype, limit, quant)
  BY <1>2, <1>3, <1>5, HoldsOfFile, Zenon
<1>7. /\ {"base", "adapter"} \subseteq DOMAIN opened /\ opened.adapter = <<>>
      /\ ModelLoaded(model, opened.base, dtype, limit, quant)
  BY <1>6, Zenon DEF ModelHeld
<1>8. CASE End(r)
  BY <1>8, EndsWithoutFile
<1>9. CASE /\ ~AdapterRefused(g) /\ To(r, "merge") /\ Reading(r, [opened EXCEPT !.adapter = <<g>>])
           /\ Holding(r, [kind |-> "merge", model |-> model, site |-> 1, left |-> AdapterSites(g)])
  <2>1. PICK both, sites : both = [opened EXCEPT !.adapter = <<g>>] /\ sites = AdapterSites(g)
    OBVIOUS
  <2>2. both.base = opened.base /\ both.adapter = <<g>>
    BY <1>7, <2>1, AdapterOpened, Zenon
  <2>3. /\ pc'[r] = "merge" /\ file'[r] = both
        /\ load'[r] = [kind |-> "merge", model |-> model, site |-> 1, left |-> sites]
    BY <1>1, <1>9, <2>1 DEF To, Holding, Reading
  <2>4. load'[r].model = model /\ load'[r].site \in Nat \ {0} /\ load'[r].left = sites
    BY <2>3
  <2>5. MergedFrom(model, model, g, sites)
    BY <1>7, <2>1, NothingMerged, Zenon DEF ModelLoaded
  <2>6. MergeHeld(model, both, sites, dtype, limit, quant)
    BY <1>7, <1>9, <2>1, <2>2, <2>5, Zenon DEF MergeHeld
  <2>7. PICK held : held = load'[r]
    OBVIOUS
  <2>8. MergeHeld(held.model, both, held.left, dtype, limit, quant) /\ held.site \in Nat \ {0}
    BY <2>4, <2>6, <2>7, Zenon
  <2>9. FromFile("merge", c, both, held)
    BY <1>5, <2>8, Merging, Zenon
  <2>10. config'[r] = c
    BY <1>2, <1>3
  <2>11. QED
    BY <2>3, <2>7, <2>9, <2>10, Zenon DEF FileLands
<1>10. QED
  BY <1>4, <1>8, <1>9, Zenon

(* What the merge holds after a site.                                        *)
LEMMA StillMerging ==
  ASSUME SetupInv, FileInv, NEW r \in Runs, pc[r] = "merge", pc' = pc, config' = config, file' = file,
         load'[r].site = load[r].site + 1,
         MergeHeld(load'[r].model, file[r], load'[r].left, Dispatch(config[r])[2],
                   ChunkBytes(config[r]), config[r].compute.quant)
  PROVE  FileLands(r)
<1>1. PICK held, next : held = load[r] /\ next = load'[r]
  OBVIOUS
<1>2. held.site \in Nat \ {0}
  BY <1>1, HoldsOfFile, Zenon
<1>3. next.site \in Nat \ {0}
  BY <1>1, <1>2
<1>4. FromFile("merge", config[r], file[r], next)
  BY <1>1, <1>3, Merging, Zenon
<1>5. QED
  BY <1>1, <1>4, Zenon DEF FileLands

LEMMA MergedFile ==
  ASSUME SetupInv, FileInv, NEW r \in Runs, MergeNext(r)
  PROVE  FileLands(r)
<1> DEFINE path == AllBaseLinears[load[r].site]
           named == {s \in load[r].left : s.path = path}
<1>1. r \in DOMAIN pc /\ r \in DOMAIN load /\ r \in DOMAIN file
  BY HereWithFile
<1>2. PICK c, opened, held : c = config[r] /\ opened = file[r] /\ held = load[r]
  OBVIOUS
<1>3. /\ pc[r] = "merge" /\ config' = config /\ held.site <= Len(AllBaseLinears)
      /\ \/ End(r)
         \/ /\ pc' = pc /\ file' = file
            /\ \/ Holding(r, [held EXCEPT !.site = @ + 1])
               \/ \E s \in named :
                    /\ held.model.bases[path].arm # "Quant" /\ Fits(held.model.bases[path], s)
                    /\ Holding(r, [held EXCEPT !.site = @ + 1, !.left = @ \ named,
                                               !.model.bases[path] = MergedLinear(held.model.bases[path], s)])
  <2>1. \A S : S # {} => (CHOOSE s \in S : TRUE) \in S
    BY Zenon
  <2>2. QED
    BY <1>2, <2>1, Zenon DEF MergeNext
<1>4. {"kind", "model", "site", "left"} \subseteq DOMAIN held
  <2>1. pc[r] \in {"quantize", "loaded", "merge"}
    BY <1>3
  <2>2. QED
    BY <1>2, <1>3, <2>1, Holds, Zenon
<1>5. PICK dtype, limit, quant : dtype = Dispatch(c)[2] /\ limit = ChunkBytes(c) /\ quant = c.compute.quant
  OBVIOUS
<1>6. held.site \in Nat \ {0} /\ MergeHeld(held.model, opened, held.left, dtype, limit, quant)
  BY <1>2, <1>3, <1>5, HoldsOfFile, Zenon
<1>7. path \in DOMAIN Dims
  <2>1. AllBaseLinears \in Seq(DOMAIN Dims)
    BY SitesAssumption, Zenon
  <2>2. held.site \in Nat \ {0} /\ held.site <= Len(AllBaseLinears)
    BY <1>3, <1>6, Zenon
  <2>3. held.site \in 1 .. Len(AllBaseLinears)
    BY <2>1, <2>2
  <2>4. QED
    BY <1>2, <2>1, <2>3, ElementOfSeq, Zenon
<1>8. named = {s \in held.left : s.path = path}
  BY <1>2
<1> HIDE DEF path, named
<1>9. CASE End(r)
  BY <1>9, EndsWithoutFile
<1>10. CASE pc' = pc /\ file' = file /\ Holding(r, [held EXCEPT !.site = @ + 1])
  <2>1. load'[r] = [held EXCEPT !.site = @ + 1]
    BY <1>1, <1>10 DEF Holding
  <2>2. load'[r].site = held.site + 1 /\ load'[r].model = held.model /\ load'[r].left = held.left
    BY <1>4, <2>1
  <2>3. MergeHeld(load'[r].model, file[r], load'[r].left, Dispatch(config[r])[2],
                  ChunkBytes(config[r]), config[r].compute.quant)
    BY <1>2, <1>5, <1>6, <2>2, Zenon
  <2>4. QED
    BY <1>2, <1>3, <1>10, <2>2, <2>3, StillMerging
<1>11. ASSUME pc' = pc, file' = file, NEW s \in named,
              held.model.bases[path].arm # "Quant", Fits(held.model.bases[path], s),
              Holding(r, [held EXCEPT !.site = @ + 1, !.left = @ \ named,
                                      !.model.bases[path] = MergedLinear(held.model.bases[path], s)])
       PROVE  FileLands(r)
  <2>1. PICK model, left, x : model = held.model /\ left = held.left /\ x = MergedLinear(held.model.bases[path], s)
    OBVIOUS
  <2>2. load'[r] = [held EXCEPT !.site = @ + 1, !.left = @ \ named, !.model.bases[path] = x]
    BY <1>1, <1>11, <2>1 DEF Holding
  <2>3. /\ load'[r].site = held.site + 1 /\ load'[r].left = left \ named
        /\ load'[r].model = FoldedIn(model, path, x)
    BY <1>4, <2>1, <2>2 DEF FoldedIn
  <2>4. load'[r].left = Untaken(left, path)
    BY <1>8, <2>1, <2>3, Zenon DEF Untaken
  <2>5. PICK g \in AdapterFiles :
          \E plain : /\ opened.adapter = <<g>> /\ ~AdapterRefused(g) /\ left \subseteq AdapterSites(g)
                     /\ ModelLoaded(plain, opened.base, dtype, limit, quant)
                     /\ MergedFrom(model, plain, g, left)
    BY <1>6, <2>1, Zenon DEF MergeHeld
  <2>6. PICK plain : /\ opened.adapter = <<g>> /\ ~AdapterRefused(g) /\ left \subseteq AdapterSites(g)
                     /\ ModelLoaded(plain, opened.base, dtype, limit, quant)
                     /\ MergedFrom(model, plain, g, left)
    BY <2>5
  <2>7. plain.bases[path].arm \in {"Plain", "Quant"}
    <3>1. PICK old : old = plain.bases[path]
      OBVIOUS
    <3>2. SiteLoaded(old, opened.base, path, dtype, limit)
      BY <1>7, <2>6, <3>1, Zenon DEF ModelLoaded
    <3>3. old.arm \in {"Plain", "Quant"}
      BY <3>2, LoadedArm
    <3>4. QED
      BY <3>1, <3>3, Zenon
  <2>8. s \in left /\ s.path = path
    BY <1>8, <1>11, <2>1, Zenon
  <2>9. MergedFrom(FoldedIn(model, path, x), plain, g, Untaken(left, path))
    <3>1. Fits(model.bases[path], s) /\ model.bases[path].arm # "Quant"
      BY <1>11, <2>1, Zenon
    <3>2. x = MergedLinear(model.bases[path], s)
      BY <2>1, Zenon
    <3>3. left \subseteq AdapterSites(g) /\ MergedFrom(model, plain, g, left)
      BY <2>6
    <3>4. MergedFrom(FoldedIn(model, path, MergedLinear(model.bases[path], s)), plain, g, Untaken(left, path))
      BY <1>7, <2>7, <2>8, <3>1, <3>3, MergedOnce
    <3>5. QED
      BY <3>2, <3>4, Zenon
  <2>10. Untaken(left, path) \subseteq AdapterSites(g)
    BY <2>6, Zenon DEF Untaken
  <2>11. MergeHeld(FoldedIn(model, path, x), opened, Untaken(left, path), dtype, limit, quant)
    BY <2>6, <2>9, <2>10, Zenon DEF MergeHeld
  <2>12. MergeHeld(load'[r].model, file[r], load'[r].left, Dispatch(config[r])[2],
                   ChunkBytes(config[r]), config[r].compute.quant)
    BY <1>2, <1>5, <2>3, <2>4, <2>11, Zenon
  <2>13. QED
    BY <1>2, <1>3, <1>11, <2>3, <2>12, StillMerging
<1>12. QED
  BY <1>3, <1>9, <1>10, <1>11, Zenon

(* What no site took ends the run: the adapter is merged whole.              *)
LEMMA WholeFile ==
  ASSUME SetupInv, FileInv, NEW r \in Runs, MergeDone(r)
  PROVE  FileLands(r)
<1>1. r \in DOMAIN pc /\ r \in DOMAIN load
  BY Here
<1>2. PICK c, opened, model : c = config[r] /\ opened = file[r] /\ model = load[r].model
  OBVIOUS
<1>3. /\ pc[r] = "merge" /\ config' = config
      /\ \/ End(r)
         \/ /\ load[r].left = {} /\ To(r, "ready") /\ file' = file
            /\ Holding(r, [kind |-> "model", model |-> model])
  BY <1>2, Zenon DEF MergeDone
<1>4. PICK dtype, limit, quant : dtype = Dispatch(c)[2] /\ limit = ChunkBytes(c) /\ quant = c.compute.quant
  OBVIOUS
<1>5. CASE End(r)
  BY <1>5, EndsWithoutFile
<1>6. CASE /\ load[r].left = {} /\ To(r, "ready") /\ file' = file
           /\ Holding(r, [kind |-> "model", model |-> model])
  <2>1. pc'[r] = "ready" /\ load'[r] = [kind |-> "model", model |-> model]
    BY <1>1, <1>6 DEF To, Holding
  <2>2. load'[r].model = model
    BY <2>1
  <2>3. MergeHeld(model, opened, {}, dtype, limit, quant)
    BY <1>2, <1>3, <1>4, <1>6, HoldsOfFile, Zenon
  <2>4. PICK held : held = load'[r]
    OBVIOUS
  <2>5. MergeHeld(held.model, opened, {}, dtype, limit, quant)
    BY <2>2, <2>3, <2>4, Zenon
  <2>6. "ready" # "encoding" /\ "ready" # "quantize" /\ "ready" # "merge" /\ "ready" # "loaded"
    OBVIOUS
  <2>7. FromFile("ready", c, opened, held)
    BY <1>4, <2>5, <2>6, Zenon DEF FromFile
  <2>8. config'[r] = c /\ file'[r] = opened
    BY <1>2, <1>3, <1>6
  <2>9. QED
    BY <2>1, <2>4, <2>7, <2>8, Zenon DEF FileLands
<1>7. QED
  BY <1>3, <1>5, <1>6

LEMMA OtherFilesStay ==
  ASSUME FileInv, NEW r \in Runs,
         \/ Launch(r) \/ Validate(r) \/ EncodeWarm(r) \/ EncodeMiss(r) \/ Fetching(r)
         \/ EncodeLoad(r) \/ EncodeRead(r) \/ EncodeDone(r) \/ EncodeFails(r)
         \/ OpenBase(r) \/ QuantizeNext(r) \/ QuantizeDone(r)
         \/ NoAdapter(r) \/ OpenAdapter(r) \/ MergeNext(r) \/ MergeDone(r)
         \/ Stop(r)
  PROVE  DOMAIN file' = Runs /\ \A q \in Runs \ {r} : file'[q] = file[q]
<1>1. file' = file \/ \E x : file' = [file EXCEPT ![r] = x]
  <2>1. \A x : Reading(r, x) => file' = [file EXCEPT ![r] = x]
    BY Zenon DEF Reading
  <2>2. End(r) => Reading(r, NoFile)
    BY Zenon DEF End
  <2>3. CASE \/ Launch(r) \/ Validate(r) \/ EncodeWarm(r) \/ EncodeMiss(r) \/ Fetching(r)
             \/ EncodeRead(r) \/ EncodeDone(r) \/ EncodeFails(r) \/ NoAdapter(r) \/ Stop(r)
    BY <2>1, <2>2, <2>3, Zenon DEF Launch, Validate, EncodeWarm, EncodeMiss, Fetching, EncodeRead,
       EncodeDone, EncodeFails, NoAdapter, Stop
  <2>4. CASE EncodeLoad(r)
    BY <2>1, <2>2, <2>4, Zenon DEF EncodeLoad
  <2>5. CASE OpenBase(r)
    BY <2>1, <2>2, <2>5, Zenon DEF OpenBase
  <2>6. CASE QuantizeNext(r) \/ QuantizeDone(r)
    BY <2>1, <2>2, <2>6, Zenon DEF QuantizeNext, QuantizeDone
  <2>7. CASE OpenAdapter(r)
    BY <2>1, <2>2, <2>7, Zenon DEF OpenAdapter
  <2>8. CASE MergeNext(r)
    BY <2>1, <2>2, <2>8, Zenon DEF MergeNext
  <2>9. CASE MergeDone(r)
    BY <2>1, <2>2, <2>9, Zenon DEF MergeDone
  <2>10. QED
    BY <2>3, <2>4, <2>5, <2>6, <2>7, <2>8, <2>9, Zenon
<1>2. \A x : /\ DOMAIN [file EXCEPT ![r] = x] = DOMAIN file
             /\ \A q \in DOMAIN file \ {r} : [file EXCEPT ![r] = x][q] = file[q]
  OBVIOUS
<1>3. DOMAIN file = Runs
  BY Zenon DEF FileInv
<1>4. QED
  BY <1>1, <1>2, <1>3, Zenon

LEMMA FileInit == Init => FileInv
<1> SUFFICES ASSUME Init
             PROVE  FileInv
  OBVIOUS
<1>1. DOMAIN file = Runs
  BY DEF Init
<1>2. ASSUME NEW r \in Runs
      PROVE  FromFile(pc[r], config[r], file[r], load[r])
  <2>1. pc[r] = "launch"
    BY DEF Init
  <2>2. pc[r] \notin {"encoding", "quantize", "loaded", "merge", "ready"}
    BY <2>1
  <2>3. QED
    BY <2>2, HoldsNothing, Zenon
<1>3. QED
  BY <1>1, <1>2, Zenon DEF FileInv

LEMMA FileStep ==
  ASSUME SetupInv, FileInv, [Next]_vars
  PROVE  FileInv'
<1>1. CASE UNCHANGED vars
  BY <1>1, Zenon DEF vars, FileInv
<1>2. ASSUME NEW r \in Runs,
             \/ Launch(r) \/ Validate(r) \/ EncodeWarm(r) \/ EncodeMiss(r) \/ Fetching(r)
             \/ EncodeLoad(r) \/ EncodeRead(r) \/ EncodeDone(r) \/ EncodeFails(r)
             \/ OpenBase(r) \/ QuantizeNext(r) \/ QuantizeDone(r)
             \/ NoAdapter(r) \/ OpenAdapter(r) \/ MergeNext(r) \/ MergeDone(r)
             \/ Stop(r)
      PROVE  FileInv'
  <2>1. FileLands(r)
    <3>1. CASE \/ Launch(r) \/ Validate(r) \/ EncodeWarm(r) \/ EncodeMiss(r) \/ Fetching(r)
               \/ EncodeRead(r) \/ EncodeDone(r) \/ EncodeFails(r) \/ Stop(r)
      BY <3>1, EarlyFile
    <3>2. CASE EncodeLoad(r)
      BY <3>2, EncoderFile
    <3>3. CASE OpenBase(r)
      BY <3>3, BaseFile
    <3>4. CASE QuantizeNext(r)
      BY <3>4, QuantizedFile
    <3>5. CASE QuantizeDone(r)
      BY <3>5, AppliedFile
    <3>6. CASE NoAdapter(r)
      BY <3>6, UnmergedFile
    <3>7. CASE OpenAdapter(r)
      BY <3>7, AdapterFile
    <3>8. CASE MergeNext(r)
      BY <3>8, MergedFile
    <3>9. CASE MergeDone(r)
      BY <3>9, WholeFile
    <3>10. QED
      BY <1>2, <3>1, <3>2, <3>3, <3>4, <3>5, <3>6, <3>7, <3>8, <3>9, Zenon
  <2>2. \A q \in Runs \ {r} : pc'[q] = pc[q] /\ config'[q] = config[q] /\ load'[q] = load[q]
    BY <1>2, OthersStay
  <2>3. DOMAIN file' = Runs /\ \A q \in Runs \ {r} : file'[q] = file[q]
    BY <1>2, OtherFilesStay
  <2>4. ASSUME NEW q \in Runs
        PROVE  FromFile(pc'[q], config'[q], file'[q], load'[q])
    <3>1. CASE q = r
      BY <2>1, <3>1, Zenon DEF FileLands
    <3>2. CASE q # r
      <4>1. FromFile(pc[q], config[q], file[q], load[q])
        BY HereWithFile
      <4>2. QED
        BY <2>2, <2>3, <3>2, <4>1, Zenon
    <3>3. QED
      BY <3>1, <3>2
  <2>5. QED
    BY <2>3, <2>4, Zenon DEF FileInv
<1>3. QED
  BY <1>1, <1>2, Zenon DEF Next

(* When the first step may run, each frozen parameter is what its tensor of  *)
(* the checkpoint says, row for row, under its own scale and quantization    *)
(* block, in the run's dtype, tracking no gradient, with the delta of the    *)
(* training adapter added exactly once, and nothing of a strictly loaded     *)
(* file is left over (load_module, load_fp8_module and load_quant_module,    *)
(* the traversal of all_base_linears_mut, merge_training_adapter), for every *)
(* checkpoint and adapter file whose names are distinct, every shape of the  *)
(* sites and every threshold.                                                *)
THEOREM BaseAlwaysTheFile == Spec => []BaseIsTheFile
<1>1. SetupInv /\ FileInv /\ [Next]_vars => FileInv'
  BY FileStep
<1>2. SetupInv /\ FileInv => BaseIsTheFile
  BY FileIsLoaded
<1>3. QED
  BY <1>1, <1>2, FileInit, SetupInvariant, PTL DEF Spec
=============================================================================
