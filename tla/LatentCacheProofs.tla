------------------------- MODULE LatentCacheProofs -------------------------
(***************************************************************************)
(* TLAPS proofs about LatentCache, for every number of runs, processes,    *)
(* entries and purges, every window and every assignment of captions: what *)
(* each of its invariants rests on, and that runs which share a directory  *)
(* never make each other fail.                                             *)
(***************************************************************************)
EXTENDS LatentCache, TLAPS

-----------------------------------------------------------------------------
(* Facts about the operators the actions are built from *)

LEMMA FilesAreFiles ==
  /\ Absent \in Files /\ Torn \in Files
  /\ Absent.state = "absent" /\ Torn.state = "torn"
  /\ \A n \in Nat : Whole(n) \in Files /\ Whole(n).state = "whole" /\ Whole(n).length = n
BY DEF Absent, Torn, Whole, Files

LEMMA EntryBounds ==
  /\ Images = 1 .. Entries
  /\ 1 \in Images
  /\ 1 # EmptyEntry /\ EmptyEntry # End
  /\ EmptyEntry \in Nat /\ End \in Nat /\ EmptyEntry \notin Images /\ End \notin Images
  /\ \A i \in 1 .. End : i # End => i \in 1 .. EmptyEntry
  /\ \A i \in 1 .. EmptyEntry : i # EmptyEntry => i \in Images
  /\ \A i \in Images : i \in 1 .. EmptyEntry
BY CountsAssumption DEF Images, EmptyEntry, End

LEMMA PathsOfEntries ==
  /\ \A i \in Images : LatentPath(i) \in Paths
  /\ \A i \in 1 .. EmptyEntry : CondPath(i) \in Paths
BY DEF Paths

LEMMA TargetIsPath ==
  ASSUME TypeOK, Placed, NEW r \in Runs, item[r] # End
  PROVE  Target(r) \in Paths
<1>1. CASE part[r] = "latent"
  BY <1>1, PathsOfEntries DEF Target, Placed
<1>2. CASE part[r] # "latent"
  <2>1. item[r] \in 1 .. EmptyEntry
    BY EntryBounds DEF TypeOK
  <2>2. QED
    BY <1>2, <2>1, PathsOfEntries DEF Target
<1>3. QED
  BY <1>1, <1>2

LEMMA AfterIsEntry ==
  ASSUME TypeOK, NEW r \in Runs, item[r] # End
  PROVE  After(r) \in 1 .. End
<1>1. item[r] \in 1 .. EmptyEntry
  BY EntryBounds DEF TypeOK
<1>2. End \in 1 .. End /\ item[r] + 1 \in 1 .. End
  BY <1>1, CountsAssumption DEF EmptyEntry, End
<1>3. QED
  BY <1>2 DEF After

LEMMA StagedPathIsName ==
  ASSUME NEW r \in Runs, NEW p \in Paths
  PROVE  StagedPath(r, p) \in Paths \X Pids
BY RunsAssumption DEF StagedPath

(* Two live processes never stage under one name. *)
LEMMA OtherStagedPath ==
  ASSUME NEW r \in Runs, NEW s \in Runs, NEW p, NEW q, Pid[r] # Pid[s]
  PROVE  StagedPath(r, p) # StagedPath(s, q)
BY DEF StagedPath

(* What happens to the position of a run that moves. *)
LEMMA MovesKeepTypes ==
  ASSUME TypeOK, Placed, NEW r \in Runs, phase[r] # "idle",
         \/ Refuse(r)
         \/ part[r] = "latent" /\ step[r] \in {"read", "publish"} /\ item[r] # End
            /\ ToConditioning(r)
         \/ item[r] # End /\ ToNextEntry(r)
  PROVE  /\ phase' \in [Runs -> {"idle", "prepare", "plan", "train", "finished",
                                 "refused", "stopped"}]
         /\ item' \in [Runs -> 1 .. End]
         /\ part' \in [Runs -> {"latent", "cond"}]
         /\ step' \in [Runs -> {"read", "write", "fill", "publish"}]
         /\ Placed'
<1>1. CASE Refuse(r)
  BY <1>1 DEF Refuse, TypeOK, Placed
<1>2. CASE part[r] = "latent" /\ step[r] \in {"read", "publish"} /\ item[r] # End
            /\ ToConditioning(r)
  BY <1>2 DEF ToConditioning, TypeOK, Placed
<1>3. CASE item[r] # End /\ ToNextEntry(r)
  <2>1. After(r) \in 1 .. End
    BY <1>3, AfterIsEntry
  <2>2. phase' = phase /\ item' = [item EXCEPT ![r] = After(r)]
        /\ step' = [step EXCEPT ![r] = "read"]
        /\ part' = [part EXCEPT ![r] = IF After(r) \in Images THEN "latent" ELSE "cond"]
    BY <1>3 DEF ToNextEntry
  <2>3. After(r) = EmptyEntry => Dropout[r]
    BY <1>3, CountsAssumption DEF After, EmptyEntry, End, TypeOK
  <2>4. Placed'
    BY <2>2, <2>3 DEF TypeOK, Placed
  <2>5. QED
    BY <2>1, <2>2, <2>4 DEF TypeOK
<1>4. QED
  BY <1>1, <1>2, <1>3

-----------------------------------------------------------------------------
(* Type correctness *)

LEMMA InitType == Init => TypeOK /\ Placed
<1>1. SUFFICES ASSUME Init PROVE TypeOK /\ Placed
  OBVIOUS
<1>2. 1 \in 1 .. End
  BY CountsAssumption DEF End
<1>3. TypeOK
  BY <1>1, <1>2, FilesAreFiles, CountsAssumption DEF Init, TypeOK
<1>4. Placed
  BY <1>1, EntryBounds DEF Init, Placed
<1>5. QED
  BY <1>3, <1>4

LEMMA RecordType ==
  ASSUME TypeOK, NEW r \in Runs, NEW n \in Nat, Record(r, n)
  PROVE  recorded' \in [Runs -> [1 .. EmptyEntry -> Nat]]
BY DEF TypeOK, Record

LEMMA RenameType ==
  ASSUME TypeOK, Placed, NEW r \in Runs, item[r] # End, Rename(r)
  PROVE  /\ cache' \in [Paths -> Files]
         /\ staged' \in [Paths \X Pids -> Files]
         /\ holds' \in [Runs -> {"nothing", "staged", "published", "unlinked"}]
<1>1. StagedPath(r, Target(r)) \in Paths \X Pids
  BY TargetIsPath, StagedPathIsName
<1>2. staged[StagedPath(r, Target(r))] \in Files
  BY <1>1 DEF TypeOK
<1>3. cache' \in [Paths -> Files] /\ staged' \in [Paths \X Pids -> Files]
  BY <1>2, FilesAreFiles DEF Rename, TypeOK
<1>4. \A s \in Runs : HoldsAfterRename(r, s) \in {"nothing", "staged", "published", "unlinked"}
  BY DEF HoldsAfterRename, TypeOK
<1>5. QED
  BY <1>3, <1>4 DEF Rename

LEMMA NextType == TypeOK /\ Placed /\ [Next]_vars => TypeOK' /\ Placed'
<1>1. SUFFICES ASSUME TypeOK, Placed, [Next]_vars PROVE TypeOK' /\ Placed'
  OBVIOUS
<1>2. CASE UNCHANGED vars
  BY <1>1, <1>2 DEF vars, runState, TypeOK, Placed
<1>3. CASE Purge
  <2>1. holds' \in [Runs -> {"nothing", "staged", "published", "unlinked"}]
    BY <1>3 DEF Purge
  <2>2. purges' \in 0 .. MaxPurges
    BY <1>1, <1>3, CountsAssumption DEF Purge, TypeOK
  <2>3. QED
    BY <1>1, <1>3, <2>1, <2>2, FilesAreFiles DEF Purge, runState, TypeOK, Placed
<1>4. ASSUME NEW r \in Runs, Start(r) PROVE TypeOK' /\ Placed'
  BY <1>1, <1>4 DEF Start, TypeOK, Placed
<1>5. ASSUME NEW r \in Runs, NEW i \in Images, PrePass(r, i) PROVE TypeOK' /\ Placed'
  <2>1. SourceOf(cache[LatentPath(i)]) \in {"unread", "cached", "decoded", "error"}
    <3>1. cache[LatentPath(i)] \in Files
      BY <1>1, PathsOfEntries DEF TypeOK
    <3>2. QED
      BY <3>1 DEF SourceOf, Files
  <2>2. source' \in [Runs -> [Images -> {"unread", "cached", "decoded", "error"}]]
    BY <1>1, <1>5, <2>1 DEF PrePass, TypeOK
  <2>3. QED
    BY <1>1, <1>5, <2>2 DEF PrePass, runState, TypeOK, Placed
<1>6. ASSUME NEW r \in Runs, TakeLatent(r) PROVE TypeOK' /\ Placed'
  <2>1. item[r] # End
    BY <1>6, EntryBounds DEF TakeLatent
  <2>2. CASE Refuse(r) \/ ToConditioning(r)
    BY <1>1, <1>6, <2>1, <2>2, MovesKeepTypes DEF TakeLatent, At, TypeOK
  <2>3. CASE /\ step' = [step EXCEPT ![r] = "write"]
             /\ UNCHANGED <<phase, item, part>>
    BY <1>1, <1>6, <2>1, <2>3 DEF TakeLatent, At, TypeOK, Placed
  <2>4. QED
    BY <1>6, <2>2, <2>3 DEF TakeLatent
<1>7. ASSUME NEW r \in Runs, ReadConditioning(r) PROVE TypeOK' /\ Placed'
  <2>1. item[r] # End /\ cache[Target(r)] \in Files
    BY <1>1, <1>7, TargetIsPath DEF ReadConditioning, TypeOK
  <2>2. CASE Record(r, cache[Target(r)].length) /\ ToNextEntry(r)
    <3>1. cache[Target(r)].length \in Nat
      BY <2>1 DEF Files
    <3>2. QED
      BY <1>1, <1>7, <2>1, <2>2, <3>1, RecordType, MovesKeepTypes
         DEF ReadConditioning, At, TypeOK
  <2>3. CASE Refuse(r) /\ UNCHANGED recorded
    BY <1>1, <1>7, <2>3, MovesKeepTypes DEF ReadConditioning, At, TypeOK
  <2>4. CASE /\ step' = [step EXCEPT ![r] = "write"]
             /\ UNCHANGED <<phase, item, part, recorded>>
    BY <1>1, <1>7, <2>1, <2>4 DEF ReadConditioning, At, TypeOK, Placed
  <2>5. QED
    BY <1>7, <2>2, <2>3, <2>4 DEF ReadConditioning
<1>8. ASSUME NEW r \in Runs, OpenStaged(r) PROVE TypeOK' /\ Placed'
  BY <1>1, <1>8, FilesAreFiles DEF OpenStaged, TypeOK, Placed
<1>9. ASSUME NEW r \in Runs, Fill(r) PROVE TypeOK' /\ Placed'
  <2>1. FileAfterFill(r) \in Files
    BY FilesAreFiles, RunsAssumption DEF FileAfterFill
  <2>2. QED
    BY <1>1, <1>9, <2>1 DEF Fill, TypeOK, Placed
<1>10. ASSUME NEW r \in Runs, Publish(r) PROVE TypeOK' /\ Placed'
  <2>1. item[r] # End
    BY <1>1, <1>10 DEF Publish, Placed
  <2>2. CASE Rename(r) /\ part[r] = "latent" /\ ToConditioning(r) /\ UNCHANGED recorded
    BY <1>1, <1>10, <2>1, <2>2, RenameType, MovesKeepTypes DEF Publish, TypeOK
  <2>3. CASE Rename(r) /\ part[r] = "cond" /\ ToNextEntry(r) /\ Record(r, Length[r])
    <3>1. Length[r] \in Nat
      BY RunsAssumption
    <3>2. QED
      BY <1>1, <1>10, <2>1, <2>3, <3>1, RenameType, RecordType, MovesKeepTypes
         DEF Publish, TypeOK
  <2>4. CASE Refuse(r) /\ UNCHANGED <<cache, staged, holds, recorded>>
    BY <1>1, <1>10, <2>4, MovesKeepTypes DEF Publish, TypeOK
  <2>5. QED
    BY <1>10, <2>2, <2>3, <2>4 DEF Publish
<1>11. ASSUME NEW r \in Runs, PlanFile(r) PROVE TypeOK' /\ Placed'
  <2>1. item[r] # End /\ cache[Target(r)] \in Files
    BY <1>1, <1>11, TargetIsPath DEF PlanFile, TypeOK
  <2>2. CASE part[r] = "latent" /\ ToConditioning(r) /\ UNCHANGED recorded
    BY <1>1, <1>11, <2>1, <2>2 DEF PlanFile, ToConditioning, TypeOK, Placed
  <2>3. CASE ToNextEntry(r) /\ Record(r, cache[Target(r)].length)
    <3>1. cache[Target(r)].length \in Nat
      BY <2>1 DEF Files
    <3>2. QED
      BY <1>1, <1>11, <2>1, <2>3, <3>1, RecordType, MovesKeepTypes DEF PlanFile, TypeOK
  <2>4. CASE Refuse(r) /\ UNCHANGED recorded
    BY <1>1, <1>11, <2>4, MovesKeepTypes DEF PlanFile, TypeOK
  <2>5. QED
    BY <1>11, <2>2, <2>3, <2>4 DEF PlanFile
<1>12. ASSUME NEW r \in Runs, EndOfPass(r) PROVE TypeOK' /\ Placed'
  <2>1. CASE Refuse(r)
    BY <1>1, <1>12, <2>1, MovesKeepTypes DEF EndOfPass, TypeOK
  <2>2. CASE /\ phase' = [phase EXCEPT ![r] = IF @ = "prepare" THEN "plan" ELSE "train"]
             /\ item' = [item EXCEPT ![r] = 1]
             /\ part' = [part EXCEPT ![r] = "latent"]
             /\ UNCHANGED step
    <3>1. 1 \in 1 .. End /\ 1 \in Images /\ step[r] = "read"
      BY <1>1, <1>12, EntryBounds, CountsAssumption DEF EndOfPass, Placed, End
    <3>2. TypeOK'
      BY <1>1, <1>12, <2>2, <3>1 DEF EndOfPass, TypeOK
    <3>3. Placed'
      BY <1>1, <2>2, <3>1, EntryBounds DEF TypeOK, Placed
    <3>4. QED
      BY <3>2, <3>3
  <2>3. QED
    BY <1>12, <2>1, <2>2 DEF EndOfPass
<1>13. ASSUME NEW r \in Runs, NEW i \in Images, LoadLatent(r, i) PROVE TypeOK' /\ Placed'
  <2>1. CASE UNCHANGED runState
    BY <1>1, <1>13, <2>1 DEF LoadLatent, runState, TypeOK, Placed
  <2>2. CASE Refuse(r)
    BY <1>1, <1>13, <2>2, MovesKeepTypes DEF LoadLatent, TypeOK
  <2>3. QED
    BY <1>13, <2>1, <2>2 DEF LoadLatent
<1>14. ASSUME NEW r \in Runs, NEW i \in 1 .. EmptyEntry, LoadConditioning(r, i)
       PROVE  TypeOK' /\ Placed'
  <2>1. cache[CondPath(i)].length \in Nat
    BY <1>1, PathsOfEntries DEF TypeOK, Files
  <2>2. CASE UNCHANGED consumed /\ Refuse(r)
    BY <1>1, <1>14, <2>2 DEF LoadConditioning, Refuse, TypeOK, Placed
  <2>3. CASE /\ consumed' = [consumed EXCEPT ![r] = @ \cup {cache[CondPath(i)].length}]
             /\ UNCHANGED runState
    <3>1. consumed' \in [Runs -> SUBSET Nat]
      BY <1>1, <2>1, <2>3 DEF TypeOK
    <3>2. QED
      BY <1>1, <1>14, <2>3, <3>1 DEF LoadConditioning, runState, TypeOK, Placed
  <2>4. QED
    BY <1>14, <2>2, <2>3 DEF LoadConditioning
<1>15. ASSUME NEW r \in Runs, LastStep(r) PROVE TypeOK' /\ Placed'
  BY <1>1, <1>15 DEF LastStep, TypeOK, Placed
<1>16. ASSUME NEW r \in Runs, Stop(r) PROVE TypeOK' /\ Placed'
  BY <1>1, <1>16 DEF Stop, TypeOK, Placed
<1>17. QED
  BY <1>1, <1>2, <1>3, <1>4, <1>5, <1>6, <1>7, <1>8, <1>9, <1>10, <1>11, <1>12,
     <1>13, <1>14, <1>15, <1>16 DEF Next, Works, Trains

(* Every variable keeps its type, and every run stands where it can name the
   file it is at. *)
THEOREM TypeCorrect == Spec => [](TypeOK /\ Placed)
BY InitType, NextType, PTL DEF Spec

-----------------------------------------------------------------------------
(* TrainsOnItsOwnLength.  A run enters training only with a plan that passed
   both checks, the plan does not change afterwards, and each load compares
   the file with it. *)

LoadsFit == TrainingIsChecked /\ TrainsOnItsOwnLength

LEMMA InitLoads == Init => LoadsFit
BY DEF Init, LoadsFit, TrainingIsChecked, TrainsOnItsOwnLength

(* A checked plan has this run's length everywhere a batch can look. *)
LEMMA CheckedPlan ==
  ASSUME TypeOK, LoadsFit, NEW r \in Runs, phase[r] = "train",
         NEW i \in 1 .. EmptyEntry, i = EmptyEntry => Dropout[r]
  PROVE  recorded[r][i] = Length[r]
<1>1. EmptyMatches(r) /\ LengthsFit(r)
  BY DEF LoadsFit, TrainingIsChecked
<1>2. CASE i \in Images
  BY <1>1, <1>2 DEF LengthsFit
<1>3. CASE i = EmptyEntry
  BY <1>1, <1>3, EntryBounds DEF EmptyMatches, LengthsFit
<1>4. QED
  BY <1>2, <1>3, EntryBounds

(* A run in training whose plan is left alone keeps a checked plan. *)
LEMMA PlanKept ==
  ASSUME LoadsFit, UNCHANGED consumed,
         \A r \in Runs : phase'[r] = "train" =>
           /\ phase[r] = "train"
           /\ recorded'[r] = recorded[r]
  PROVE  LoadsFit'
BY DEF LoadsFit, TrainingIsChecked, TrainsOnItsOwnLength, EmptyMatches, LengthsFit

LEMMA NextLoads == TypeOK /\ Placed /\ LoadsFit /\ [Next]_vars => LoadsFit'
<1>1. SUFFICES ASSUME TypeOK, Placed, LoadsFit, [Next]_vars PROVE LoadsFit'
  OBVIOUS
<1>2. CASE UNCHANGED vars
  BY <1>1, <1>2, PlanKept DEF vars, runState
<1>3. CASE Purge
  BY <1>1, <1>3, PlanKept DEF Purge, runState
<1>4. ASSUME NEW r \in Runs, Start(r) PROVE LoadsFit'
  BY <1>1, <1>4, PlanKept DEF Start, TypeOK
<1>5. ASSUME NEW r \in Runs, NEW i \in Images, PrePass(r, i) PROVE LoadsFit'
  BY <1>1, <1>5, PlanKept DEF PrePass, runState
<1>6. ASSUME NEW r \in Runs, TakeLatent(r) PROVE LoadsFit'
  BY <1>1, <1>6, PlanKept DEF TakeLatent, ToConditioning, Refuse, TypeOK
<1>7. ASSUME NEW r \in Runs, ReadConditioning(r) PROVE LoadsFit'
  BY <1>1, <1>7, PlanKept
     DEF ReadConditioning, Record, ToNextEntry, Refuse, At, TypeOK
<1>8. ASSUME NEW r \in Runs, OpenStaged(r) PROVE LoadsFit'
  BY <1>1, <1>8, PlanKept DEF OpenStaged
<1>9. ASSUME NEW r \in Runs, Fill(r) PROVE LoadsFit'
  BY <1>1, <1>9, PlanKept DEF Fill
<1>10. ASSUME NEW r \in Runs, Publish(r) PROVE LoadsFit'
  BY <1>1, <1>10, PlanKept
     DEF Publish, Record, ToNextEntry, ToConditioning, Refuse, TypeOK
<1>11. ASSUME NEW r \in Runs, PlanFile(r) PROVE LoadsFit'
  BY <1>1, <1>11, PlanKept
     DEF PlanFile, Record, ToNextEntry, ToConditioning, Refuse, TypeOK
<1>12. ASSUME NEW r \in Runs, EndOfPass(r) PROVE LoadsFit'
  <2>1. CASE Refuse(r)
    BY <1>1, <1>12, <2>1, PlanKept DEF EndOfPass, Refuse, TypeOK
  <2>2. CASE /\ EmptyMatches(r) /\ LengthsFit(r)
             /\ phase' = [phase EXCEPT ![r] = IF @ = "prepare" THEN "plan" ELSE "train"]
    BY <1>1, <1>12, <2>2
       DEF EndOfPass, LoadsFit, TrainingIsChecked, TrainsOnItsOwnLength,
           EmptyMatches, LengthsFit, TypeOK
  <2>3. QED
    BY <1>12, <2>1, <2>2 DEF EndOfPass
<1>13. ASSUME NEW r \in Runs, NEW i \in Images, LoadLatent(r, i) PROVE LoadsFit'
  BY <1>1, <1>13, PlanKept DEF LoadLatent, Refuse, runState, TypeOK
<1>14. ASSUME NEW r \in Runs, NEW i \in 1 .. EmptyEntry, LoadConditioning(r, i)
       PROVE  LoadsFit'
  <2>1. CASE Refuse(r) /\ UNCHANGED consumed
    BY <1>1, <1>14, <2>1, PlanKept DEF LoadConditioning, Refuse, TypeOK
  <2>2. CASE /\ AsPlanned(r, i, cache[CondPath(i)])
             /\ consumed' = [consumed EXCEPT ![r] = @ \cup {cache[CondPath(i)].length}]
             /\ UNCHANGED runState
    <3>1. cache[CondPath(i)].length = Length[r]
      BY <1>1, <1>14, <2>2, CheckedPlan DEF LoadConditioning, AsPlanned
    <3>2. TrainsOnItsOwnLength'
      BY <1>1, <2>2, <3>1 DEF LoadsFit, TrainsOnItsOwnLength, TypeOK
    <3>3. TrainingIsChecked'
      BY <1>1, <1>14, <2>2
         DEF LoadConditioning, LoadsFit, TrainingIsChecked, EmptyMatches, LengthsFit,
             runState
    <3>4. QED
      BY <3>2, <3>3 DEF LoadsFit
  <2>3. QED
    BY <1>14, <2>1, <2>2 DEF LoadConditioning
<1>15. ASSUME NEW r \in Runs, LastStep(r) PROVE LoadsFit'
  BY <1>1, <1>15, PlanKept DEF LastStep, TypeOK
<1>16. ASSUME NEW r \in Runs, Stop(r) PROVE LoadsFit'
  BY <1>1, <1>16, PlanKept DEF Stop, TypeOK
<1>17. QED
  BY <1>1, <1>2, <1>3, <1>4, <1>5, <1>6, <1>7, <1>8, <1>9, <1>10, <1>11, <1>12,
     <1>13, <1>14, <1>15, <1>16 DEF Next, Works, Trains

(* Whatever other builds, servers and purges do to the files, a batch holds
   only stacks of the length this run's build emits. *)
THEOREM BatchesHaveOneLength == Spec => []TrainsOnItsOwnLength
<1>1. LoadsFit => TrainsOnItsOwnLength
  BY DEF LoadsFit
<1>2. QED
  BY <1>1, InitType, NextType, InitLoads, NextLoads, PTL DEF Spec

-----------------------------------------------------------------------------
(* PublishedIsWhole, for processes that execute one run at a time.  The
   staging name holds the process id, so no other live run opens, fills or
   renames it; a torn file that a dead process left there is truncated and
   filled before it is renamed. *)

ActivePhases == {"prepare", "plan", "train"}

StageInv == PublishedIsWhole /\ ExclusivePids /\ HeldIsStaged /\ ReadyIsNotTorn

LEMMA InitStage == Init => StageInv
<1>1. SUFFICES ASSUME Init PROVE StageInv
  OBVIOUS
<1>2. PublishedIsWhole
  BY <1>1, FilesAreFiles DEF Init, PublishedIsWhole
<1>3. QED
  BY <1>1, <1>2
     DEF Init, StageInv, ExclusivePids, Active, HeldIsStaged, ReadyIsNotTorn

(* A step that leaves the files alone, starts no run and moves no run that is
   writing. *)
LEMMA StageKept ==
  ASSUME StageInv, UNCHANGED <<cache, staged, holds>>,
         \A s \in Runs :
           /\ phase'[s] \in ActivePhases => phase[s] \in ActivePhases
           /\ phase'[s] = "prepare" /\ step'[s] \in {"fill", "publish"} =>
                /\ phase[s] = "prepare" /\ step[s] = step'[s]
                /\ item'[s] = item[s] /\ part'[s] = part[s]
           /\ holds[s] = "staged" => phase'[s] = "prepare" /\ step'[s] = "fill"
  PROVE  StageInv'
<1>1. PublishedIsWhole'
  BY DEF StageInv, PublishedIsWhole
<1>2. ExclusivePids'
  BY DEF StageInv, ExclusivePids, Active, ActivePhases
<1>3. HeldIsStaged'
  BY DEF StageInv, HeldIsStaged
<1>4. ReadyIsNotTorn'
  BY DEF StageInv, ReadyIsNotTorn, StagedPath, Target
<1>5. QED
  BY <1>1, <1>2, <1>3, <1>4 DEF StageInv

(* A run other than r that is at its staging file is at another one. *)
LEMMA OthersElsewhere ==
  ASSUME StageInv, NEW r \in Runs, NEW s \in Runs, r # s,
         phase[r] = "prepare", phase[s] = "prepare"
  PROVE  StagedPath(s, Target(s)) # StagedPath(r, Target(r))
<1>1. Pid[r] # Pid[s]
  BY DEF StageInv, ExclusivePids, Active
<1>2. QED
  BY <1>1, OtherStagedPath

(* A file a run has open under its staging name is its alone. *)
LEMMA FilledAlone ==
  ASSUME StageInv, NEW r \in Runs, phase[r] = "prepare", holds[r] = "staged"
  PROVE  FileAfterFill(r) = Whole(Length[r])
<1>1. ASSUME NEW s \in Runs \ {r}, SameFile(r, s) PROVE FALSE
  <2>1. holds[s] = "staged" /\ StagedPath(s, Target(s)) = StagedPath(r, Target(r))
    BY <1>1 DEF SameFile
  <2>2. phase[s] = "prepare"
    BY <1>1, <2>1 DEF StageInv, HeldIsStaged
  <2>3. QED
    BY <1>1, <2>1, <2>2, OthersElsewhere
<1>2. QED
  BY <1>1 DEF FileAfterFill

LEMMA OpenStage ==
  ASSUME TypeOK, Placed, StageInv, NEW r \in Runs, OpenStaged(r)
  PROVE  StageInv'
<1>1. phase[r] = "prepare" /\ step[r] = "write" /\ UNCHANGED <<cache, phase, item, part>>
  BY DEF OpenStaged
<1>2. staged' = [staged EXCEPT ![StagedPath(r, Target(r))] = Torn]
      /\ holds' = [holds EXCEPT ![r] = "staged"] /\ step' = [step EXCEPT ![r] = "fill"]
  BY DEF OpenStaged
<1>3. PublishedIsWhole' /\ ExclusivePids'
  BY <1>1 DEF StageInv, PublishedIsWhole, ExclusivePids, Active
<1>4. HeldIsStaged'
  BY <1>1, <1>2 DEF StageInv, HeldIsStaged, TypeOK
<1>5. ReadyIsNotTorn'
  <2>1. SUFFICES ASSUME NEW s \in Runs, phase'[s] = "prepare",
                        step'[s] = "publish" \/ (step'[s] = "fill" /\ holds'[s] # "staged")
                 PROVE  staged'[StagedPath(s, Target(s))].state # "torn"
    BY <1>1 DEF ReadyIsNotTorn, StagedPath, Target
  <2>2. s # r
    BY <1>2, <2>1 DEF TypeOK
  <2>3. StagedPath(s, Target(s)) # StagedPath(r, Target(r))
    BY <1>1, <2>1, <2>2, OthersElsewhere
  <2>4. staged[StagedPath(s, Target(s))].state # "torn"
    BY <1>1, <1>2, <2>1, <2>2 DEF StageInv, ReadyIsNotTorn, TypeOK
  <2>5. staged'[StagedPath(s, Target(s))] = staged[StagedPath(s, Target(s))]
    <3>1. step[s] # "read"
      BY <1>2, <2>1, <2>2 DEF TypeOK
    <3>2. StagedPath(s, Target(s)) \in Paths \X Pids
      BY <3>1, TargetIsPath, StagedPathIsName DEF Placed
    <3>3. QED
      BY <1>2, <2>3, <3>2 DEF TypeOK
  <2>6. QED
    BY <2>4, <2>5
<1>6. QED
  BY <1>3, <1>4, <1>5 DEF StageInv

LEMMA FillStage ==
  ASSUME TypeOK, Placed, StageInv, NEW r \in Runs, Fill(r)
  PROVE  StageInv'
<1>1. phase[r] = "prepare" /\ step[r] = "fill" /\ UNCHANGED <<phase, item, part>>
  BY DEF Fill
<1>2. holds' = [holds EXCEPT ![r] = "nothing"] /\ step' = [step EXCEPT ![r] = "publish"]
  BY DEF Fill
<1>3. cache' = cache
  BY DEF Fill, StageInv, HeldIsStaged
<1>4. PublishedIsWhole' /\ ExclusivePids'
  BY <1>1, <1>3 DEF StageInv, PublishedIsWhole, ExclusivePids, Active
<1>5. HeldIsStaged'
  BY <1>1, <1>2 DEF StageInv, HeldIsStaged, TypeOK
<1>6. StagedPath(r, Target(r)) \in Paths \X Pids
  BY <1>1, TargetIsPath, StagedPathIsName DEF Placed
<1>7. staged'[StagedPath(r, Target(r))].state # "torn"
  <2>1. CASE holds[r] = "staged"
    <3>1. staged' = [staged EXCEPT ![StagedPath(r, Target(r))] = Whole(Length[r])]
      BY <1>1, <2>1, FilledAlone DEF Fill
    <3>2. QED
      BY <1>6, <3>1, FilesAreFiles, RunsAssumption DEF TypeOK
  <2>2. CASE holds[r] # "staged"
    BY <1>1, <2>2 DEF Fill, StageInv, ReadyIsNotTorn
  <2>3. QED
    BY <2>1, <2>2
<1>8. ReadyIsNotTorn'
  <2>1. SUFFICES ASSUME NEW s \in Runs, s # r, phase[s] = "prepare",
                        step[s] = "publish" \/ (step[s] = "fill" /\ holds[s] # "staged")
                 PROVE  staged'[StagedPath(s, Target(s))].state # "torn"
    BY <1>1, <1>2, <1>7, ZenonT(60) DEF ReadyIsNotTorn, StagedPath, Target, TypeOK
  <2>2. StagedPath(s, Target(s)) # StagedPath(r, Target(r))
    BY <1>1, <2>1, OthersElsewhere
  <2>3. staged[StagedPath(s, Target(s))].state # "torn"
    BY <2>1 DEF StageInv, ReadyIsNotTorn
  <2>4. StagedPath(s, Target(s)) \in Paths \X Pids
    BY <2>1, TargetIsPath, StagedPathIsName DEF Placed
  <2>5. QED
    BY <2>2, <2>3, <2>4 DEF Fill, TypeOK
<1>9. QED
  BY <1>4, <1>5, <1>8 DEF StageInv

(* A rename moves no other run's open file. *)
LEMMA RenameMovesNobody ==
  ASSUME TypeOK, StageInv, NEW r \in Runs, phase[r] = "prepare", step[r] = "publish",
         Rename(r)
  PROVE  \A s \in Runs : holds'[s] = holds[s]
<1>1. TAKE s \in Runs
<1>2. holds'[s] = HoldsAfterRename(r, s)
  BY DEF Rename
<1>3. holds[s] # "published"
  BY DEF StageInv, HeldIsStaged
<1>4. CASE holds[s] # "staged"
  BY <1>2, <1>3, <1>4 DEF HoldsAfterRename
<1>5. CASE holds[s] = "staged"
  <2>1. s # r /\ phase[s] = "prepare"
    BY <1>5 DEF StageInv, HeldIsStaged
  <2>2. StagedPath(s, Target(s)) # StagedPath(r, Target(r))
    BY <2>1, OthersElsewhere
  <2>3. QED
    BY <1>2, <1>5, <2>2 DEF HoldsAfterRename
<1>6. QED
  BY <1>4, <1>5

LEMMA RenameStage ==
  ASSUME TypeOK, Placed, StageInv, NEW r \in Runs, phase[r] = "prepare",
         step[r] = "publish", Rename(r), UNCHANGED phase,
         step' = [step EXCEPT ![r] = "read"],
         \A s \in Runs : s # r => item'[s] = item[s] /\ part'[s] = part[s]
  PROVE  StageInv'
<1>1. item[r] # End
  BY DEF Placed
<1>2. StagedPath(r, Target(r)) \in Paths \X Pids
  BY <1>1, TargetIsPath, StagedPathIsName
<1>3. staged[StagedPath(r, Target(r))].state # "torn"
  BY DEF StageInv, ReadyIsNotTorn
<1>4. PublishedIsWhole'
  BY <1>3 DEF StageInv, PublishedIsWhole, Rename, TypeOK
<1>5. ExclusivePids'
  BY DEF StageInv, ExclusivePids, Active
<1>6. \A s \in Runs : holds'[s] = holds[s]
  BY RenameMovesNobody
<1>7. HeldIsStaged'
  BY <1>6 DEF StageInv, HeldIsStaged, TypeOK
<1>8. ReadyIsNotTorn'
  <2>1. SUFFICES ASSUME NEW s \in Runs, s # r, phase[s] = "prepare",
                        step[s] = "publish" \/ (step[s] = "fill" /\ holds[s] # "staged")
                 PROVE  staged'[StagedPath(s, Target(s))].state # "torn"
    BY <1>6 DEF ReadyIsNotTorn, StagedPath, Target, TypeOK
  <2>2. StagedPath(s, Target(s)) # StagedPath(r, Target(r))
    BY <2>1, OthersElsewhere
  <2>3. staged[StagedPath(s, Target(s))].state # "torn"
    BY <2>1 DEF StageInv, ReadyIsNotTorn
  <2>4. StagedPath(s, Target(s)) \in Paths \X Pids
    BY <2>1, TargetIsPath, StagedPathIsName DEF Placed
  <2>5. QED
    BY <2>2, <2>3, <2>4 DEF Rename, TypeOK
<1>9. QED
  BY <1>4, <1>5, <1>7, <1>8 DEF StageInv

LEMMA StartStage ==
  ASSUME ~SharedProcess, TypeOK, Placed, StageInv, NEW r \in Runs, Start(r)
  PROVE  StageInv'
<1>1. phase' = [phase EXCEPT ![r] = "prepare"] /\ phase[r] = "idle"
      /\ UNCHANGED <<cache, staged, holds, item, part, step>>
  BY DEF Start
<1>2. \A s \in Runs : Active(s) => Pid[s] # Pid[r]
  BY DEF Start
<1>3. ExclusivePids'
  BY <1>1, <1>2 DEF StageInv, ExclusivePids, Active, TypeOK
<1>4. PublishedIsWhole' /\ HeldIsStaged'
  BY <1>1 DEF StageInv, PublishedIsWhole, HeldIsStaged, TypeOK
<1>5. ReadyIsNotTorn'
  <2>1. step[r] = "read"
    BY <1>1 DEF Placed
  <2>2. QED
    BY <1>1, <2>1 DEF StageInv, ReadyIsNotTorn, StagedPath, Target, TypeOK
<1>6. QED
  BY <1>3, <1>4, <1>5 DEF StageInv

LEMMA NextStage ==
  ~SharedProcess /\ TypeOK /\ Placed /\ StageInv /\ [Next]_vars => StageInv'
<1>1. SUFFICES ASSUME ~SharedProcess, TypeOK, Placed, StageInv, [Next]_vars
               PROVE  StageInv'
  OBVIOUS
<1> USE DEF ActivePhases
<1>2. CASE UNCHANGED vars
  BY <1>1, <1>2, StageKept DEF vars, runState, StageInv, HeldIsStaged
<1>3. CASE Purge
  <2>1. PublishedIsWhole'
    BY <1>3, FilesAreFiles DEF Purge, PublishedIsWhole
  <2>2. ExclusivePids'
    BY <1>1, <1>3 DEF Purge, runState, StageInv, ExclusivePids, Active
  <2>3. HeldIsStaged'
    BY <1>1, <1>3 DEF Purge, StageInv, HeldIsStaged
  <2>4. ASSUME NEW r \in Runs, step[r] # "read"
        PROVE  staged'[StagedPath(r, Target(r))].state # "torn"
    <3>1. StagedPath(r, Target(r)) \in Paths \X Pids
      BY <1>1, <2>4, TargetIsPath, StagedPathIsName DEF Placed
    <3>2. QED
      BY <1>3, <3>1, FilesAreFiles DEF Purge
  <2>5. ReadyIsNotTorn'
    BY <1>3, <2>4 DEF Purge, runState, ReadyIsNotTorn, StagedPath, Target
  <2>6. QED
    BY <2>1, <2>2, <2>3, <2>5 DEF StageInv
<1>4. ASSUME NEW r \in Runs, Start(r) PROVE StageInv'
  BY <1>1, <1>4, StartStage
<1>5. ASSUME NEW r \in Runs, NEW i \in Images, PrePass(r, i) PROVE StageInv'
  BY <1>1, <1>5, StageKept DEF PrePass, runState, StageInv, HeldIsStaged
<1>6. ASSUME NEW r \in Runs, TakeLatent(r) PROVE StageInv'
  BY <1>1, <1>6, StageKept
     DEF TakeLatent, At, ToConditioning, Refuse, StageInv, HeldIsStaged, TypeOK
<1>7. ASSUME NEW r \in Runs, ReadConditioning(r) PROVE StageInv'
  BY <1>1, <1>7, StageKept
     DEF ReadConditioning, At, ToNextEntry, Refuse, StageInv, HeldIsStaged, TypeOK
<1>8. ASSUME NEW r \in Runs, OpenStaged(r) PROVE StageInv'
  BY <1>1, <1>8, OpenStage
<1>9. ASSUME NEW r \in Runs, Fill(r) PROVE StageInv'
  BY <1>1, <1>9, FillStage
<1>10. ASSUME NEW r \in Runs, Publish(r) PROVE StageInv'
  <2>1. CASE Rename(r) /\ (ToConditioning(r) \/ ToNextEntry(r))
    BY <1>1, <1>10, <2>1, RenameStage DEF Publish, ToConditioning, ToNextEntry, TypeOK
  <2>2. CASE Refuse(r) /\ UNCHANGED <<cache, staged, holds>>
    BY <1>1, <1>10, <2>2, StageKept DEF Publish, Refuse, StageInv, HeldIsStaged, TypeOK
  <2>3. QED
    BY <1>10, <2>1, <2>2 DEF Publish
<1>11. ASSUME NEW r \in Runs, PlanFile(r) PROVE StageInv'
  BY <1>1, <1>11, StageKept
     DEF PlanFile, ToNextEntry, ToConditioning, Refuse, StageInv, HeldIsStaged, TypeOK
<1>12. ASSUME NEW r \in Runs, EndOfPass(r) PROVE StageInv'
  <2>1. step[r] = "read"
    BY <1>1, <1>12 DEF EndOfPass, Placed
  <2>2. QED
    BY <1>1, <1>12, <2>1, StageKept DEF EndOfPass, Refuse, StageInv, HeldIsStaged, TypeOK
<1>13. ASSUME NEW r \in Runs, NEW i \in Images, LoadLatent(r, i) PROVE StageInv'
  BY <1>1, <1>13, StageKept DEF LoadLatent, Refuse, runState, StageInv, HeldIsStaged, TypeOK
<1>14. ASSUME NEW r \in Runs, NEW i \in 1 .. EmptyEntry, LoadConditioning(r, i)
       PROVE  StageInv'
  BY <1>1, <1>14, StageKept
     DEF LoadConditioning, Refuse, runState, StageInv, HeldIsStaged, TypeOK
<1>15. ASSUME NEW r \in Runs, LastStep(r) PROVE StageInv'
  BY <1>1, <1>15, StageKept DEF LastStep, StageInv, HeldIsStaged, TypeOK
<1>16. ASSUME NEW r \in Runs, Stop(r) PROVE StageInv'
  <2>1. phase' = [phase EXCEPT ![r] = "stopped"] /\ holds' = [holds EXCEPT ![r] = "nothing"]
        /\ UNCHANGED <<cache, staged, item, part, step>>
    BY <1>16 DEF Stop
  <2>2. PublishedIsWhole' /\ ExclusivePids' /\ HeldIsStaged'
    BY <1>1, <2>1
       DEF StageInv, PublishedIsWhole, ExclusivePids, Active, HeldIsStaged, TypeOK
  <2>3. ReadyIsNotTorn'
    BY <1>1, <2>1 DEF StageInv, ReadyIsNotTorn, StagedPath, Target, TypeOK
  <2>4. QED
    BY <2>2, <2>3 DEF StageInv
<1>17. QED
  BY <1>1, <1>2, <1>3, <1>4, <1>5, <1>6, <1>7, <1>8, <1>9, <1>10, <1>11, <1>12,
     <1>13, <1>14, <1>15, <1>16 DEF Next, Works, Trains

(* With one training run per process at a time, a name that runs look for is
   absent or holds a complete file: over kills in the middle of a write,
   process ids used again, and purges. *)
THEOREM PublicationIsAtomic == ~SharedProcess /\ Spec => []PublishedIsWhole
<1>1. StageInv => PublishedIsWhole
  BY DEF StageInv
<1>2. CASE ~SharedProcess
  <2>1. TypeOK /\ Placed /\ StageInv /\ [Next]_vars => (TypeOK /\ Placed /\ StageInv)'
    BY <1>2, NextType, NextStage
  <2>2. QED
    BY <1>1, <2>1, InitType, InitStage, PTL DEF Spec
<1>3. CASE SharedProcess
  BY <1>3
<1>4. QED
  BY <1>2, <1>3

-----------------------------------------------------------------------------
(* Facts that hold at every calm state *)

(* The state every action below starts from. *)
Calm ==
  /\ TypeOK /\ Placed /\ StageInv
  /\ OneLength
  /\ \A r \in Runs : CalmRun(r)

LEMMA PresentIsWhole ==
  ASSUME Calm, NEW p \in Paths, Present(p)
  PROVE  cache[p].state = "whole"
BY DEF Calm, Present, TypeOK, Files, StageInv, PublishedIsWhole

LEMMA PresentHasLength ==
  ASSUME Calm, NEW r \in Runs, NEW p \in Paths, Present(p)
  PROVE  cache[p].length = Length[r]
BY DEF Calm, OneLength

(* What the next position of a run adds to the entries it has passed. *)
LEMMA PassedByMove ==
  ASSUME TypeOK, NEW r \in Runs, item[r] # End, NEW i \in 1 .. EmptyEntry,
         Uses(r, i), i < After(r)
  PROVE  i < item[r] \/ i = item[r]
<1>1. item[r] \in 1 .. EmptyEntry
  BY EntryBounds DEF TypeOK
<1>2. CASE item[r] = Entries /\ ~Dropout[r]
  BY <1>1, <1>2, CountsAssumption DEF Uses, Images, EmptyEntry
<1>3. CASE ~(item[r] = Entries /\ ~Dropout[r])
  <2>1. After(r) = item[r] + 1
    BY <1>3 DEF After
  <2>2. QED
    BY <1>1, <2>1, CountsAssumption DEF EmptyEntry
<1>4. QED
  BY <1>2, <1>3

LEMMA BeforeEnd == \A i \in 1 .. EmptyEntry : i < End
BY CountsAssumption DEF EmptyEntry, End

LEMMA NoneBeforeFirst == \A i \in 1 .. EmptyEntry : ~(i < 1)
BY CountsAssumption DEF EmptyEntry

-----------------------------------------------------------------------------
(* Runs that do not take the step *)

CacheGrows == \A p \in Paths : Present(p) => Present(p)'

RunKept(s) ==
  /\ phase'[s] = phase[s] /\ item'[s] = item[s] /\ part'[s] = part[s]
  /\ step'[s] = step[s] /\ source'[s] = source[s] /\ recorded'[s] = recorded[s]

LEMMA KeptRunIsCalm ==
  ASSUME NEW s \in Runs, CalmRun(s), CacheGrows, RunKept(s),
         StagedIsOwn(s)'
  PROVE  CalmRun(s)'
<1>1. PassedIsPresent(s)'
  BY PathsOfEntries DEF CalmRun, PassedIsPresent, CacheGrows, RunKept, Uses
<1>2. LatentFirst(s)'
  BY PathsOfEntries DEF CalmRun, LatentFirst, CacheGrows, RunKept
<1>3. SourcesAreRight(s)'
  BY PathsOfEntries DEF CalmRun, SourcesAreRight, CacheGrows, RunKept
<1>4. PassedIsRecorded(s)'
  BY DEF CalmRun, PassedIsRecorded, RunKept, Uses
<1>5. QED
  BY <1>1, <1>2, <1>3, <1>4 DEF CalmRun, RunKept

(* A step that touches no file keeps what other runs have staged. *)
LEMMA KeptStaged ==
  ASSUME NEW s \in Runs, CalmRun(s), RunKept(s), UNCHANGED <<staged, holds>>
  PROVE  StagedIsOwn(s)'
BY DEF CalmRun, StagedIsOwn, RunKept, StagedPath, Target

(* A step that touches no file keeps every run but the one that takes it. *)
LEMMA QuietStep ==
  ASSUME Calm, NEW r \in Runs, UNCHANGED <<cache, staged, holds>>,
         \A s \in Runs \ {r} : RunKept(s),
         CalmRun(r)'
  PROVE  OneLength' /\ \A s \in Runs : CalmRun(s)'
<1>1. OneLength'
  BY DEF Calm, OneLength, Present
<1>2. CacheGrows
  BY DEF CacheGrows, Present
<1>3. ASSUME NEW s \in Runs, s # r PROVE CalmRun(s)'
  <2>1. CalmRun(s) /\ RunKept(s)
    BY <1>3 DEF Calm
  <2>2. StagedIsOwn(s)'
    BY <2>1, KeptStaged
  <2>3. QED
    BY <1>2, <2>1, <2>2, KeptRunIsCalm
<1>4. QED
  BY <1>1, <1>3

(* A step that changes only what stands under run r's staging name. *)
LEMMA OthersStaged ==
  ASSUME Calm, NEW r \in Runs, phase[r] = "prepare",
         NEW s \in Runs, s # r, RunKept(s), holds'[s] = holds[s],
         \A n \in Paths \X Pids :
           n # StagedPath(r, Target(r)) => staged'[n] = staged[n]
  PROVE  StagedIsOwn(s)'
<1>1. SUFFICES ASSUME phase[s] = "prepare"
               PROVE  /\ step[s] = "fill" => holds[s] = "staged"
                      /\ step[s] = "publish"
                           => staged'[StagedPath(s, Target(s))] = Whole(Length[s])
  BY DEF StagedIsOwn, RunKept, StagedPath, Target
<1>2. StagedIsOwn(s)
  BY DEF Calm, CalmRun
<1>3. CASE step[s] = "publish"
  <2>1. StagedPath(s, Target(s)) # StagedPath(r, Target(r))
    BY <1>1, OthersElsewhere DEF Calm
  <2>2. StagedPath(s, Target(s)) \in Paths \X Pids
    BY <1>3, TargetIsPath, StagedPathIsName DEF Calm, Placed
  <2>3. QED
    BY <1>1, <1>2, <1>3, <2>1, <2>2 DEF StagedIsOwn
<1>4. CASE step[s] # "publish"
  BY <1>1, <1>2, <1>4 DEF StagedIsOwn
<1>5. QED
  BY <1>3, <1>4

-----------------------------------------------------------------------------
(* Steps that touch no file *)

LEMMA StartCalm ==
  ASSUME Calm, NEW r \in Runs, Start(r)
  PROVE  OneLength' /\ \A s \in Runs : CalmRun(s)'
<1>1. phase[r] = "idle" /\ phase' = [phase EXCEPT ![r] = "prepare"]
      /\ UNCHANGED <<cache, staged, holds, item, part, step, source, recorded>>
  BY DEF Start
<1>2. item[r] = 1 /\ part[r] = "latent" /\ step[r] = "read"
  BY <1>1 DEF Calm, Placed
<1>3. CalmRun(r) /\ phase'[r] = "prepare"
  BY <1>1 DEF Calm, TypeOK
<1>4. PassedIsPresent(r)' /\ PassedIsRecorded(r)'
  BY <1>1, <1>2, <1>3, NoneBeforeFirst DEF PassedIsPresent, PassedIsRecorded
<1>5. LatentFirst(r)' /\ SourcesAreRight(r)' /\ StagedIsOwn(r)'
  BY <1>1, <1>2, <1>3
     DEF CalmRun, LatentFirst, SourcesAreRight, StagedIsOwn, Present
<1>6. \A s \in Runs \ {r} : RunKept(s)
  BY <1>1 DEF RunKept, Calm, TypeOK
<1>7. QED
  BY <1>1, <1>3, <1>4, <1>5, <1>6, QuietStep DEF CalmRun

LEMMA PrePassCalm ==
  ASSUME Calm, NEW r \in Runs, NEW j \in Images, PrePass(r, j)
  PROVE  OneLength' /\ \A s \in Runs : CalmRun(s)'
<1>1. source' = [source EXCEPT ![r][j] = SourceOf(cache[LatentPath(j)])]
      /\ UNCHANGED <<cache, staged, holds, phase, item, part, step, recorded>>
  BY DEF PrePass, runState
<1>2. CalmRun(r)
  BY DEF Calm
<1>3. LatentPath(j) \in Paths
  BY PathsOfEntries
<1>4. /\ SourceOf(cache[LatentPath(j)]) # "error"
      /\ SourceOf(cache[LatentPath(j)]) = "cached" => Present(LatentPath(j))
  <2>1. CASE Present(LatentPath(j))
    BY <1>3, <2>1, PresentIsWhole DEF SourceOf
  <2>2. CASE ~Present(LatentPath(j))
    BY <2>2 DEF SourceOf, Present
  <2>3. QED
    BY <2>1, <2>2
<1>5. SourcesAreRight(r)'
  BY <1>1, <1>2, <1>4 DEF CalmRun, SourcesAreRight, Present, Calm, TypeOK
<1>6. PassedIsPresent(r)' /\ LatentFirst(r)' /\ PassedIsRecorded(r)' /\ StagedIsOwn(r)'
  BY <1>1, <1>2
     DEF CalmRun, PassedIsPresent, LatentFirst, PassedIsRecorded, StagedIsOwn,
         Present, Uses, StagedPath, Target
<1>7. \A s \in Runs \ {r} : RunKept(s)
  BY <1>1 DEF RunKept, Calm, TypeOK
<1>8. QED
  BY <1>1, <1>2, <1>5, <1>6, <1>7, QuietStep DEF CalmRun

(* A run of the pass moves to the conditioning of its entry. *)
LEMMA ToConditioningCalm ==
  ASSUME Calm, NEW r \in Runs, phase[r] \in {"prepare", "plan"}, ToConditioning(r),
         UNCHANGED <<source, recorded>>, CacheGrows,
         NEW k, k = item[r], k \in Images => Present(LatentPath(k))'
  PROVE  CalmRun(r)'
<1>1. CalmRun(r)
  BY DEF Calm
<1>2. UNCHANGED <<phase, item>> /\ step'[r] = "read"
  BY DEF ToConditioning, Calm, TypeOK
<1>3. PassedIsPresent(r)' /\ SourcesAreRight(r)'
  BY <1>1, <1>2, PathsOfEntries DEF CalmRun, PassedIsPresent, SourcesAreRight, CacheGrows, Uses
<1>4. PassedIsRecorded(r)'
  BY <1>1, <1>2 DEF CalmRun, PassedIsRecorded, Uses
<1>5. LatentFirst(r)' /\ StagedIsOwn(r)'
  BY <1>2 DEF LatentFirst, StagedIsOwn
<1>6. QED
  BY <1>1, <1>2, <1>3, <1>4, <1>5 DEF CalmRun

(* A run of the pass moves past an entry whose conditioning is there. *)
LEMMA ToNextEntryCalm ==
  ASSUME Calm, NEW r \in Runs, phase[r] \in {"prepare", "plan"}, item[r] # End,
         part[r] = "cond", ToNextEntry(r), Record(r, Length[r]),
         UNCHANGED source, CacheGrows,
         NEW k \in 1 .. EmptyEntry, k = item[r], Present(CondPath(k))'
  PROVE  CalmRun(r)'
<1>1. CalmRun(r) /\ item[r] \in 1 .. EmptyEntry
  BY EntryBounds DEF Calm, TypeOK
<1>2. /\ phase' = phase /\ item'[r] = After(r) /\ step'[r] = "read"
      /\ part'[r] = IF After(r) \in Images THEN "latent" ELSE "cond"
      /\ recorded'[r] = [recorded[r] EXCEPT ![item[r]] = Length[r]]
  BY DEF ToNextEntry, Record, Calm, TypeOK
<1>3. \A i \in 1 .. EmptyEntry : Uses(r, i) /\ i < After(r) => i < item[r] \/ i = item[r]
  BY <1>1, PassedByMove DEF Calm
<1>4. PassedIsPresent(r)'
  <2>1. SUFFICES ASSUME NEW i \in 1 .. EmptyEntry, Uses(r, i),
                        (phase[r] = "prepare" /\ i < After(r)) \/ phase[r] = "plan"
                 PROVE  Present(CondPath(i))' /\ (i \in Images => Present(LatentPath(i))')
    BY <1>2 DEF PassedIsPresent, Uses
  <2>2. CASE phase[r] = "plan" \/ (phase[r] = "prepare" /\ i < item[r])
    <3>1. Present(CondPath(i)) /\ (i \in Images => Present(LatentPath(i)))
      BY <1>1, <2>1, <2>2 DEF CalmRun, PassedIsPresent
    <3>2. QED
      BY <2>1, <3>1, PathsOfEntries DEF CacheGrows
  <2>3. CASE phase[r] = "prepare" /\ i = k
    <3>1. i \in Images => Present(LatentPath(i))
      BY <1>1, <2>3 DEF CalmRun, LatentFirst
    <3>2. QED
      BY <2>3, <3>1, PathsOfEntries DEF CacheGrows
  <2>4. QED
    BY <1>3, <2>1, <2>2, <2>3
<1>5. PassedIsRecorded(r)'
  <2>1. SUFFICES ASSUME NEW i \in 1 .. EmptyEntry, Uses(r, i), i < After(r)
                 PROVE  recorded'[r][i] = Length[r]
    BY <1>2 DEF PassedIsRecorded, Uses
  <2>2. recorded[r] \in [1 .. EmptyEntry -> Nat]
    BY DEF Calm, TypeOK
  <2>3. CASE i = item[r]
    BY <1>2, <2>2, <2>3
  <2>4. CASE i # item[r] /\ i < item[r]
    BY <1>1, <1>2, <2>1, <2>2, <2>4 DEF CalmRun, PassedIsRecorded
  <2>5. QED
    BY <1>3, <2>1, <2>3, <2>4
<1>6. LatentFirst(r)' /\ StagedIsOwn(r)'
  BY <1>2 DEF LatentFirst, StagedIsOwn
<1>7. SourcesAreRight(r)'
  BY <1>1, PathsOfEntries DEF CalmRun, SourcesAreRight, CacheGrows
<1>8. QED
  BY <1>1, <1>2, <1>4, <1>5, <1>6, <1>7 DEF CalmRun

(* A run decides to encode what it found missing. *)
LEMMA MissCalm ==
  ASSUME Calm, NEW r \in Runs, step' = [step EXCEPT ![r] = "write"],
         UNCHANGED <<cache, phase, item, part, source, recorded>>
  PROVE  CalmRun(r)'
<1>1. CalmRun(r) /\ step'[r] = "write"
  BY DEF Calm, TypeOK
<1>2. PassedIsPresent(r)' /\ LatentFirst(r)' /\ SourcesAreRight(r)' /\ PassedIsRecorded(r)'
  BY <1>1
     DEF CalmRun, PassedIsPresent, LatentFirst, SourcesAreRight, PassedIsRecorded,
         Present, Uses
<1>3. StagedIsOwn(r)'
  BY <1>1 DEF StagedIsOwn
<1>4. QED
  BY <1>1, <1>2, <1>3 DEF CalmRun

LEMMA TakeLatentCalm ==
  ASSUME Calm, NEW r \in Runs, TakeLatent(r)
  PROVE  OneLength' /\ \A s \in Runs : CalmRun(s)'
<1>1. phase[r] = "prepare" /\ item[r] \in Images
      /\ UNCHANGED <<cache, staged, holds, source, recorded>>
  BY DEF TakeLatent, At
<1>2. source[r][item[r]] # "error"
      /\ (source[r][item[r]] = "cached" => Present(LatentPath(item[r])))
  BY <1>1 DEF Calm, CalmRun, SourcesAreRight
<1>3. CacheGrows
  BY <1>1 DEF CacheGrows, Present
<1>4. CASE source[r][item[r]] = "cached" /\ ToConditioning(r)
  <2>1. Present(LatentPath(item[r]))
    BY <1>2, <1>4
  <2>2. PICK k : k = item[r]
    OBVIOUS
  <2>3. Present(LatentPath(k))'
    BY <1>1, <2>1, <2>2 DEF Present
  <2>4. CalmRun(r)'
    BY <1>1, <1>3, <1>4, <2>2, <2>3, ToConditioningCalm
  <2>5. \A s \in Runs \ {r} : RunKept(s)
    BY <1>1, <1>4 DEF RunKept, ToConditioning, Calm, TypeOK
  <2>6. QED
    BY <1>1, <2>4, <2>5, QuietStep
<1>5. CASE /\ step' = [step EXCEPT ![r] = "write"]
           /\ UNCHANGED <<phase, item, part>>
  <2>1. CalmRun(r)'
    BY <1>1, <1>5, MissCalm
  <2>2. \A s \in Runs \ {r} : RunKept(s)
    BY <1>1, <1>5 DEF RunKept, Calm, TypeOK
  <2>3. QED
    BY <1>1, <2>1, <2>2, QuietStep
<1>6. QED
  BY <1>2, <1>4, <1>5 DEF TakeLatent

(* Reading a file that is there, in either pass. *)
LEMMA HitCalm ==
  ASSUME Calm, NEW r \in Runs, phase[r] \in {"prepare", "plan"}, item[r] # End,
         part[r] = "cond", cache[Target(r)].state = "whole", ToNextEntry(r),
         Record(r, cache[Target(r)].length),
         UNCHANGED <<cache, staged, holds, source>>
  PROVE  OneLength' /\ \A s \in Runs : CalmRun(s)'
<1>1. Target(r) \in Paths /\ Target(r) = CondPath(item[r]) /\ item[r] \in 1 .. EmptyEntry
  BY TargetIsPath, EntryBounds DEF Calm, Target, TypeOK
<1>2. Present(Target(r))
  BY DEF Present
<1>3. cache[Target(r)].length = Length[r]
  BY <1>1, <1>2, PresentHasLength
<1>4. PICK k \in 1 .. EmptyEntry : k = item[r]
  BY <1>1
<1>5. Present(CondPath(k))'
  BY <1>1, <1>2, <1>4 DEF Present
<1>6. CacheGrows
  BY DEF CacheGrows, Present
<1>7. CalmRun(r)'
  BY <1>3, <1>4, <1>5, <1>6, ToNextEntryCalm
<1>8. \A s \in Runs \ {r} : RunKept(s)
  BY DEF RunKept, ToNextEntry, Record, Calm, TypeOK
<1>9. QED
  BY <1>7, <1>8, QuietStep

LEMMA ReadConditioningCalm ==
  ASSUME Calm, NEW r \in Runs, ReadConditioning(r)
  PROVE  OneLength' /\ \A s \in Runs : CalmRun(s)'
<1>1. phase[r] = "prepare" /\ part[r] = "cond" /\ item[r] # End
      /\ UNCHANGED <<cache, staged, holds, source>>
  BY DEF ReadConditioning, At
<1>2. Target(r) \in Paths
  BY <1>1, TargetIsPath DEF Calm
<1>3. cache[Target(r)].state # "torn"
  BY <1>2 DEF Calm, StageInv, PublishedIsWhole
<1>4. CASE cache[Target(r)].state = "whole" /\ ToNextEntry(r)
           /\ Record(r, cache[Target(r)].length)
  BY <1>1, <1>4, HitCalm
<1>5. CASE /\ step' = [step EXCEPT ![r] = "write"]
           /\ UNCHANGED <<phase, item, part, recorded>>
  <2>1. CalmRun(r)'
    BY <1>1, <1>5, MissCalm
  <2>2. \A s \in Runs \ {r} : RunKept(s)
    BY <1>1, <1>5 DEF RunKept, Calm, TypeOK
  <2>3. QED
    BY <1>1, <2>1, <2>2, QuietStep
<1>6. QED
  BY <1>3, <1>4, <1>5 DEF ReadConditioning

(* Inside the plan and the training nothing the run needs is missing. *)
LEMMA PlannedIsPresent ==
  ASSUME Calm, NEW r \in Runs, phase[r] \in {"plan", "train"},
         NEW i \in 1 .. EmptyEntry, Uses(r, i)
  PROVE  Present(CondPath(i)) /\ (i \in Images => Present(LatentPath(i)))
BY DEF Calm, CalmRun, PassedIsPresent

LEMMA PlanFileCalm ==
  ASSUME Calm, NEW r \in Runs, PlanFile(r)
  PROVE  OneLength' /\ \A s \in Runs : CalmRun(s)'
<1>1. phase[r] = "plan" /\ item[r] # End /\ UNCHANGED <<cache, staged, holds, source>>
  BY DEF PlanFile
<1>2. item[r] \in 1 .. EmptyEntry /\ Uses(r, item[r])
  BY <1>1, EntryBounds DEF Calm, Placed, TypeOK, Uses
<1>3. Present(CondPath(item[r])) /\ (item[r] \in Images => Present(LatentPath(item[r])))
  BY <1>1, <1>2, PlannedIsPresent
<1>4. Target(r) \in Paths /\ Present(Target(r))
  BY <1>1, <1>3, TargetIsPath DEF Calm, Placed, Target
<1>5. cache[Target(r)].state = "whole"
  BY <1>4, PresentIsWhole
<1>6. CacheGrows
  BY <1>1 DEF CacheGrows, Present
<1>7. CASE part[r] = "latent" /\ ToConditioning(r) /\ UNCHANGED recorded
  <2>1. PICK k : k = item[r]
    OBVIOUS
  <2>2. k \in Images => Present(LatentPath(k))'
    BY <1>1, <1>3, <2>1 DEF Present
  <2>3. CalmRun(r)'
    BY <1>1, <1>6, <1>7, <2>1, <2>2, ToConditioningCalm
  <2>4. \A s \in Runs \ {r} : RunKept(s)
    BY <1>1, <1>7 DEF RunKept, ToConditioning, Calm, TypeOK
  <2>5. QED
    BY <1>1, <2>3, <2>4, QuietStep
<1>8. CASE part[r] = "cond" /\ ToNextEntry(r) /\ Record(r, cache[Target(r)].length)
  BY <1>1, <1>5, <1>8, HitCalm
<1>9. QED
  BY <1>5, <1>7, <1>8 DEF PlanFile

LEMMA EndOfPassCalm ==
  ASSUME Calm, NEW r \in Runs, EndOfPass(r)
  PROVE  OneLength' /\ \A s \in Runs : CalmRun(s)'
<1>1. phase[r] \in {"prepare", "plan"} /\ item[r] = End
      /\ UNCHANGED <<cache, staged, holds, source, recorded>>
  BY DEF EndOfPass
<1>2. CalmRun(r)
  BY DEF Calm
<1>3. \A i \in 1 .. EmptyEntry : Uses(r, i) => recorded[r][i] = Length[r]
  BY <1>1, <1>2, BeforeEnd DEF CalmRun, PassedIsRecorded
<1>4. EmptyMatches(r) /\ LengthsFit(r)
  <2>1. \A i \in Images : recorded[r][i] = Length[r]
    BY <1>3, EntryBounds DEF Uses
  <2>2. EmptyEntry \in 1 .. EmptyEntry
    BY CountsAssumption DEF EmptyEntry
  <2>3. Dropout[r] => recorded[r][EmptyEntry] = Length[r]
    BY <1>3, <2>2 DEF Uses
  <2>4. QED
    BY <2>1, <2>3 DEF EmptyMatches, LengthsFit
<1>5. /\ phase' = [phase EXCEPT ![r] = IF @ = "prepare" THEN "plan" ELSE "train"]
      /\ item' = [item EXCEPT ![r] = 1] /\ part' = [part EXCEPT ![r] = "latent"]
      /\ step' = step
  BY <1>4 DEF EndOfPass
<1>6. phase'[r] \in {"plan", "train"} /\ item'[r] = 1
  BY <1>1, <1>5 DEF Calm, TypeOK
<1>7. \A i \in 1 .. EmptyEntry : Uses(r, i) =>
        Present(CondPath(i)) /\ (i \in Images => Present(LatentPath(i)))
  BY <1>1, <1>2, BeforeEnd DEF CalmRun, PassedIsPresent
<1>8. PassedIsPresent(r)'
  BY <1>1, <1>7 DEF PassedIsPresent, Uses, Present
<1>9. PassedIsRecorded(r)'
  BY <1>1, <1>3 DEF PassedIsRecorded, Uses
<1>10. LatentFirst(r)' /\ StagedIsOwn(r)'
  BY <1>6 DEF LatentFirst, StagedIsOwn
<1>11. SourcesAreRight(r)'
  BY <1>1, <1>2 DEF CalmRun, SourcesAreRight, Present
<1>12. \A s \in Runs \ {r} : RunKept(s)
  BY <1>1, <1>5 DEF RunKept, Calm, TypeOK
<1>13. CalmRun(r)'
  BY <1>6, <1>8, <1>9, <1>10, <1>11 DEF CalmRun
<1>14. QED
  BY <1>1, <1>12, <1>13, QuietStep

(* A step of training that changes no position. *)
LEMMA IdleStep ==
  ASSUME Calm, UNCHANGED <<cache, staged, holds, phase, item, part, step, source, recorded>>
  PROVE  OneLength' /\ \A s \in Runs : CalmRun(s)'
<1>1. CacheGrows /\ \A s \in Runs : RunKept(s)
  BY DEF CacheGrows, Present, RunKept
<1>2. OneLength'
  BY DEF Calm, OneLength, Present
<1>3. ASSUME NEW s \in Runs PROVE CalmRun(s)'
  BY <1>1, KeptStaged, KeptRunIsCalm DEF Calm
<1>4. QED
  BY <1>2, <1>3

LEMMA LoadLatentCalm ==
  ASSUME Calm, NEW r \in Runs, NEW i \in Images, LoadLatent(r, i)
  PROVE  OneLength' /\ \A s \in Runs : CalmRun(s)'
<1>1. phase[r] = "train" /\ UNCHANGED <<cache, staged, holds, source, recorded>>
  BY DEF LoadLatent
<1>2. i \in 1 .. EmptyEntry /\ LatentPath(i) \in Paths
  BY EntryBounds, PathsOfEntries
<1>3. Present(LatentPath(i))
  BY <1>1, <1>2, PlannedIsPresent DEF Uses
<1>4. UNCHANGED runState
  BY <1>2, <1>3, PresentIsWhole DEF LoadLatent
<1>5. QED
  BY <1>1, <1>4, IdleStep DEF runState

LEMMA LoadConditioningCalm ==
  ASSUME Calm, NEW r \in Runs, NEW i \in 1 .. EmptyEntry, LoadConditioning(r, i)
  PROVE  OneLength' /\ \A s \in Runs : CalmRun(s)'
<1>1. phase[r] = "train" /\ UNCHANGED <<cache, staged, holds, source, recorded>>
  BY DEF LoadConditioning
<1>2. Uses(r, i) /\ CondPath(i) \in Paths
  BY EntryBounds, PathsOfEntries DEF LoadConditioning, Uses
<1>3. Present(CondPath(i))
  BY <1>1, <1>2, PlannedIsPresent
<1>4. recorded[r][i] = Length[r]
  BY <1>1, <1>2 DEF Calm, CalmRun, PassedIsRecorded
<1>5. AsPlanned(r, i, cache[CondPath(i)])
  BY <1>2, <1>3, <1>4, PresentIsWhole, PresentHasLength DEF AsPlanned
<1>6. UNCHANGED runState
  BY <1>5 DEF LoadConditioning
<1>7. QED
  BY <1>1, <1>6, IdleStep DEF runState

(* A run that is over promises nothing but that it was not refused. *)
LEMMA OverIsCalm ==
  ASSUME Calm, NEW r \in Runs, phase'[r] \in {"finished", "stopped"},
         UNCHANGED <<cache, source>>
  PROVE  CalmRun(r)'
<1>1. SourcesAreRight(r)'
  BY DEF Calm, CalmRun, SourcesAreRight, Present
<1>2. QED
  BY <1>1
     DEF CalmRun, PassedIsPresent, LatentFirst, PassedIsRecorded, StagedIsOwn

LEMMA LastStepCalm ==
  ASSUME Calm, NEW r \in Runs, LastStep(r)
  PROVE  OneLength' /\ \A s \in Runs : CalmRun(s)'
<1>1. phase' = [phase EXCEPT ![r] = "finished"]
      /\ UNCHANGED <<cache, staged, holds, item, part, step, source, recorded>>
  BY DEF LastStep
<1>2. CalmRun(r)'
  BY <1>1, OverIsCalm DEF Calm, TypeOK
<1>3. \A s \in Runs \ {r} : RunKept(s)
  BY <1>1 DEF RunKept, Calm, TypeOK
<1>4. QED
  BY <1>1, <1>2, <1>3, QuietStep

LEMMA StopCalm ==
  ASSUME Calm, NEW r \in Runs, Stop(r)
  PROVE  OneLength' /\ \A s \in Runs : CalmRun(s)'
<1>1. phase' = [phase EXCEPT ![r] = "stopped"] /\ holds' = [holds EXCEPT ![r] = "nothing"]
      /\ UNCHANGED <<cache, staged, item, part, step, source, recorded>>
  BY DEF Stop
<1>2. OneLength' /\ CacheGrows
  BY <1>1 DEF Calm, OneLength, CacheGrows, Present
<1>3. CalmRun(r)'
  BY <1>1, OverIsCalm DEF Calm, TypeOK
<1>4. ASSUME NEW s \in Runs, s # r PROVE CalmRun(s)'
  <2>1. RunKept(s) /\ holds'[s] = holds[s] /\ CalmRun(s)
    BY <1>1, <1>4 DEF RunKept, Calm, TypeOK
  <2>2. StagedIsOwn(s)'
    BY <1>1, <2>1 DEF RunKept, CalmRun, StagedIsOwn, StagedPath, Target
  <2>3. QED
    BY <1>2, <2>1, <2>2, KeptRunIsCalm
<1>5. QED
  BY <1>2, <1>3, <1>4

-----------------------------------------------------------------------------
(* The three steps of a write *)

LEMMA OpenCalm ==
  ASSUME Calm, NEW r \in Runs, OpenStaged(r)
  PROVE  OneLength' /\ \A s \in Runs : CalmRun(s)'
<1>1. phase[r] = "prepare" /\ UNCHANGED <<cache, phase, item, part, source, recorded>>
      /\ staged' = [staged EXCEPT ![StagedPath(r, Target(r))] = Torn]
      /\ holds' = [holds EXCEPT ![r] = "staged"] /\ step' = [step EXCEPT ![r] = "fill"]
  BY DEF OpenStaged
<1>2. OneLength' /\ CacheGrows
  BY <1>1 DEF Calm, OneLength, CacheGrows, Present
<1>3. CalmRun(r)'
  <2>1. CalmRun(r) /\ step'[r] = "fill" /\ holds'[r] = "staged"
    BY <1>1 DEF Calm, TypeOK
  <2>2. StagedIsOwn(r)'
    BY <2>1 DEF StagedIsOwn
  <2>3. PassedIsPresent(r)' /\ LatentFirst(r)' /\ SourcesAreRight(r)' /\ PassedIsRecorded(r)'
    BY <1>1, <2>1
       DEF CalmRun, PassedIsPresent, LatentFirst, SourcesAreRight, PassedIsRecorded,
           Present, Uses
  <2>4. QED
    BY <1>1, <2>1, <2>2, <2>3 DEF CalmRun
<1>4. ASSUME NEW s \in Runs, s # r PROVE CalmRun(s)'
  <2>1. RunKept(s) /\ holds'[s] = holds[s] /\ CalmRun(s)
    BY <1>1, <1>4 DEF RunKept, Calm, TypeOK
  <2>2. \A n \in Paths \X Pids : n # StagedPath(r, Target(r)) => staged'[n] = staged[n]
    BY <1>1 DEF Calm, TypeOK
  <2>3. StagedIsOwn(s)'
    BY <1>1, <1>4, <2>1, <2>2, OthersStaged
  <2>4. QED
    BY <1>2, <2>1, <2>3, KeptRunIsCalm
<1>5. QED
  BY <1>2, <1>3, <1>4

LEMMA FillCalm ==
  ASSUME Calm, NEW r \in Runs, Fill(r)
  PROVE  OneLength' /\ \A s \in Runs : CalmRun(s)'
<1>1. phase[r] = "prepare" /\ step[r] = "fill"
      /\ UNCHANGED <<phase, item, part, source, recorded>>
      /\ holds' = [holds EXCEPT ![r] = "nothing"] /\ step' = [step EXCEPT ![r] = "publish"]
  BY DEF Fill
<1>2. holds[r] = "staged"
  BY <1>1 DEF Calm, CalmRun, StagedIsOwn
<1>3. cache' = cache
      /\ staged' = [staged EXCEPT ![StagedPath(r, Target(r))] = Whole(Length[r])]
  BY <1>1, <1>2, FilledAlone DEF Fill, Calm
<1>4. OneLength' /\ CacheGrows
  BY <1>3 DEF Calm, OneLength, CacheGrows, Present
<1>5. StagedPath(r, Target(r)) \in Paths \X Pids
  BY <1>1, TargetIsPath, StagedPathIsName DEF Calm, Placed
<1>6. CalmRun(r)'
  <2>1. CalmRun(r) /\ step'[r] = "publish"
    BY <1>1 DEF Calm, TypeOK
  <2>2. staged'[StagedPath(r, Target(r))] = Whole(Length[r])
    BY <1>3, <1>5 DEF Calm, TypeOK
  <2>3. StagedIsOwn(r)'
    BY <1>1, <2>1, <2>2 DEF StagedIsOwn, StagedPath, Target
  <2>4. PassedIsPresent(r)' /\ LatentFirst(r)' /\ SourcesAreRight(r)' /\ PassedIsRecorded(r)'
    BY <1>1, <1>3, <2>1
       DEF CalmRun, PassedIsPresent, LatentFirst, SourcesAreRight, PassedIsRecorded,
           Present, Uses
  <2>5. QED
    BY <1>1, <2>1, <2>3, <2>4 DEF CalmRun
<1>7. ASSUME NEW s \in Runs, s # r PROVE CalmRun(s)'
  <2>1. RunKept(s) /\ holds'[s] = holds[s] /\ CalmRun(s)
    BY <1>1, <1>7 DEF RunKept, Calm, TypeOK
  <2>2. \A n \in Paths \X Pids : n # StagedPath(r, Target(r)) => staged'[n] = staged[n]
    BY <1>3 DEF Calm, TypeOK
  <2>3. StagedIsOwn(s)'
    BY <1>1, <1>7, <2>1, <2>2, OthersStaged
  <2>4. QED
    BY <1>4, <2>1, <2>3, KeptRunIsCalm
<1>8. QED
  BY <1>4, <1>6, <1>7

LEMMA PublishCalm ==
  ASSUME OneBuild, Calm, NEW r \in Runs, Publish(r)
  PROVE  OneLength' /\ \A s \in Runs : CalmRun(s)'
<1>1. phase[r] = "prepare" /\ step[r] = "publish" /\ UNCHANGED source /\ item[r] # End
  BY DEF Publish, Calm, Placed
<1>2. Target(r) \in Paths /\ StagedPath(r, Target(r)) \in Paths \X Pids
  BY <1>1, TargetIsPath, StagedPathIsName DEF Calm
<1>3. staged[StagedPath(r, Target(r))] = Whole(Length[r]) /\ Length[r] \in Nat
  BY <1>1, RunsAssumption DEF Calm, CalmRun, StagedIsOwn
<1>4. Whole(Length[r]) # Absent
  BY <1>3, FilesAreFiles
<1>5. /\ Rename(r)
      /\ \/ part[r] = "latent" /\ ToConditioning(r) /\ UNCHANGED recorded
         \/ part[r] = "cond" /\ ToNextEntry(r) /\ Record(r, Length[r])
  BY <1>3, <1>4 DEF Publish
<1>6. cache' = [cache EXCEPT ![Target(r)] = Whole(Length[r])]
      /\ staged' = [staged EXCEPT ![StagedPath(r, Target(r))] = Absent]
  BY <1>3, <1>5 DEF Rename
<1>7. CacheGrows
  BY <1>3, <1>6, FilesAreFiles DEF CacheGrows, Present, Calm, TypeOK
<1>8. OneLength'
  BY <1>3, <1>6, FilesAreFiles DEF Calm, OneLength, OneBuild, Present, TypeOK
<1>9. PICK p \in Paths : p = Target(r)
  BY <1>2
<1>10. Present(p)'
  BY <1>3, <1>6, <1>9, FilesAreFiles DEF Present, Calm, TypeOK
<1>11. CalmRun(r)'
  <2>1. CASE part[r] = "latent" /\ ToConditioning(r) /\ UNCHANGED recorded
    <3>1. PICK k : k = item[r]
      OBVIOUS
    <3>2. p = LatentPath(k)
      BY <1>9, <2>1, <3>1 DEF Target
    <3>3. Present(LatentPath(k))'
      BY <1>10, <3>2
    <3>4. QED
      BY <1>1, <1>7, <2>1, <3>1, <3>3, ToConditioningCalm
  <2>2. CASE part[r] = "cond" /\ ToNextEntry(r) /\ Record(r, Length[r])
    <3>1. PICK k \in 1 .. EmptyEntry : k = item[r]
      BY <1>1, EntryBounds DEF Calm, TypeOK
    <3>2. p = CondPath(k)
      BY <1>9, <2>2, <3>1 DEF Target
    <3>3. Present(CondPath(k))'
      BY <1>10, <3>2
    <3>4. QED
      BY <1>1, <1>7, <2>2, <3>1, <3>3, ToNextEntryCalm
  <2>3. QED
    BY <1>5, <2>1, <2>2
<1>12. ASSUME NEW s \in Runs, s # r PROVE CalmRun(s)'
  <2>1. RunKept(s) /\ CalmRun(s)
    BY <1>1, <1>5, <1>12
       DEF RunKept, ToConditioning, ToNextEntry, Record, Calm, TypeOK
  <2>2. holds'[s] = holds[s]
    BY <1>1, <1>5, RenameMovesNobody DEF Calm
  <2>3. \A n \in Paths \X Pids : n # StagedPath(r, Target(r)) => staged'[n] = staged[n]
    BY <1>6 DEF Calm, TypeOK
  <2>4. StagedIsOwn(s)'
    BY <1>1, <1>12, <2>1, <2>2, <2>3, OthersStaged
  <2>5. QED
    BY <1>7, <2>1, <2>4, KeptRunIsCalm
<1>13. QED
  BY <1>8, <1>11, <1>12

-----------------------------------------------------------------------------
(* The theorem *)

LEMMA InitUndisturbed == Init => Undisturbed
<1>1. SUFFICES ASSUME Init PROVE OneLength /\ \A r \in Runs : CalmRun(r)
  BY DEF Undisturbed
<1>2. OneLength
  BY <1>1, FilesAreFiles DEF Init, OneLength, Present
<1>3. ASSUME NEW r \in Runs PROVE CalmRun(r)
  BY <1>1
     DEF Init, CalmRun, PassedIsPresent, LatentFirst, SourcesAreRight,
         PassedIsRecorded, StagedIsOwn
<1>4. QED
  BY <1>2, <1>3

LEMMA NextUndisturbed ==
  TypeOK /\ Placed /\ StageInv /\ Undisturbed /\ [Next]_vars => Undisturbed'
<1>1. SUFFICES ASSUME TypeOK, Placed, StageInv, Undisturbed, [Next]_vars,
                      OneBuild, purges' = 0
               PROVE  OneLength' /\ \A s \in Runs : CalmRun(s)'
  BY DEF Undisturbed, OneBuild
<1>2. CASE Purge
  BY <1>1, <1>2 DEF Purge, TypeOK
<1>3. CASE ~Purge
  <2>1. purges = 0
    BY <1>1, <1>3
       DEF vars, Next, Works, Trains, Start, PrePass, TakeLatent, ReadConditioning,
           OpenStaged, Fill, Publish, PlanFile, EndOfPass, LoadLatent, LoadConditioning,
           LastStep, Stop
  <2>2. Calm
    BY <1>1, <2>1 DEF Calm, Undisturbed
  <2>3. CASE UNCHANGED vars
    BY <2>2, <2>3, IdleStep DEF vars
  <2>4. CASE \E r \in Runs : Start(r) \/ Works(r) \/ Trains(r) \/ Stop(r)
    <3>1. PICK r \in Runs : Start(r) \/ Works(r) \/ Trains(r) \/ Stop(r)
      BY <2>4
    <3>2. CASE Works(r)
      BY <1>1, <2>2, <3>2, PrePassCalm, TakeLatentCalm, ReadConditioningCalm, OpenCalm,
         FillCalm, PublishCalm, PlanFileCalm, EndOfPassCalm
         DEF Works
    <3>3. CASE Trains(r)
      BY <2>2, <3>3, LoadLatentCalm, LoadConditioningCalm, LastStepCalm DEF Trains
    <3>4. QED
      BY <2>2, <3>1, <3>2, <3>3, StartCalm, StopCalm
  <2>5. QED
    BY <1>1, <1>3, <2>3, <2>4 DEF Next
<1>4. QED
  BY <1>2, <1>3

(* Runs of one build never make each other fail, as long as a process executes
   one run at a time and nobody empties the cache: each finds every file it
   wrote or saw, as it planned it, and the file it renames is the one it
   filled. *)
THEOREM RunsAreIndependent == ~SharedProcess /\ Spec => []RunsDoNotDisturb
<1>1. Undisturbed /\ TypeOK => RunsDoNotDisturb
  <2>1. SUFFICES ASSUME Undisturbed, TypeOK, OneBuild,
                        NEW r \in Runs, phase[r] = "refused"
                 PROVE  purges > 0
    BY DEF RunsDoNotDisturb
  <2>2. purges # 0
    BY <2>1 DEF Undisturbed, CalmRun
  <2>3. QED
    BY <2>1, <2>2, CountsAssumption DEF TypeOK
<1>2. CASE ~SharedProcess
  <2>1. TypeOK /\ Placed /\ StageInv /\ Undisturbed /\ [Next]_vars
          => (TypeOK /\ Placed /\ StageInv /\ Undisturbed)'
    BY <1>2, NextType, NextStage, NextUndisturbed
  <2>2. QED
    BY <1>1, <2>1, InitType, InitStage, InitUndisturbed, PTL DEF Spec
<1>3. CASE SharedProcess
  BY <1>3
<1>4. QED
  BY <1>2, <1>3

=============================================================================
