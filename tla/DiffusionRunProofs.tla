------------------------- MODULE DiffusionRunProofs -------------------------
(***************************************************************************)
(* TLAPS proofs about DiffusionRun, for every total, checkpoint interval,  *)
(* metadata setting and number of runs, crashes, copies and overflows.     *)
(***************************************************************************)
EXTENDS DiffusionRun, TLAPS

-----------------------------------------------------------------------------
(* Facts about the operators the actions are built from *)

LEMMA JobType ==
  ASSUME NEW j \in Jobs
  PROVE  /\ j.total \in 1 .. MaxTotal
         /\ j.embed \in BOOLEAN
         /\ AlwaysEmbedded => j.embed
         /\ Source(j) \in Paths
<1>1. j \in [from : Paths \cup {NoPath}, auto : BOOLEAN, allow : BOOLEAN,
             total : 1 .. MaxTotal, every : Everys, embed : Embeds]
  BY DEF Jobs
<1>2. j.total \in 1 .. MaxTotal /\ j.embed \in Embeds
  BY <1>1
<1>3. j.from \in Paths \cup {NoPath}
  BY <1>1
<1>4. Source(j) \in Paths
  BY <1>3, BoundsAssumption DEF Source, Paths, Final
<1>5. QED
  BY <1>2, <1>4, BoundsAssumption DEF AlwaysEmbedded

LEMMA HalvedInRange ==
  ASSUME scale \in 1 .. MaxScale
  PROVE  Halved \in 1 .. MaxScale
BY ScaleAssumption DEF Halved

LEMMA DoubledInRange ==
  ASSUME scale \in 1 .. MaxScale
  PROVE  Doubled \in 1 .. MaxScale
BY ScaleAssumption DEF Doubled

LEMMA EmptyFiles == NoAdapter \in Adapters /\ NoSidecar \in Sidecars
BY ScaleAssumption
   DEF NoAdapter, NoSidecar, Adapters, Sidecars, FileStates, Versions, Nothing

LEMMA StepsDoneIsNat ==
  ASSUME TypeOK, phase # "idle"
  PROVE  StepsDone \in Nat
<1>1. job \in Jobs /\ start \in Nat \ {0} /\ target \in Paths /\ step \in Nat
  BY DEF TypeOK
<1>2. job.total \in Nat
  <2>1. job.total \in 1 .. MaxTotal
    BY <1>1, JobType, Zenon
  <2>2. QED
    BY <2>1, BoundsAssumption
<1>3. QED
  BY <1>1, <1>2 DEF StepsDone

LEMMA StepIsPath ==
  ASSUME TypeOK, phase = "train", step <= job.total
  PROVE  step \in Paths
<1>1. job \in Jobs /\ step \in Nat
  BY DEF TypeOK
<1>2. job.total \in 1 .. MaxTotal
  BY <1>1, JobType, Zenon
<1>3. QED
  BY <1>1, <1>2, BoundsAssumption DEF Paths

LEMMA WrittenFiles ==
  ASSUME TypeOK, phase # "idle"
  PROVE  Exported \in Adapters /\ Saved \in Sidecars
<1>1. StepsDone \in Nat
  BY StepsDoneIsNat
<1>2. job.embed \in BOOLEAN
  BY JobType DEF TypeOK
<1>3. (job.embed /\ target = Final) \in BOOLEAN
  OBVIOUS
<1>4. Exported \in Adapters
  <2> DEFINE s == IF job.embed THEN StepsDone ELSE 0
             f == job.embed /\ target = Final
  <2>1. s \in Nat /\ f \in BOOLEAN
    BY <1>1
  <2> HIDE DEF s, f
  <2>2. [state |-> "whole", recorded |-> job.embed, steps |-> s,
         finished |-> f, weights |-> weights, trained |-> trained] \in Adapters
    BY <1>2, <2>1 DEF TypeOK, Adapters, FileStates
  <2>3. QED
    BY <2>2 DEF Exported, s, f
<1>5. Saved \in Sidecars
  BY <1>1 DEF TypeOK, Saved, Sidecars, FileStates
<1>6. QED
  BY <1>4, <1>5

-----------------------------------------------------------------------------
(* Type correctness *)

LEMMA TypeInit == Init => TypeOK
BY EmptyFiles, ScaleAssumption, BoundsAssumption
   DEF Init, NoRun, TypeOK, Phases, Paths, Final, Versions, Nothing

LEMMA TypeStep == TypeOK /\ [Next]_vars => TypeOK'
<1> SUFFICES ASSUME TypeOK, [Next]_vars PROVE TypeOK'
  OBVIOUS
<1> USE DEF TypeOK, disk, memory, loop, story, counts
<1>1. CASE Launch
  BY <1>1, BoundsAssumption DEF Launch, Phases
<1>2. CASE StartFresh
  BY <1>2, BoundsAssumption DEF StartFresh, Phases, Versions
<1>3. CASE StartResumed
  <2> DEFINE p == Source(job)
  <2>1. p \in Paths
    BY <1>3, JobType DEF StartResumed
  <2>2. adapter[p] \in Adapters /\ sidecar[p] \in Sidecars
    BY <2>1
  <2>3. StartStep(p) \in Nat \ {0}
    BY <2>2 DEF StartStep, StepsOf, Adapters
  <2>4. /\ adapter[p].weights \in Versions
        /\ adapter[p].trained \in Nat
        /\ sidecar[p].moments \in Versions
        /\ sidecar[p].scale \in 1 .. MaxScale
        /\ sidecar[p].streak \in Nat
    BY <2>2 DEF Adapters, Sidecars
  <2> HIDE DEF p
  <2>5. /\ start' = StartStep(p)
        /\ step' = StartStep(p)
        /\ weights' = adapter[p].weights
        /\ trained' = adapter[p].trained
        /\ moments' \in {moments, sidecar[p].moments}
        /\ scale' \in {scale, sidecar[p].scale}
        /\ streak' \in {streak, sidecar[p].streak}
    BY <1>3 DEF StartResumed, p
  <2>6. QED
    BY <1>3, <2>3, <2>4, <2>5 DEF StartResumed, Phases
<1>4. CASE Abort
  BY <1>4, ScaleAssumption, BoundsAssumption
     DEF Abort, Cleared, Phases, Paths, Final, Versions, Nothing
<1>5. CASE CleanStep
  <2>1. weights' \in Versions /\ moments' \in Versions
    BY <1>5 DEF CleanStep, Versions
  <2>2. scale' \in 1 .. MaxScale /\ streak' \in Nat
    BY <1>5, DoubledInRange DEF CleanStep
  <2>3. step \in Paths
    BY <1>5, StepIsPath DEF CleanStep
  <2>4. QED
    BY <1>5, <2>1, <2>2, <2>3 DEF CleanStep, AfterStep, Phases
<1>6. CASE OverflowedStep
  <2>1. scale' \in 1 .. MaxScale
    BY <1>6, HalvedInRange DEF OverflowedStep
  <2>2. step \in Paths
    BY <1>6, StepIsPath DEF OverflowedStep
  <2>3. QED
    BY <1>6, <2>1, <2>2, BoundsAssumption
       DEF OverflowedStep, AfterStep, Phases
<1>7. CASE LoopEnds
  BY <1>7, BoundsAssumption DEF LoopEnds, Phases, Paths, Final
<1>8. CASE OpenAdapter
  <2>1. PICK torn \in {[NoAdapter EXCEPT !.state = "headless"],
                       [Exported EXCEPT !.state = "cut"]} :
          adapter' = [adapter EXCEPT ![target] = torn]
    BY <1>8 DEF OpenAdapter
  <2>2. torn \in Adapters
    BY <1>8, EmptyFiles, WrittenFiles, SMTT(20) DEF OpenAdapter, Adapters, FileStates
  <2>3. QED
    BY <1>8, <2>1, <2>2 DEF OpenAdapter, Phases
<1>9. CASE CloseAdapter
  BY <1>9, WrittenFiles DEF CloseAdapter, AfterExport, Phases
<1>10. CASE OpenSidecar
  <2>1. PICK torn \in {[NoSidecar EXCEPT !.state = "headless"],
                       [Saved EXCEPT !.state = "cut"]} :
          sidecar' = [sidecar EXCEPT ![target] = torn]
    BY <1>10 DEF OpenSidecar
  <2>2. torn \in Sidecars
    BY <1>10, EmptyFiles, WrittenFiles DEF OpenSidecar, Sidecars, FileStates
  <2>3. QED
    BY <1>10, <2>1, <2>2 DEF OpenSidecar, Phases
<1>11. CASE CloseSidecar
  BY <1>11, WrittenFiles DEF CloseSidecar, Phases
<1>12. CASE AnnounceCheckpoint
  BY <1>12, BoundsAssumption
     DEF AnnounceCheckpoint, Announced, Phases, Paths, Final
<1>13. CASE Finish
  BY <1>13, ScaleAssumption, BoundsAssumption
     DEF Finish, Announced, Cleared, Phases, Paths, Final, Versions, Nothing
<1>14. CASE CopyCheckpoint
  BY <1>14, BoundsAssumption DEF CopyCheckpoint, Paths, Final
<1>15. CASE UNCHANGED vars
  BY <1>15 DEF vars
<1>16. QED
  BY <1>1, <1>2, <1>3, <1>4, <1>5, <1>6, <1>7, <1>8, <1>9, <1>10, <1>11,
     <1>12, <1>13, <1>14, <1>15 DEF Next

\* Every variable keeps its type, whatever the bounds.
THEOREM TypeCorrect == Spec => []TypeOK
BY TypeInit, TypeStep, PTL DEF Spec

-----------------------------------------------------------------------------
(* What is claimed about the steps that were taken *)

LEMMA NextCounts ==
  ASSUME NEW a \in Nat, NEW b \in Nat
  PROVE  Counts(a, b) <=> Counts(a + 1, b + 1)
BY DEF Counts

LEMMA CountInit == Init => CountInv
<1> SUFFICES ASSUME Init PROVE CountInv
  OBVIOUS
<1>1. HonestAdapters /\ HonestSidecars
  BY DEF Init, HonestAdapters, HonestSidecars, Readable, NoAdapter, NoSidecar
<1>2. LoopInv
  BY DEF Init, NoRun, LoopInv, Writing
<1>3. QED
  BY <1>1, <1>2 DEF CountInv

\* A file written now, whole or cut after its header, counts right.
LEMMA WrittenFilesCount ==
  ASSUME TypeOK, LoopInv, Writing
  PROVE  /\ AlwaysEmbedded => Exported.recorded
         /\ Exported.recorded => Counts(Exported.steps, Exported.trained)
         /\ Counts(Saved.steps, Saved.trained)
<1>1. Counts(StepsDone, trained)
  BY DEF LoopInv
<1>2. job \in Jobs
  BY DEF TypeOK, Writing
<1>3. AlwaysEmbedded => job.embed
  BY <1>2, JobType, Zenon
<1> DEFINE f == job.embed /\ target = Final
           s == IF job.embed THEN StepsDone ELSE 0
<1> HIDE DEF f, s
<1>4. /\ Exported.recorded = job.embed
      /\ Exported.steps = s
      /\ Exported.trained = trained
  BY DEF Exported, f, s
<1>5. Saved.steps = StepsDone /\ Saved.trained = trained
  BY DEF Saved
<1>6. job.embed => s = StepsDone
  BY DEF s
<1>7. QED
  BY <1>1, <1>3, <1>4, <1>5, <1>6, Zenon

\* The end of an iteration, whether or not a checkpoint is due.
LEMMA IterationCounts ==
  ASSUME TypeOK, CountInv, phase = "train", step <= job.total, AfterStep
  PROVE  CountInv'
<1>1. /\ job \in Jobs
      /\ step \in Nat \ {0} /\ start \in Nat \ {0} /\ trained \in Nat
  BY DEF TypeOK
<1>2. job.total \in Nat
  <2>1. job.total \in 1 .. MaxTotal
    BY <1>1, JobType, Zenon
  <2>2. QED
    BY <2>1, BoundsAssumption
<1>3. /\ target = Final /\ start <= step /\ Counts(step, trained + 1)
  BY DEF CountInv, LoopInv
<1>4. LoopInv'
  <2>1. CASE CheckpointDue
    BY <1>1, <1>2, <1>3, <2>1
       DEF AfterStep, LoopInv, Writing, StepsDone, Final, Counts
  <2>2. CASE ~CheckpointDue
    <3>1. Counts(step + 1, trained + 1 + 1)
      BY <1>1, <1>3, NextCounts
    <3>2. QED
      BY <1>1, <1>2, <1>3, <2>2, <3>1
         DEF AfterStep, LoopInv, Writing
  <2>3. QED
    BY <2>1, <2>2
<1>5. HonestAdapters' /\ HonestSidecars'
  BY DEF AfterStep, disk, CountInv, HonestAdapters, HonestSidecars, Readable
<1>6. QED
  BY <1>4, <1>5 DEF CountInv

\* A step that moves a write on leaves the counts as they are.
LEMMA WriteGoesOn ==
  ASSUME LoopInv, Writing, Writing', UNCHANGED <<loop, target, memory>>
  PROVE  LoopInv'
<1>1. StepsDone' = StepsDone
  BY DEF StepsDone, loop
<1>2. QED
  BY <1>1 DEF LoopInv, Writing, loop, memory

\* Replacing one file by one that counts right.
LEMMA AdapterReplaced ==
  ASSUME TypeOK, HonestAdapters,
         NEW q \in Paths, NEW f, adapter' = [adapter EXCEPT ![q] = f],
         f.state \in {"cut", "whole"} =>
           /\ AlwaysEmbedded => f.recorded
           /\ f.recorded => Counts(f.steps, f.trained)
  PROVE  HonestAdapters'
<1> SUFFICES ASSUME NEW p \in Paths, Readable(p)'
             PROVE  /\ AlwaysEmbedded => adapter'[p].recorded
                    /\ adapter'[p].recorded =>
                         Counts(adapter'[p].steps, adapter'[p].trained)
  BY DEF HonestAdapters
<1>1. adapter'[p] = IF p = q THEN f ELSE adapter[p]
  BY DEF TypeOK
<1>2. adapter'[p].state \in {"cut", "whole"}
  BY DEF Readable
<1>3. CASE p = q
  BY <1>1, <1>2, <1>3
<1>4. CASE p # q
  BY <1>1, <1>2, <1>4 DEF HonestAdapters, Readable
<1>5. QED
  BY <1>3, <1>4

LEMMA SidecarReplaced ==
  ASSUME TypeOK, HonestSidecars,
         NEW q \in Paths, NEW f, sidecar' = [sidecar EXCEPT ![q] = f],
         f.state \in {"cut", "whole"} => Counts(f.steps, f.trained)
  PROVE  HonestSidecars'
BY DEF TypeOK, HonestSidecars

LEMMA CountStep == TypeOK /\ CountInv /\ [Next]_vars => CountInv'
<1> SUFFICES ASSUME TypeOK, CountInv, [Next]_vars PROVE CountInv'
  OBVIOUS
<1>a. HonestAdapters /\ HonestSidecars /\ LoopInv
  BY DEF CountInv
<1>b. (UNCHANGED adapter) => HonestAdapters'
  BY <1>a DEF HonestAdapters, Readable
<1>c. (UNCHANGED sidecar) => HonestSidecars'
  BY <1>a DEF HonestSidecars
<1>d. target \in Paths
  BY DEF TypeOK
<1>1. CASE Launch
  BY <1>1, <1>a, <1>b, <1>c
     DEF Launch, CountInv, LoopInv, Writing, disk, memory
<1>2. CASE StartFresh
  <2>1. start = 1 /\ step = 1 /\ trained = 0 /\ job \in Jobs
    BY <1>2, <1>a DEF StartFresh, LoopInv, TypeOK
  <2>2. target = Final
    BY <1>2, <1>a DEF StartFresh, LoopInv
  <2>3. LoopInv'
    BY <1>2, <2>1, <2>2 DEF StartFresh, LoopInv, Writing, Counts
  <2>4. QED
    BY <1>2, <2>3, <1>b, <1>c DEF StartFresh, CountInv, disk
<1>3. CASE StartResumed
  <2> DEFINE p == Source(job)
  <2>1. p \in Paths
    BY <1>3, JobType DEF StartResumed, TypeOK
  <2>2. adapter[p].steps \in Nat /\ adapter[p].trained \in Nat
    BY <2>1 DEF TypeOK, Adapters
  <2>3. Readable(p)
    BY <1>3 DEF StartResumed, Loads, Readable
  <2>4. /\ AlwaysEmbedded => adapter[p].recorded
        /\ adapter[p].recorded => Counts(adapter[p].steps, adapter[p].trained)
    BY <1>a, <2>1, <2>3 DEF HonestAdapters
  <2>5. StepsOf(p) \in Nat /\ Counts(StepsOf(p), adapter[p].trained)
    <3>1. CASE adapter[p].recorded
      BY <2>2, <2>4, <3>1 DEF StepsOf
    <3>2. CASE ~adapter[p].recorded
      BY <2>2, <2>4, <3>2 DEF StepsOf, Counts
    <3>3. QED
      BY <3>1, <3>2
  <2>6. /\ step' = StepsOf(p) + 1
        /\ start' = step'
        /\ trained' = adapter[p].trained
        /\ phase' = "train"
        /\ target' = target
        /\ disk' = disk
    BY <1>3 DEF StartResumed, StartStep
  <2>7. target = Final
    BY <1>3, <1>a DEF StartResumed, LoopInv
  <2> HIDE DEF p
  <2>8. Counts(step', trained' + 1)
    BY <2>2, <2>5, <2>6, NextCounts
  <2>9. LoopInv'
    BY <2>5, <2>6, <2>7, <2>8 DEF LoopInv, Writing
  <2>10. QED
    BY <2>6, <2>9, <1>b, <1>c DEF CountInv, disk
<1>4. CASE Abort
  BY <1>4, <1>b, <1>c DEF Abort, Cleared, CountInv, LoopInv, Writing, disk
<1>5. CASE CleanStep
  BY <1>5, IterationCounts DEF CleanStep
<1>6. CASE OverflowedStep
  BY <1>6, IterationCounts DEF OverflowedStep
<1>7. CASE LoopEnds
  <2>1. /\ job \in Jobs
        /\ step \in Nat \ {0} /\ start \in Nat \ {0} /\ trained \in Nat
    BY <1>7 DEF LoopEnds, TypeOK
  <2>2. job.total \in Nat
    <3>1. job.total \in 1 .. MaxTotal
      BY <2>1, JobType, Zenon
    <3>2. QED
      BY <3>1, BoundsAssumption
  <2>3. /\ start <= step /\ Counts(step, trained + 1)
        /\ step <= job.total + 1 \/ step = start
        /\ step > job.total
    BY <1>7, <1>a DEF LoopEnds, LoopInv
  <2>4. StepsDone' = step - 1
    BY <1>7, <2>1, <2>2, <2>3 DEF LoopEnds, StepsDone, loop
  <2>5. Counts(step - 1, trained)
    <3>1. step - 1 \in Nat /\ (step - 1) + 1 = step
      BY <2>1
    <3>2. QED
      BY <2>1, <2>3, <3>1, NextCounts
  <2>6. LoopInv'
    BY <1>7, <2>4, <2>5 DEF LoopEnds, LoopInv, Writing, Counts, memory
  <2>7. QED
    BY <1>7, <2>6, <1>b, <1>c DEF LoopEnds, CountInv, disk
<1>8. CASE OpenAdapter
  <2>1. PICK torn \in {[NoAdapter EXCEPT !.state = "headless"],
                       [Exported EXCEPT !.state = "cut"]} :
          adapter' = [adapter EXCEPT ![target] = torn]
    BY <1>8 DEF OpenAdapter
  <2>2. torn.state \in {"cut", "whole"} =>
          /\ AlwaysEmbedded => torn.recorded
          /\ torn.recorded => Counts(torn.steps, torn.trained)
    <3>1. CASE torn = [NoAdapter EXCEPT !.state = "headless"]
      BY <3>1 DEF NoAdapter
    <3>2. CASE torn = [Exported EXCEPT !.state = "cut"]
      <4>1. /\ torn.recorded = Exported.recorded
            /\ torn.steps = Exported.steps
            /\ torn.trained = Exported.trained
        BY <3>2 DEF Exported
      <4>2. Writing
        BY <1>8 DEF OpenAdapter, Writing
      <4>3. QED
        BY <1>a, <4>1, <4>2, WrittenFilesCount, Zenon
    <3>3. QED
      BY <3>1, <3>2
  <2>3. HonestAdapters'
    BY <1>a, <1>d, <2>1, <2>2, AdapterReplaced
  <2>4. LoopInv'
    BY <1>8, <1>a, WriteGoesOn DEF OpenAdapter, Writing
  <2>5. QED
    BY <1>8, <2>3, <2>4, <1>c DEF OpenAdapter, CountInv
<1>9. CASE CloseAdapter
  <2>1. Writing /\ Writing'
    BY <1>9 DEF CloseAdapter, AfterExport, Writing
  <2>2. HonestAdapters'
    BY <1>9, <1>a, <1>d, <2>1, WrittenFilesCount, AdapterReplaced
       DEF CloseAdapter
  <2>3. LoopInv'
    BY <1>9, <1>a, <2>1, WriteGoesOn DEF CloseAdapter
  <2>4. QED
    BY <1>9, <2>2, <2>3, <1>c DEF CloseAdapter, CountInv
<1>10. CASE OpenSidecar
  <2>1. PICK torn \in {[NoSidecar EXCEPT !.state = "headless"],
                       [Saved EXCEPT !.state = "cut"]} :
          sidecar' = [sidecar EXCEPT ![target] = torn]
    BY <1>10 DEF OpenSidecar
  <2>2. torn.state \in {"cut", "whole"} => Counts(torn.steps, torn.trained)
    <3>1. CASE torn = [NoSidecar EXCEPT !.state = "headless"]
      BY <3>1 DEF NoSidecar
    <3>2. CASE torn = [Saved EXCEPT !.state = "cut"]
      <4>1. torn.steps = Saved.steps /\ torn.trained = Saved.trained
        BY <3>2 DEF Saved
      <4>2. Writing
        BY <1>10 DEF OpenSidecar, Writing
      <4>3. QED
        BY <1>a, <4>1, <4>2, WrittenFilesCount, Zenon
    <3>3. QED
      BY <3>1, <3>2
  <2>3. HonestSidecars'
    BY <1>a, <1>d, <2>1, <2>2, SidecarReplaced
  <2>4. LoopInv'
    BY <1>10, <1>a, WriteGoesOn DEF OpenSidecar, Writing
  <2>5. QED
    BY <1>10, <2>3, <2>4, <1>b DEF OpenSidecar, CountInv
<1>11. CASE CloseSidecar
  <2>1. Writing /\ Writing'
    BY <1>11 DEF CloseSidecar, Writing
  <2>2. HonestSidecars'
    BY <1>11, <1>a, <1>d, <2>1, WrittenFilesCount, SidecarReplaced
       DEF CloseSidecar
  <2>3. LoopInv'
    BY <1>11, <1>a, <2>1, WriteGoesOn DEF CloseSidecar
  <2>4. QED
    BY <1>11, <2>2, <2>3, <1>b DEF CloseSidecar, CountInv
<1>12. CASE AnnounceCheckpoint
  <2>1. /\ step \in Nat /\ start \in Nat /\ trained \in Nat
    BY DEF TypeOK
  <2>2. /\ StepsDone = step /\ start <= step /\ step <= job.total
        /\ Counts(step, trained)
    BY <1>12, <1>a DEF AnnounceCheckpoint, LoopInv, Writing, StepsDone
  <2>3. job.total \in Nat
    <3>1. job \in Jobs
      BY <1>12 DEF AnnounceCheckpoint, TypeOK
    <3>2. job.total \in 1 .. MaxTotal
      BY <3>1, JobType, Zenon
    <3>3. QED
      BY <3>2, BoundsAssumption
  <2>4. Counts(step + 1, trained + 1)
    BY <2>1, <2>2, NextCounts
  <2>5. LoopInv'
    BY <1>12, <2>1, <2>2, <2>3, <2>4
       DEF AnnounceCheckpoint, LoopInv, Writing, memory
  <2>6. QED
    BY <1>12, <2>5, <1>b, <1>c DEF AnnounceCheckpoint, CountInv, disk
<1>13. CASE Finish
  BY <1>13, <1>b, <1>c DEF Finish, Cleared, CountInv, LoopInv, Writing, disk
<1>14. CASE CopyCheckpoint
  <2>1. PICK p \in Paths \ {Final} :
          /\ adapter[p].state = "whole"
          /\ adapter' = [adapter EXCEPT ![Final] = adapter[p]]
    BY <1>14 DEF CopyCheckpoint
  <2>2. /\ AlwaysEmbedded => adapter[p].recorded
        /\ adapter[p].recorded => Counts(adapter[p].steps, adapter[p].trained)
    BY <2>1, <1>a DEF HonestAdapters, Readable
  <2>3. Final \in Paths
    BY BoundsAssumption DEF Final, Paths
  <2>4. HonestAdapters'
    BY <1>a, <2>1, <2>2, <2>3, AdapterReplaced
  <2>5. LoopInv'
    BY <1>14, <1>a
       DEF CopyCheckpoint, LoopInv, Writing, loop, memory
  <2>6. QED
    BY <1>14, <2>4, <2>5, <1>c DEF CopyCheckpoint, CountInv
<1>15. CASE UNCHANGED vars
  <2>1. LoopInv'
    BY <1>15, <1>a
       DEF vars, loop, memory, LoopInv, Writing, StepsDone
  <2>2. QED
    BY <1>15, <2>1, <1>b, <1>c DEF vars, disk, CountInv
<1>16. QED
  BY <1>1, <1>2, <1>3, <1>4, <1>5, <1>6, <1>7, <1>8, <1>9, <1>10, <1>11,
     <1>12, <1>13, <1>14, <1>15 DEF Next

THEOREM CountsAreKept == Spec => [](TypeOK /\ CountInv)
<1>1. Init => TypeOK /\ CountInv
  BY TypeInit, CountInit
<1>2. TypeOK /\ CountInv /\ [Next]_vars => TypeOK' /\ CountInv'
  BY TypeStep, CountStep
<1>3. QED
  BY <1>1, <1>2, PTL DEF Spec

\* The next step of a run is the number of steps its weights have been
\* through, plus one, over any chain of crashes, copies and resumes.
THEOREM StepsArePositions == Spec => []StepIsPosition
<1>1. TypeOK /\ CountInv => StepIsPosition
  BY DEF TypeOK, CountInv, LoopInv, StepIsPosition, Counts
<1>2. QED
  BY <1>1, CountsAreKept, PTL

\* No header claims a step its weights have not been through.
THEOREM HeadersAreHonest == Spec => []HeaderIsHonest
<1>1. CountInv => HeaderIsHonest
  BY DEF CountInv, HonestAdapters, HeaderIsHonest
<1>2. QED
  BY <1>1, CountsAreKept, PTL

\* Moments are only ever restored to weights that have been through as many
\* steps, provided the runs embed their metadata.
THEOREM MomentsMatch ==
  ASSUME AlwaysEmbedded
  PROVE  Spec => MomentsMatchStep
<1>1. TypeOK /\ CountInv /\ [Next]_vars => [RestoredMatch]_vars
  <2> SUFFICES ASSUME TypeOK, CountInv, Next,
                      phase = "started", phase' = "train", Resumes(job),
                      NEW p, p = Source(job), Restores(p)
               PROVE  sidecar[p].trained = adapter[p].trained
    BY DEF RestoredMatch
  <2>1. StartResumed
    BY DEF Next, Launch, StartFresh, Abort, Cleared, CleanStep, OverflowedStep,
           LoopEnds, OpenAdapter, CloseAdapter, OpenSidecar, CloseSidecar,
           AnnounceCheckpoint, Finish, CopyCheckpoint
  <2>2. p \in Paths
    BY JobType DEF TypeOK
  <2>3. adapter[p].state = "whole" /\ sidecar[p].state = "whole"
    BY <2>1 DEF StartResumed, Loads
  <2>4. adapter[p].recorded /\ sidecar[p].steps = adapter[p].steps
    BY <2>2, <2>3 DEF CountInv, HonestAdapters, Readable, Restores, Stale
  <2>5. /\ Counts(adapter[p].steps, adapter[p].trained)
        /\ Counts(sidecar[p].steps, sidecar[p].trained)
    BY <2>2, <2>3, <2>4
       DEF CountInv, HonestAdapters, HonestSidecars, Readable
  <2>6. QED
    BY <2>4, <2>5 DEF Counts
<1>2. QED
  BY <1>1, CountsAreKept, PTL DEF MomentsMatchStep, Spec

-----------------------------------------------------------------------------
(* The loss scale *)

LEMMA ScaleStep == TypeOK /\ ScaleInv /\ [Next]_vars => ScaleInv'
<1> SUFFICES ASSUME TypeOK, ScaleInv, [Next]_vars PROVE ScaleInv'
  OBVIOUS
<1> DEFINE Capped(s, n) == n >= GrowthInterval => s = MaxScale
<1>a. Capped(scale, streak) /\ \A p \in Paths :
        Capped(sidecar[p].scale, sidecar[p].streak)
  BY DEF ScaleInv
<1>b. SUFFICES /\ Capped(scale', streak')
               /\ \A p \in Paths : Capped(sidecar'[p].scale, sidecar'[p].streak)
  BY DEF ScaleInv
<1>c. \A s : Capped(s, 0)
  BY ScaleAssumption
<1> USE DEF disk, memory, loop
<1>1. CASE StartResumed
  <2>1. Source(job) \in Paths
    BY <1>1, JobType DEF StartResumed, TypeOK
  <2>2. CASE Restores(Source(job))
    BY <1>1, <1>a, <2>1, <2>2 DEF StartResumed
  <2>3. CASE ~Restores(Source(job))
    BY <1>1, <1>a, <2>3 DEF StartResumed
  <2>4. QED
    BY <2>2, <2>3
<1>2. CASE CleanStep
  <2>1. Capped(scale', streak')
    <3>1. CASE Grows
      BY <1>2, <1>c, <3>1 DEF CleanStep
    <3>2. CASE ~Grows
      BY <1>2, <3>2, ScaleAssumption DEF CleanStep, Grows, TypeOK
    <3>3. QED
      BY <3>1, <3>2
  <2>2. QED
    BY <1>2, <1>a, <2>1 DEF CleanStep, AfterStep
<1>3. CASE OverflowedStep
  BY <1>3, <1>a, <1>c DEF OverflowedStep, AfterStep
<1>4. CASE Abort \/ Finish
  BY <1>4, <1>a, <1>c DEF Abort, Finish, Cleared
<1>5. CASE OpenSidecar
  <2>1. PICK torn \in {[NoSidecar EXCEPT !.state = "headless"],
                       [Saved EXCEPT !.state = "cut"]} :
          sidecar' = [sidecar EXCEPT ![target] = torn]
    BY <1>5 DEF OpenSidecar
  <2>2. Capped(torn.scale, torn.streak)
    BY <1>a, <1>c DEF NoSidecar, Saved
  <2>3. QED
    BY <1>5, <1>a, <2>1, <2>2 DEF OpenSidecar, TypeOK
<1>6. CASE CloseSidecar
  <2>1. Capped(Saved.scale, Saved.streak)
    BY <1>a DEF Saved
  <2>2. QED
    BY <1>6, <1>a, <2>1 DEF CloseSidecar, TypeOK
<1>7. CASE Launch \/ StartFresh \/ LoopEnds \/ OpenAdapter \/ CloseAdapter
             \/ AnnounceCheckpoint \/ CopyCheckpoint \/ UNCHANGED vars
  BY <1>7, <1>a DEF Launch, StartFresh, LoopEnds, OpenAdapter, CloseAdapter,
                    AnnounceCheckpoint, CopyCheckpoint, vars
<1>8. QED
  BY <1>1, <1>2, <1>3, <1>4, <1>5, <1>6, <1>7 DEF Next

\* The scale is in range and its streak is only long at the ceiling.
THEOREM ScaleStaysInRange == Spec => []ScaleInRange
<1>1. Init => ScaleInv
  BY ScaleAssumption DEF Init, NoRun, ScaleInv, NoSidecar
<1>2. TypeOK /\ ScaleInv => ScaleInRange
  BY DEF TypeOK, ScaleInv, ScaleInRange
<1>3. QED
  BY <1>1, <1>2, TypeCorrect, ScaleStep, PTL DEF Spec

-----------------------------------------------------------------------------
(* What was announced *)

LEMMA DurableInit == Init => DurableInv
BY DEF Init, NoRun, NoSidecar, DurableInv, AnnouncedIsDurable, DurableAt,
       TornInv, WriteInv

\* While a write goes on, what it has written and will write does not change.
LEMMA WrittenIsConstant ==
  ASSUME UNCHANGED <<loop, target, memory>>
  PROVE  Exported' = Exported /\ Saved' = Saved
BY DEF loop, memory, Exported, Saved, StepsDone

\* A path whose two files stay as they are stays as durable as it was.
LEMMA StillDurable ==
  ASSUME NEW p \in Paths, DurableAt(p), p \in killed => p \in killed',
         adapter'[p] = adapter[p], sidecar'[p] = sidecar[p],
         announced'[p] = announced[p]
  PROVE  DurableAt(p)'
BY DEF DurableAt, Resumable, Unfinished, Loads, Restores, Stale

\* A sidecar is torn while its run writes it, and after that run was stopped.
LEMMA TornStep == TypeOK /\ TornInv /\ [Next]_vars => TornInv'
<1> SUFFICES ASSUME TypeOK, TornInv, [Next]_vars PROVE TornInv'
  OBVIOUS
<1> USE DEF disk, memory, loop, story, TornInv
<1>1. CASE Abort
  BY <1>1 DEF Abort, Cleared
<1>2. CASE OpenSidecar
  <2>1. /\ \A p \in Paths \ {target} : sidecar'[p] = sidecar[p]
        /\ phase = "save" /\ phase' = "saving"
        /\ target' = target /\ killed' = killed
    BY <1>2 DEF OpenSidecar, TypeOK
  <2>2. QED
    BY <2>1
<1>3. CASE CloseSidecar
  <2>1. /\ sidecar' = [sidecar EXCEPT ![target] = Saved]
        /\ killed' = killed \ {target}
    BY <1>3 DEF CloseSidecar
  <2>2. sidecar'[target].state = "whole"
    BY <2>1 DEF TypeOK, Saved
  <2>3. \A p \in Paths \ {target} :
          /\ sidecar'[p] = sidecar[p]
          /\ p \in killed => p \in killed'
    BY <2>1 DEF TypeOK
  <2>4. QED
    BY <2>2, <2>3
<1>4. CASE Launch \/ StartFresh \/ StartResumed \/ CleanStep \/ OverflowedStep
             \/ LoopEnds \/ OpenAdapter \/ CloseAdapter \/ AnnounceCheckpoint
             \/ Finish \/ CopyCheckpoint \/ UNCHANGED vars
  <2>1. (UNCHANGED <<sidecar, killed>> /\ phase # "saving") \/ UNCHANGED vars
    BY <1>4 DEF Launch, StartFresh, StartResumed, CleanStep, OverflowedStep,
                AfterStep, LoopEnds, OpenAdapter, CloseAdapter,
                AnnounceCheckpoint, Finish, CopyCheckpoint
  <2>2. QED
    BY <2>1 DEF vars
<1>5. QED
  BY <1>1, <1>2, <1>3, <1>4 DEF Next

LEMMA DurableStep == TypeOK /\ DurableInv /\ [Next]_vars => DurableInv'
<1> SUFFICES ASSUME TypeOK, DurableInv, [Next]_vars PROVE DurableInv'
  OBVIOUS
<1> USE DEF disk, memory, loop, story
<1>a. AnnouncedIsDurable /\ TornInv /\ WriteInv
  BY DEF DurableInv
<1>b. target \in Paths
  BY DEF TypeOK
<1>c. ASSUME \A p \in Paths :
               \/ announced'[p] = "no"
               \/ /\ adapter'[p] = adapter[p]
                  /\ sidecar'[p] = sidecar[p]
                  /\ announced'[p] = announced[p]
                  /\ p \in killed => p \in killed'
      PROVE  AnnouncedIsDurable'
  <2> SUFFICES ASSUME NEW p \in Paths PROVE DurableAt(p)'
    BY DEF AnnouncedIsDurable
  <2>1. CASE announced'[p] = "no"
    BY <2>1 DEF DurableAt
  <2>2. CASE announced'[p] # "no"
    <3>1. DurableAt(p)
      BY <1>a DEF AnnouncedIsDurable
    <3>2. QED
      BY <1>c, <2>2, <3>1, StillDurable
  <2>3. QED
    BY <2>1, <2>2
<1>d. TornInv'
  BY <1>a, TornStep
<1>1. CASE Launch \/ StartFresh \/ StartResumed \/ Abort \/ CleanStep
             \/ OverflowedStep \/ LoopEnds
  <2>1. UNCHANGED <<adapter, sidecar, announced>> /\ killed \subseteq killed'
    BY <1>1 DEF Launch, StartFresh, StartResumed, Abort, CleanStep,
                OverflowedStep, AfterStep, LoopEnds
  <2>2. phase' \in {"idle", "started", "train", "export"}
    BY <1>1 DEF Launch, StartFresh, StartResumed, Abort, Cleared, CleanStep,
                OverflowedStep, AfterStep, LoopEnds
  <2>3. AnnouncedIsDurable'
    BY <1>c, <2>1
  <2>4. WriteInv'
    BY <2>2 DEF WriteInv
  <2>5. QED
    BY <1>d, <2>3, <2>4 DEF DurableInv
<1>2. CASE OpenAdapter
  <2>1. /\ announced' = [announced EXCEPT ![target] = "no"]
        /\ phase' = "exporting" /\ target' = target /\ sidecar' = sidecar
        /\ killed' = killed
        /\ \A p \in Paths \ {target} : adapter'[p] = adapter[p]
    BY <1>2 DEF OpenAdapter, TypeOK
  <2>2. AnnouncedIsDurable'
    BY <1>c, <2>1 DEF TypeOK
  <2>3. WriteInv'
    BY <1>b, <2>1 DEF WriteInv, TypeOK
  <2>4. QED
    BY <1>d, <2>2, <2>3 DEF DurableInv
<1>3. CASE CloseAdapter
  <2>1. announced[target] = "no" /\ announced' = announced /\ killed' = killed
    BY <1>3, <1>a DEF CloseAdapter, WriteInv
  <2>2. AnnouncedIsDurable'
    <3>1. sidecar' = sidecar /\ adapter' = [adapter EXCEPT ![target] = Exported]
      BY <1>3 DEF CloseAdapter
    <3>2. QED
      BY <1>c, <2>1, <3>1 DEF TypeOK
  <2>3. Exported' = Exported
    BY <1>3, WrittenIsConstant DEF CloseAdapter
  <2>4. adapter'[target'] = Exported'
    BY <1>3, <1>b, <2>3 DEF CloseAdapter, TypeOK
  <2>5. WriteInv'
    BY <1>3, <2>1, <2>4 DEF CloseAdapter, AfterExport, WriteInv
  <2>6. QED
    BY <1>d, <2>2, <2>5 DEF DurableInv
<1>4. CASE OpenSidecar
  <2>1. /\ announced[target] = "no" /\ announced' = announced
        /\ adapter[target] = Exported /\ moments # Nothing
    BY <1>4, <1>a DEF OpenSidecar, WriteInv
  <2>2. /\ adapter' = adapter /\ phase' = "saving"
        /\ target' = target /\ moments' = moments /\ killed' = killed
        /\ \A p \in Paths \ {target} : sidecar'[p] = sidecar[p]
    BY <1>4 DEF OpenSidecar, TypeOK
  <2>3. AnnouncedIsDurable'
    BY <1>c, <2>1, <2>2
  <2>4. Exported' = Exported
    BY <1>4, WrittenIsConstant DEF OpenSidecar
  <2>5. WriteInv'
    BY <2>1, <2>2, <2>4 DEF WriteInv
  <2>6. QED
    BY <1>d, <2>3, <2>5 DEF DurableInv
<1>5. CASE CloseSidecar
  <2>1. /\ announced[target] = "no" /\ announced' = announced
        /\ adapter[target] = Exported
    BY <1>5, <1>a DEF CloseSidecar, WriteInv
  <2>2. /\ adapter' = adapter /\ phase' = "announce"
        /\ target' = target /\ moments' = moments
        /\ sidecar' = [sidecar EXCEPT ![target] = Saved]
        /\ killed' = killed \ {target}
    BY <1>5 DEF CloseSidecar
  <2>3. AnnouncedIsDurable'
    BY <1>c, <2>1, <2>2 DEF TypeOK
  <2>4. Exported' = Exported /\ Saved' = Saved
    BY <1>5, WrittenIsConstant DEF CloseSidecar
  <2>5. sidecar'[target] = Saved
    BY <1>b, <2>2 DEF TypeOK
  <2>6. WriteInv'
    BY <2>1, <2>2, <2>4, <2>5 DEF WriteInv
  <2>7. QED
    BY <1>d, <2>3, <2>6 DEF DurableInv
<1>6. CASE AnnounceCheckpoint \/ Finish
  <2>1. /\ phase = "announce"
        /\ announced' = Announced
        /\ adapter' = adapter /\ sidecar' = sidecar
        /\ phase' \in {"train", "idle"} /\ killed' = killed
    BY <1>6 DEF AnnounceCheckpoint, Finish, Cleared
  <2>2. WriteInv'
    BY <2>1 DEF WriteInv
  <2>3. /\ adapter[target] = Exported
        /\ moments # Nothing => sidecar[target] = Saved
    BY <1>a, <2>1 DEF WriteInv
  <2>4. ASSUME NEW p \in Paths, p # target PROVE DurableAt(p)'
    BY <1>a, <2>1, <2>4, StillDurable DEF Announced, TypeOK, AnnouncedIsDurable
  <2>5. ASSUME NEW p \in Paths, p = target PROVE DurableAt(p)'
    <3>1. /\ adapter'[p] = Exported /\ sidecar'[p] = sidecar[p]
          /\ p \in killed => p \in killed'
          /\ moments # Nothing => sidecar[p] = Saved
      BY <2>1, <2>3, <2>5
    <3>2. Exported.state = "whole" /\ Exported.trained = trained
      BY DEF Exported
    <3>3. Saved.state = "whole" /\ Saved.trained = trained
      BY DEF Saved
    <3>4. Exported.recorded => Exported.steps = Saved.steps
      BY DEF Exported, Saved
    <3>5. p = Final => ~Unfinished(p)'
      <4>1. job.embed \in BOOLEAN
        BY <2>1, JobType DEF TypeOK
      <4>2. QED
        BY <2>5, <3>1, <4>1 DEF Exported, Unfinished
    <3>6. announced'[p] = "full" => moments # Nothing
      BY <1>b, <2>1, <2>5 DEF Announced, TypeOK
    <3>7. moments # Nothing =>
            /\ Resumable(p)' /\ Restores(p)'
            /\ sidecar'[p].trained = adapter'[p].trained
      BY <3>1, <3>2, <3>3, <3>4, <3>5 DEF Resumable, Loads, Restores, Stale
    <3>8. moments = Nothing /\ p \notin killed => Resumable(p)'
      <4>1. p \notin killed => sidecar[p].state \notin {"headless", "cut"}
        BY <1>a, <2>1 DEF TornInv
      <4>2. sidecar[p].state \in FileStates
        BY DEF TypeOK, Sidecars
      <4>3. QED
        BY <3>1, <3>2, <3>5, <4>1, <4>2
           DEF Resumable, Loads, Restores, FileStates
    <3>9. QED
      BY <2>1, <3>1, <3>2, <3>6, <3>7, <3>8 DEF DurableAt
  <2>6. AnnouncedIsDurable'
    BY <2>4, <2>5 DEF AnnouncedIsDurable
  <2>7. QED
    BY <1>d, <2>2, <2>6 DEF DurableInv
<1>7. CASE CopyCheckpoint
  <2>1. /\ announced' = [announced EXCEPT ![Final] = "no"]
        /\ sidecar' = sidecar /\ phase' = phase /\ killed' = killed
        /\ phase \in {"idle", "started"}
        /\ \A p \in Paths \ {Final} : adapter'[p] = adapter[p]
    BY <1>7 DEF CopyCheckpoint, TypeOK
  <2>2. AnnouncedIsDurable'
    BY <1>c, <2>1 DEF TypeOK
  <2>3. WriteInv'
    BY <2>1 DEF WriteInv
  <2>4. QED
    BY <1>d, <2>2, <2>3 DEF DurableInv
<1>8. CASE UNCHANGED vars
  <2>1. UNCHANGED <<loop, target, memory>>
    BY <1>8 DEF vars
  <2>2. Exported' = Exported /\ Saved' = Saved
    BY <2>1, WrittenIsConstant
  <2>3. AnnouncedIsDurable'
    BY <1>8, <1>c DEF vars
  <2>4. WriteInv'
    BY <1>8, <1>a, <2>2 DEF vars, WriteInv
  <2>5. QED
    BY <1>d, <2>3, <2>4 DEF DurableInv
<1>9. QED
  BY <1>1, <1>2, <1>3, <1>4, <1>5, <1>6, <1>7, <1>8 DEF Next

\* Whatever crashes, and until a later run starts to overwrite it, an announced
\* artifact stays whole and resumable, with the moments saved with it; the one
\* exception is an artifact announced without moments at a path where a run was
\* stopped inside the write of the sidecar and no run wrote it whole since.
THEOREM AnnouncementsAreDurable == Spec => []AnnouncedIsDurable
<1>1. DurableInv => AnnouncedIsDurable
  BY DEF DurableInv
<1>2. QED
  BY <1>1, TypeCorrect, DurableInit, DurableStep, PTL DEF Spec
=============================================================================
