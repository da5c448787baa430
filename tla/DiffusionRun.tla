---------------------------- MODULE DiffusionRun ----------------------------
(***************************************************************************)
(* Training runs that resume one another through the output directory      *)
(* (crates/loractl-core/src/resume.rs and the step loop of                 *)
(* diffusion_trainer.rs).                                                  *)
(*                                                                         *)
(* A run leaves behind adapter artifacts (the final export and one         *)
(* checkpoint-N per checkpoint) and, beside each, an optimizer sidecar.    *)
(* Both are written in place, so a process that dies leaves a torn file,   *)
(* and dies between the two writes leaves a new adapter beside an old      *)
(* sidecar.  The next run decides from the headers alone what to restore.  *)
(*                                                                         *)
(* Tensors are abstracted to their identity: the weights after the k-th    *)
(* update of run r are [run |-> r, update |-> k].  A file that was cut     *)
(* short is refused by the parser.  Everything of a run before the resume  *)
(* (encoding, loading) is the wait between Launch and StartFresh or        *)
(* StartResumed; every bail! and every kill is Abort, for both leave the   *)
(* disk as it is.  One run at a time uses the directory.                   *)
(***************************************************************************)
EXTENDS Naturals

CONSTANTS
  MaxTotal,      \* bound: the largest `steps` of a run
  MaxRuns,       \* bound: runs ever launched
  MaxCopies,     \* bound: checkpoints the operator copies over the final path
  MaxSkips,      \* bound: updates skipped for overflowed gradients
  Everys,        \* values of output.checkpoint_every
  Embeds,        \* values of metadata.embed
  InitialScale,  \* INITIAL_LOSS_SCALE
  MaxScale,      \* MAX_LOSS_SCALE
  GrowthInterval,\* SCALE_GROWTH_INTERVAL
  NoJob          \* the configuration while no run is alive

ASSUME BoundsAssumption ==
  /\ MaxTotal \in Nat
  /\ MaxRuns \in Nat
  /\ MaxCopies \in Nat
  /\ MaxSkips \in Nat
  /\ Everys \subseteq Nat \ {0}
  /\ Embeds \subseteq BOOLEAN

ASSUME ScaleAssumption ==
  /\ MaxScale \in Nat \ {0}
  /\ InitialScale \in 1 .. MaxScale
  /\ GrowthInterval \in Nat \ {0}

\* output.dir: path n is checkpoint-n.safetensors, path 0 the final export.
Final  == 0
Paths  == 0 .. MaxTotal
NoPath == MaxTotal + 1

FileStates == {"absent", "headless", "cut", "whole"}

\* The identity of a set of weights, and of the moments that go with them.
Versions == [run : Nat, update : Nat]
Nothing  == [run |-> 0, update |-> 0]

\* `trained` is history: the loop iterations behind the file.
Adapters ==
  [state : FileStates, recorded : BOOLEAN, steps : Nat, finished : BOOLEAN,
   weights : Versions, trained : Nat]

Sidecars ==
  [state : FileStates, steps : Nat, scale : 1 .. MaxScale, streak : Nat,
   moments : Versions, trained : Nat]

NoAdapter ==
  [state |-> "absent", recorded |-> FALSE, steps |-> 0, finished |-> FALSE,
   weights |-> Nothing, trained |-> 0]

NoSidecar ==
  [state |-> "absent", steps |-> 0, scale |-> InitialScale, streak |-> 0,
   moments |-> Nothing, trained |-> 0]

\* resume.{from, auto, allow_unfinished}, steps, checkpoint_every, embed;
\* the last two resume flags are not consulted when `from` is set.
Jobs ==
  {j \in [from : Paths \cup {NoPath}, auto : BOOLEAN, allow : BOOLEAN,
          total : 1 .. MaxTotal, every : Everys, embed : Embeds] :
     j.from # NoPath => j.auto /\ ~j.allow}

VARIABLES
  adapter,    \* the adapter artifact at each path
  sidecar,    \* the optimizer sidecar beside it
  phase,      \* where the current run is
  job,        \* its configuration
  start,      \* start_step
  step,       \* the next step of the loop
  target,     \* the path the run exports to (NoPath before the resume)
  weights,    \* the adapter factors in memory
  moments,    \* the optimizer's moments in memory (Nothing: cold)
  scale,      \* loss_scale
  streak,     \* clean_streak
  trained,    \* history: loop iterations behind `weights`
  announced,  \* history: what the files at a path were announced with
  killed,     \* history: where a run stopped inside the write of a sidecar
              \* that no later run has written whole
  runs, copies, skips  \* bounded counters

disk   == <<adapter, sidecar>>
memory == <<weights, moments, scale, streak, trained>>
loop   == <<job, start, step>>
counts == <<runs, copies, skips>>
story  == <<announced, killed>>
vars   == <<disk, phase, loop, target, memory, story, counts>>

-----------------------------------------------------------------------------
Phases ==
  {"idle", "started", "train", "export", "exporting",
   "save", "saving", "announce"}

TypeOK ==
  /\ adapter \in [Paths -> Adapters]
  /\ sidecar \in [Paths -> Sidecars]
  /\ phase \in Phases
  /\ phase = "idle" => job = NoJob
  /\ phase # "idle" => job \in Jobs
  /\ start \in Nat \ {0}
  /\ step \in Nat \ {0}
  /\ target \in Paths
  /\ weights \in Versions
  /\ moments \in Versions
  /\ scale \in 1 .. MaxScale
  /\ streak \in Nat
  /\ trained \in Nat
  /\ announced \in [Paths -> {"no", "weights", "full"}]
  /\ killed \subseteq Paths
  /\ runs \in 0 .. MaxRuns
  /\ copies \in 0 .. MaxCopies
  /\ skips \in 0 .. MaxSkips

NoRun ==
  /\ phase = "idle"
  /\ job = NoJob
  /\ start = 1
  /\ step = 1
  /\ target = Final
  /\ weights = Nothing
  /\ moments = Nothing
  /\ scale = InitialScale
  /\ streak = 0
  /\ trained = 0

Init ==
  /\ adapter = [p \in Paths |-> NoAdapter]
  /\ sidecar = [p \in Paths |-> NoSidecar]
  /\ NoRun
  /\ announced = [p \in Paths |-> "no"]
  /\ killed = {}
  /\ runs = 0
  /\ copies = 0
  /\ skips = 0

-----------------------------------------------------------------------------
(* plan_resume *)

Readable(p) == adapter[p].state \in {"cut", "whole"}

Source(j) == IF j.from = NoPath THEN Final ELSE j.from

\* `auto` resumes what it finds; `from` must find what it names.
Resumes(j) ==
  \/ j.from # NoPath
  \/ j.auto /\ adapter[Final].state # "absent"

Unfinished(p) == adapter[p].recorded /\ ~adapter[p].finished

PlanFails(j) ==
  /\ Resumes(j)
  /\ \/ ~Readable(Source(j))
     \/ j.from = NoPath /\ ~j.allow /\ Unfinished(Final)

\* A sidecar is skipped when both headers are readable and record different
\* step counts.
NeverStale(p) == FALSE

Stale(p) ==
  /\ adapter[p].recorded
  /\ sidecar[p].state # "headless"
  /\ sidecar[p].steps # adapter[p].steps

Restores(p) == sidecar[p].state # "absent" /\ ~Stale(p)

Loads(p) ==
  /\ adapter[p].state = "whole"
  /\ Restores(p) => sidecar[p].state = "whole"

StepsOf(p) == IF adapter[p].recorded THEN adapter[p].steps ELSE 0

StartFromOne(p) == 1

StartStep(p) == StepsOf(p) + 1

-----------------------------------------------------------------------------
(* A run, up to its first step *)

\* train() resolves the plan once before anything expensive, to fail fast.
Launch ==
  /\ phase = "idle"
  /\ runs < MaxRuns
  /\ \E j \in Jobs :
       /\ ~PlanFails(j)
       /\ job' = j
  /\ phase' = "started"
  /\ runs' = runs + 1
  /\ UNCHANGED <<disk, start, step, target, memory, story, copies, skips>>

\* The plan that counts is made after the model is loaded.
StartFresh ==
  /\ phase = "started"
  /\ ~Resumes(job)
  /\ phase' = "train"
  /\ weights' = [run |-> runs, update |-> 0]
  /\ UNCHANGED <<disk, job, start, step, target, moments, scale, streak,
                 trained, story, counts>>

StartResumed ==
  /\ phase = "started"
  /\ Resumes(job)
  /\ ~PlanFails(job)
  /\ LET p == Source(job) IN
       /\ Loads(p)
       /\ start' = StartStep(p)
       /\ step' = StartStep(p)
       /\ weights' = adapter[p].weights
       /\ trained' = adapter[p].trained
       /\ IF Restores(p)
          THEN /\ moments' = sidecar[p].moments
               /\ scale' = sidecar[p].scale
               /\ streak' = sidecar[p].streak
          ELSE UNCHANGED <<moments, scale, streak>>
  /\ phase' = "train"
  /\ UNCHANGED <<disk, job, target, story, counts>>

\* The end of a run, however it comes: nothing of it stays in memory.
Cleared ==
  /\ phase' = "idle"
  /\ job' = NoJob
  /\ start' = 1
  /\ step' = 1
  /\ target' = Final
  /\ weights' = Nothing
  /\ moments' = Nothing
  /\ scale' = InitialScale
  /\ streak' = 0
  /\ trained' = 0

\* bail!, a panic or a kill, at any point; a source that does not load or a
\* plan that is refused leaves no other way on.
Abort ==
  /\ phase # "idle"
  /\ Cleared
  /\ killed' = IF phase = "saving" THEN killed \cup {target} ELSE killed
  /\ UNCHANGED <<disk, announced, counts>>

-----------------------------------------------------------------------------
(* The step loop *)

\* The dynamic loss scale after a clean and after an overflowed step.
Grows == streak + 1 >= GrowthInterval /\ scale < MaxScale

Doubled == IF 2 * scale < MaxScale THEN 2 * scale ELSE MaxScale

Halved == IF scale \div 2 > 1 THEN scale \div 2 ELSE 1

\* The last step's artifact is the final export, not a checkpoint.
CheckpointDue == step % job.every = 0 /\ step # job.total

AfterStep ==
  /\ trained' = trained + 1
  /\ IF CheckpointDue
     THEN phase' = "export" /\ target' = step /\ step' = step
     ELSE phase' = phase /\ target' = target /\ step' = step + 1
  /\ UNCHANGED <<disk, job, start, story, runs, copies>>

CleanStep ==
  /\ phase = "train"
  /\ step <= job.total
  /\ weights' = [run |-> runs,
                 update |-> IF weights.run = runs THEN weights.update + 1
                                                  ELSE 1]
  /\ moments' = weights'
  /\ scale' = IF Grows THEN Doubled ELSE scale
  /\ streak' = IF Grows THEN 0 ELSE streak + 1
  /\ AfterStep
  /\ UNCHANGED skips

\* Overflowed gradients: the update is skipped and the step still counts.
OverflowedStep ==
  /\ phase = "train"
  /\ step <= job.total
  /\ skips < MaxSkips
  /\ skips' = skips + 1
  /\ scale' = Halved
  /\ streak' = 0
  /\ AfterStep
  /\ UNCHANGED <<weights, moments>>

LoopEnds ==
  /\ phase = "train"
  /\ step > job.total
  /\ phase' = "export"
  /\ target' = Final
  /\ UNCHANGED <<disk, loop, memory, story, counts>>

-----------------------------------------------------------------------------
(* export_adapters, save_optimizer_state, and the event *)

\* The final header never claims fewer steps than its source did.
StepAfterLoop == step

TotalOnly == IF target = Final THEN job.total ELSE step

StepsDone ==
  IF target # Final THEN step
  ELSE IF job.total > start - 1 THEN job.total
  ELSE start - 1

Exported ==
  [state    |-> "whole",
   recorded |-> job.embed,
   steps    |-> IF job.embed THEN StepsDone ELSE 0,
   finished |-> job.embed /\ target = Final,
   weights  |-> weights,
   trained  |-> trained]

Saved ==
  [state   |-> "whole",
   steps   |-> StepsDone,
   scale   |-> scale,
   streak  |-> streak,
   moments |-> moments,
   trained |-> trained]

\* In place: the old file is gone, the new one is not there yet.
OpenAdapter ==
  /\ phase = "export"
  /\ \E torn \in {[NoAdapter EXCEPT !.state = "headless"],
                  [Exported EXCEPT !.state = "cut"]} :
       adapter' = [adapter EXCEPT ![target] = torn]
  /\ phase' = "exporting"
  /\ announced' = [announced EXCEPT ![target] = "no"]
  /\ UNCHANGED <<sidecar, loop, target, memory, killed, counts>>

\* With no moments nothing is written, and whatever sidecar is there stays.
AnnounceAtOnce == "announce"

AfterExport == IF moments = Nothing THEN "announce" ELSE "save"

CloseAdapter ==
  /\ phase = "exporting"
  /\ adapter' = [adapter EXCEPT ![target] = Exported]
  /\ phase' = AfterExport
  /\ UNCHANGED <<sidecar, loop, target, memory, story, counts>>

OpenSidecar ==
  /\ phase = "save"
  /\ \E torn \in {[NoSidecar EXCEPT !.state = "headless"],
                  [Saved EXCEPT !.state = "cut"]} :
       sidecar' = [sidecar EXCEPT ![target] = torn]
  /\ phase' = "saving"
  /\ UNCHANGED <<adapter, loop, target, memory, story, counts>>

CloseSidecar ==
  /\ phase = "saving"
  /\ sidecar' = [sidecar EXCEPT ![target] = Saved]
  /\ phase' = "announce"
  /\ killed' = killed \ {target}
  /\ UNCHANGED <<adapter, loop, target, memory, announced, counts>>

Announced ==
  [announced EXCEPT ![target] = IF moments = Nothing THEN "weights" ELSE "full"]

AnnounceCheckpoint ==
  /\ phase = "announce"
  /\ target # Final
  /\ announced' = Announced
  /\ phase' = "train"
  /\ target' = Final
  /\ step' = step + 1
  /\ UNCHANGED <<disk, job, start, memory, killed, counts>>

Finish ==
  /\ phase = "announce"
  /\ target = Final
  /\ announced' = Announced
  /\ Cleared
  /\ UNCHANGED <<disk, killed, counts>>

-----------------------------------------------------------------------------
\* The recovery workflow of ADR-0012: a checkpoint is copied over the final
\* export, without its sidecar.
CopyCheckpoint ==
  /\ phase \in {"idle", "started"}
  /\ copies < MaxCopies
  /\ \E p \in Paths \ {Final} :
       /\ adapter[p].state = "whole"
       /\ adapter' = [adapter EXCEPT ![Final] = adapter[p]]
  /\ announced' = [announced EXCEPT ![Final] = "no"]
  /\ copies' = copies + 1
  /\ UNCHANGED <<sidecar, phase, loop, target, memory, killed, runs, skips>>

Next ==
  \/ Launch \/ StartFresh \/ StartResumed \/ Abort
  \/ CleanStep \/ OverflowedStep \/ LoopEnds
  \/ OpenAdapter \/ CloseAdapter \/ OpenSidecar \/ CloseSidecar
  \/ AnnounceCheckpoint \/ Finish
  \/ CopyCheckpoint

Spec == Init /\ [][Next]_vars

-----------------------------------------------------------------------------
(* Properties *)

AlwaysEmbedded == Embeds = {TRUE}

\* The step a run is about to take is the number of steps its weights have
\* already been through, plus one, over any chain of crashes and resumes: the
\* batch cursor, the learning-rate curve and the caption dropout are functions
\* of that number.
StepIsPosition ==
  AlwaysEmbedded /\ phase = "train" => step = trained + 1

\* A recorded number of steps against the actual one.
Counts(claimed, actual) ==
  /\ claimed <= actual
  /\ AlwaysEmbedded => claimed = actual

\* A header never claims a step count its weights have not been through,
\* whichever run wrote it and whatever it resumed from; with the metadata
\* always embedded the count is exact.
HeaderIsHonest ==
  \A p \in Paths :
    Readable(p) /\ adapter[p].recorded =>
      Counts(adapter[p].steps, adapter[p].trained)

RestoredMatch ==
  phase = "started" /\ phase' = "train" /\ Resumes(job) =>
    LET p == Source(job)
    IN  Restores(p) => sidecar[p].trained = adapter[p].trained

\* Restored moments were saved after as many steps as the weights they are
\* paired with, checkpoints copied over the final export included.
MomentsMatchStep == [][RestoredMatch]_vars

\* A run that resumes from p is not refused and reads both of its files.
Resumable(p) ==
  /\ Loads(p)
  /\ p = Final => ~Unfinished(p)

DurableAt(p) ==
  /\ announced[p] # "no" => adapter[p].state = "whole"
  /\ announced[p] # "no" /\ p \notin killed => Resumable(p)
  /\ announced[p] = "full" =>
       /\ Resumable(p)
       /\ Restores(p)
       /\ sidecar[p].trained = adapter[p].trained

\* Until it is overwritten, what a Checkpoint or Finished event announced is a
\* whole adapter; announced with moments it can be resumed and gives them
\* back.  Announced without moments it can be resumed as well, unless a run
\* once stopped inside the write of the sidecar at that path and no later run
\* wrote that sidecar whole: a run without moments leaves the torn sidecar
\* where it is, and a resume that cannot read it bails.
AnnouncedIsDurable == \A p \in Paths : DurableAt(p)

\* The scale stays in its range over overflows, growth and restores, and a
\* streak that has reached the interval means the scale is at its ceiling.
ScaleInRange ==
  /\ scale \in 1 .. MaxScale
  /\ streak >= GrowthInterval => scale = MaxScale

\* Moments that are restored belong to the weights they are restored with.
MomentsBelong == moments # Nothing => moments = weights

-----------------------------------------------------------------------------
(* The invariant behind the counts: what the headers, the loop and a write   *)
(* in progress claim about the steps that were taken.                        *)

HonestAdapters ==
  \A p \in Paths : Readable(p) =>
    /\ AlwaysEmbedded => adapter[p].recorded
    /\ adapter[p].recorded => Counts(adapter[p].steps, adapter[p].trained)

HonestSidecars ==
  \A p \in Paths : sidecar[p].state \in {"cut", "whole"} =>
    Counts(sidecar[p].steps, sidecar[p].trained)

Writing == phase \in {"export", "exporting", "save", "saving", "announce"}

LoopInv ==
  /\ phase \in {"idle", "started"} =>
       start = 1 /\ step = 1 /\ trained = 0 /\ target = Final
  /\ phase = "train" =>
       /\ target = Final
       /\ start <= step
       /\ Counts(step, trained + 1)
       /\ step <= job.total + 1 \/ step = start
  /\ Writing =>
       /\ Counts(StepsDone, trained)
       /\ target # Final => target = step /\ start <= step /\ step <= job.total

CountInv == HonestAdapters /\ HonestSidecars /\ LoopInv

\* The invariant behind the loss scale: saved scales are in range as well.
ScaleInv ==
  /\ streak >= GrowthInterval => scale = MaxScale
  /\ \A p \in Paths :
       sidecar[p].streak >= GrowthInterval => sidecar[p].scale = MaxScale

\* The invariant behind the announcements: a torn sidecar is being written or
\* its run was stopped, what a write in progress has already put on disk, and
\* that its path is not announced meanwhile.
TornInv ==
  \A p \in Paths : sidecar[p].state \in {"headless", "cut"} =>
    \/ p \in killed
    \/ phase = "saving" /\ target = p

WriteInv ==
  /\ phase \in {"exporting", "save", "saving", "announce"} =>
       announced[target] = "no"
  /\ phase \in {"save", "saving", "announce"} => adapter[target] = Exported
  /\ phase \in {"save", "saving"} => moments # Nothing
  /\ phase = "announce" /\ moments # Nothing => sidecar[target] = Saved

DurableInv == AnnouncedIsDurable /\ TornInv /\ WriteInv
=============================================================================
