---------------------------- MODULE TrainEvents ----------------------------
(***************************************************************************)
(* What a training run emits, in order, and what the surfaces behind the   *)
(* sink make of it: DiffusionTrainer (crates/loractl-core/src/             *)
(* diffusion_trainer.rs) and BurnTrainer (burn_trainer.rs), chosen by      *)
(* select_trainer (train.rs).                                              *)
(*                                                                         *)
(* Every event is a step of its own, with the surfaces of EventSink.  The  *)
(* work between events is abstracted, except for what decides which events *)
(* are sent and for the files written in the step loop.  A failure at any  *)
(* point (a bail!, a panic) is Fail: nothing more is emitted by the        *)
(* trainer.  What the files hold, and the steps a resume starts from, is   *)
(* DiffusionRun's; the cache pass is LatentCache's.                        *)
(***************************************************************************)
EXTENDS EventSink

CONSTANTS
  Diffusions,  \* the configurations of a DiffusionTrainer to consider
  Demos        \* the configurations of a BurnTrainer

DiffusionJobs ==
  [trainer : {"diffusion"},
   examples : Nat \ {0},             \* entries of the dataset
   cached : SUBSET BOOLEAN \ {{}},   \* hits, misses, or both
   sites : Nat,                      \* base linears to quantize, 0: no quant
   merge : BOOLEAN,                  \* model.training_adapter is set
   first : Nat \ {0},                \* start_step, 1 without a resume
   total : Nat \ {0}, every : Nat \ {0}]

DemoJobs ==
  [trainer : {"demo"}, mnist : BOOLEAN, flow : BOOLEAN,
   total : Nat \ {0}, every : Nat \ {0}, sample : Nat]

ASSUME JobsAssumption ==
  /\ Diffusions \subseteq DiffusionJobs
  /\ Demos \subseteq DemoJobs
  /\ \A j \in Diffusions : j.sites > 0 => ~j.merge
  /\ \A j \in Demos : j.mnist => ~j.flow

VARIABLES
  job,     \* the configuration
  pc,      \* where the trainer is
  item,    \* the entry or site a counted loop is at
  loaded,  \* the encoders loaded by the encode phase
  step     \* the loop variable

runVars == <<job, pc, item, loaded, step>>
vars == <<runVars, sinkVars>>

---------------------------------------------------------------------------
\* emit_every: the throttle of a counted phase.

\* Mutant: truncating division.
TruncatedStride(total) == IF total < 100 THEN 1 ELSE total \div 100

Stride(total) == IF total = 0 THEN 1 ELSE (total + 99) \div 100

EmitEvery(done, total) == done % Stride(total) = 0 \/ done + 1 >= total

\* Report one item of a counted loop, if it is due.
Report(name, detail, total) ==
  IF EmitEvery(item, total) THEN Emit(Counted(name, detail, item, total))
  ELSE Quiet

---------------------------------------------------------------------------

Init ==
  /\ job \in Diffusions \cup Demos
  /\ pc = "idle"
  /\ item = 0
  /\ loaded = {}
  /\ step = 0
  /\ SinkInit

Goto(from, to) == pc = from /\ pc' = to /\ UNCHANGED job

\* A step of the trainer that only emits.
Announce(from, to, e) ==
  Goto(from, to) /\ Emit(e) /\ UNCHANGED <<item, loaded, step>>

\* An advisory that may or may not be due.
Advise(from, to) ==
  /\ Goto(from, to)
  /\ Emit(Warning) \/ Quiet
  /\ UNCHANGED <<item, loaded, step>>

Start == Announce("idle", "started", Started)

\* --- encode_phase --------------------------------------------------------

Preflight == Advise("started", "advised")

Scan == Announce("advised", "encoding", Phase("encode", "scanning"))

\* The progress callback, before the entry is worked on.  `hit` is what two
\* stats say at that moment: it decides the report and nothing else.
ReportEntry ==
  /\ Goto("encoding", "latent")
  /\ item < job.examples
  /\ \E hit \in job.cached :
       IF hit THEN Report("encode", "cached", job.examples)
       ELSE Emit(Counted("encode", "encoding", item, job.examples))
  /\ UNCHANGED <<item, loaded, step>>

\* Each encoder is loaded by the first entry that needs it.
Load(encoder) ==
  /\ encoder \notin loaded
  /\ loaded' = loaded \cup {encoder}
  /\ Emit(Phase("load", encoder))
  /\ UNCHANGED <<item, step>>

Latent ==
  /\ Goto("latent", "caption")
  /\ Load("vae") \/ (Quiet /\ UNCHANGED <<item, loaded, step>>)

Caption ==
  /\ Goto("caption", "encoding")
  /\ item' = item + 1
  /\ UNCHANGED <<loaded, step>>
  /\ Quiet

\* For the caption of an entry, or for the empty caption after the last one.
LoadForCaption ==
  /\ \/ pc = "caption"
     \/ pc = "encoding" /\ item = job.examples
  /\ Load("text encoder")
  /\ UNCHANGED <<job, pc>>

\* Mutant: the closing report counts what this pass encoded, none of it here.
ReportEncoded ==
  /\ Goto("encoding", "encoded")
  /\ item = job.examples
  /\ Emit(Counted("encode", "ready", 0, job.examples))
  /\ UNCHANGED <<item, loaded, step>>

CacheReady ==
  /\ Goto("encoding", "encoded")
  /\ item = job.examples
  /\ Emit(Counted("encode", "ready", job.examples, job.examples))
  /\ UNCHANGED <<item, loaded, step>>

\* dispatch_checkpointing
Dispatch ==
  /\ Goto("encoded", "planning")
  /\ item' = 0
  /\ Emit(Warning) \/ Quiet
  /\ UNCHANGED <<loaded, step>>

\* --- run_diffusion, before the step loop ----------------------------------

PlanEntry ==
  /\ Goto("planning", "planning")
  /\ item < job.examples
  /\ Report("dataset", "cached", job.examples)
  /\ item' = item + 1
  /\ UNCHANGED <<loaded, step>>

Summarize ==
  /\ item = job.examples
  /\ Announce("planning", "planned", Phase("dataset", "summary"))

LoadDenoiser ==
  Announce("planned", IF job.sites > 0 THEN "skeleton" ELSE "loaded",
           Phase("load", "mmdit"))

Skeleton ==
  /\ Goto("skeleton", "quantizing")
  /\ item' = 0
  /\ Emit(Phase("quantize", "skeleton"))
  /\ UNCHANGED <<loaded, step>>

QuantizeSite ==
  /\ Goto("quantizing", "quantizing")
  /\ item < job.sites
  /\ Report("quantize", "site", job.sites)
  /\ item' = item + 1
  /\ UNCHANGED <<loaded, step>>

\* Mutant: the loop's own reports only.
NoClosingReport ==
  /\ item = job.sites
  /\ Goto("quantizing", "quantized")
  /\ Quiet
  /\ UNCHANGED <<item, loaded, step>>

CloseQuantize ==
  /\ item = job.sites
  /\ Announce("quantizing", "quantized",
              Counted("quantize", "site", job.sites, job.sites))

\* The accounting, then the note on row chunks.
Account    == Announce("quantized", "accounted", Warning)
NoteChunks == Advise("accounted", "loaded")

Merge ==
  /\ job.merge
  /\ Announce("loaded", "merging", Phase("merge", "adapter"))

NoteScaling == Advise("merging", "scaled")
Merged      == Announce("scaled", "merged", Warning)

Inject ==
  /\ pc = "loaded" => ~job.merge
  /\ \E from \in {"loaded", "merged"} :
       Announce(from, "injected", Phase("inject", "sites"))

\* plan_resume: the announcement, and the first step of the loop.
EnterLoop ==
  /\ Goto("injected", "looping")
  /\ step' = job.first
  /\ IF job.first > 1 THEN Emit(Warning) ELSE Emit(Warning) \/ Quiet
  /\ UNCHANGED <<item, loaded>>

\* --- the step loop --------------------------------------------------------

TakeStep ==
  /\ step <= job.total
  /\ Announce("looping", "updating", AtStep("step", step))

CheckpointDue == step % job.every = 0 /\ step # job.total

\* The update, or the warning that it overflowed and was skipped.
Update ==
  /\ Goto("updating", IF CheckpointDue THEN "saving" ELSE "looping")
  /\ Emit(Warning) \/ Quiet
  /\ step' = IF CheckpointDue THEN step ELSE step + 1
  /\ UNCHANGED <<item, loaded>>

\* export_adapters, then save_optimizer_state
Save ==
  /\ Goto("saving", "saved")
  /\ Write
  /\ UNCHANGED <<item, loaded, step>>

AnnounceCheckpoint ==
  /\ Goto("saved", "looping")
  /\ Emit(AtStep("checkpoint", step))
  /\ step' = step + 1
  /\ UNCHANGED <<item, loaded>>

Export ==
  /\ step > job.total
  /\ Goto("looping", "exported")
  /\ Write
  /\ UNCHANGED <<item, loaded, step>>

Finish == Announce("exported", "done", Finished)

---------------------------------------------------------------------------
\* BurnTrainer: the built-in demos.

\* The backend and checkpointing notices before Started leave every surface as
\* it is.
DemoStart ==
  Announce("idle", IF job.mnist THEN "downloading" ELSE "demo", Started)

\* select_batches, built with mnist: two updates without counters.
DemoLoads  == Announce("downloading", "decoding", Phase("dataset", "mnist"))
DemoLoaded == Announce("decoding", "demo ready", Phase("dataset", "ready"))
\* The synthetic data: one notice, or two when mnist was asked for in vain.
DemoSynthetic == Announce("demo", "demo ready", Warning)

DemoEnterLoop ==
  /\ Goto("demo ready", "demo loop")
  /\ step' = 1
  /\ Quiet
  /\ UNCHANGED <<item, loaded>>

DemoStep ==
  /\ step <= job.total
  /\ Announce("demo loop", "demo step", AtStep("step", step))

WantCheckpoint == step % job.every = 0
WantSample == ~job.flow /\ job.sample > 0 /\ step % job.sample = 0

\* Each file is written, then announced, the checkpoint before the sample.
DemoSave ==
  /\ WantCheckpoint
  /\ Goto("demo step", "demo saved")
  /\ Write
  /\ UNCHANGED <<item, loaded, step>>

DemoCheckpoint ==
  Announce("demo saved", "demo sampling", AtStep("checkpoint", step))

DemoNoCheckpoint ==
  /\ ~WantCheckpoint
  /\ Goto("demo step", "demo sampling")
  /\ Quiet
  /\ UNCHANGED <<item, loaded, step>>

DemoWriteSample ==
  /\ WantSample
  /\ Goto("demo sampling", "demo sampled")
  /\ Write
  /\ UNCHANGED <<item, loaded, step>>

DemoSample ==
  /\ Goto("demo sampled", "demo loop")
  /\ Emit(AtStep("sample", step))
  /\ step' = step + 1
  /\ UNCHANGED <<item, loaded>>

DemoNoSample ==
  /\ ~WantSample
  /\ Goto("demo sampling", "demo loop")
  /\ Quiet
  /\ step' = step + 1
  /\ UNCHANGED <<item, loaded>>

DemoExport ==
  /\ step > job.total
  /\ Goto("demo loop", "exported")
  /\ Write
  /\ UNCHANGED <<item, loaded, step>>

---------------------------------------------------------------------------

Fail ==
  /\ pc \notin {"done", "failed"}
  /\ pc' = "failed"
  /\ UNCHANGED <<job, item, loaded, step>>
  /\ Quiet

Encoding ==
  \/ Start \/ Preflight \/ Scan \/ ReportEntry \/ Latent \/ Caption
  \/ LoadForCaption \/ CacheReady \/ Dispatch

Preparing ==
  \/ PlanEntry \/ Summarize \/ LoadDenoiser \/ Skeleton \/ QuantizeSite
  \/ CloseQuantize \/ Account \/ NoteChunks \/ Merge \/ NoteScaling \/ Merged
  \/ Inject \/ EnterLoop

Stepping ==
  TakeStep \/ Update \/ Save \/ AnnounceCheckpoint \/ Export \/ Finish

DemoNext ==
  \/ DemoStart \/ DemoLoads \/ DemoLoaded \/ DemoSynthetic
  \/ DemoEnterLoop \/ DemoStep \/ DemoSave \/ DemoCheckpoint
  \/ DemoNoCheckpoint \/ DemoWriteSample \/ DemoSample \/ DemoNoSample
  \/ DemoExport

\* select_trainer
Next ==
  \/ job.trainer = "diffusion" /\ (Encoding \/ Preparing \/ Stepping)
  \/ job.trainer = "demo" /\ (DemoNext \/ Finish)
  \/ Fail

Spec == Init /\ [][Next]_vars

---------------------------------------------------------------------------
\* Properties.

Places ==
  {"idle", "started", "advised", "encoding", "latent", "caption", "encoded",
   "planning", "planned", "skeleton", "quantizing", "quantized", "accounted",
   "loaded", "merging", "scaled", "merged", "injected", "looping", "updating",
   "saving", "saved", "exported", "done", "failed", "downloading", "decoding",
   "demo", "demo ready", "demo loop", "demo step", "demo saved",
   "demo sampling", "demo sampled"}

\* The type of every variable.
TypeOK ==
  /\ job \in Diffusions \cup Demos
  /\ pc \in Places
  /\ item \in Nat
  /\ loaded \subseteq {"vae", "text encoder"}
  /\ step \in Nat
  /\ SinkTypeOK

\* A phase a client has seen open is retired by a report of done = total.
Closes(name) == snapshot[name].done = snapshot[name].total

\* Once the first step is taken, the counted phases that gate it, the encode
\* pass and the quantization, have told a client keeping only the last
\* snapshot that they are over: reports are sent before the work on an item
\* and skipped by the throttle, so nothing but the closing report does.
\* (diffusion_trainer.rs:735 and :1227.)
WorkClosesBeforeSteps ==
  bench.last > 0 => Closes("encode") /\ Closes("quantize")

\* A count never goes back and its total never moves within a phase, over the
\* loop, its throttle, its closing report and a summary without counters, and
\* whatever phases are reported in between: a client assigns it to a bar.
Advances(before, after) ==
  before.total > 0 => after.total = before.total /\ after.done >= before.done

CountersAdvance ==
  [][\A n \in PhaseNames :
       /\ Advances(snapshot[n], snapshot'[n])
       /\ snapshot'[n].done <= snapshot'[n].total]_vars

\* The two throttles in a row, emit_every here and the decile of PhaseLog
\* there, never let the log fall behind: while a counted phase is the last
\* one logged, the items since its last line are within a tenth of it and a
\* stride.  A log that falls silent is a run that looks hung.
Behind(name, total) ==
  log.name = name /\ log.decile # NoDecile =>
    10 * (item - log.at) <= total + 10 * Stride(total)

LogKeepsUp ==
  /\ pc = "encoding" => Behind("encode", job.examples)
  /\ pc = "planning" => Behind("dataset", job.examples)
  /\ pc = "quantizing" => Behind("quantize", job.sites)

\* The throttles keep a run terse, however many items it has: a counted phase
\* sends about a hundred reports, a stride apart, with the last item and the
\* closing one; and the log takes a line for each decile, one for the update
\* without counters that opens or sums up the phase, and one more for each
\* load that interrupted the encode pass (cli.rs:624 and its test).
ReportsAreFew ==
  \A n \in PhaseNames :
    /\ reports[n] <= 102
    /\ lines[n] <= 12 + IF n = "encode" THEN lines["load"] ELSE 0

\* What the bench aggregates are windows of exactly one step: opened by the
\* Step before, with no file written and no setup phase reported inside, the
\* first window of the run left out; and every such window is aggregated.
\* (bench.rs says so of its windows; the events it goes by are the trainers'.)
WindowIsOneStep ==
  bench.timed > 0 =>
    /\ bench.sample.step = bench.sample.opened + 1
    /\ bench.sample.counted =
         (bench.sample.index > 0 /\ ~bench.sample.aside)

=============================================================================
