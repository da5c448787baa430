# loractl in TLA+

Formal models of loractl (a LoRA trainer: core library, HTTP API, command line,
benchmark harness), the TLC runs that check them on small instances, and TLAPS
proofs of what matters most for every instance. Paths below are relative to the
repository; a file without a directory is one of `crates/loractl-core/src`.

## Modules

| module | what it is |
|---|---|
| `RunServer` | the API's run registry, event logs, supervisors and subscribers |
| `EventStream` | what `GET /runs/{id}/events` promises, which `RunServer` implements |
| `RunServerProofs` | theorems about `RunServer`, that it implements `EventStream` among them |
| `DiffusionRun` | diffusion runs that checkpoint, crash and resume through one output directory |
| `DiffusionRunProofs` | theorems about `DiffusionRun` |
| `LatentCache` | runs that fill and read one dataset's `.loractl-cache/` |
| `LatentCacheProofs` | theorems about `LatentCache` |
| `TrainEvents` | what a training run emits, event by event, in the diffusion trainer and in the demos |
| `EventSink` | the surfaces behind the sink: the command line's phase log, the step benchmark, a client's counts |
| `TrainEventsProofs` | theorems about `TrainEvents` |
| `BlockStep` | one training step, on one autodiff graph or block by block |
| `Denoiser`, `Conditioner`, `TokenRows` | the MMDiT, the text conditioner and what both do to a sequence of tokens; used by `BlockStep` |
| `AdapterRounds` | what a step promises of the adapters, which `BlockStep` implements |
| `BlockStepProofs` | theorems about `BlockStep` |
| `StepPlan` | what each step of a run consumes: batch, rate, dropped captions, across launches |
| `Buckets`, `LrSchedule` | resolution buckets in exact f64 rounding, and the learning-rate curve; used by `StepPlan` |
| `StepPlanProofs` | theorems about `StepPlan`, the buckets and the curve |
| `RunSetup` | a diffusion run from its configuration's layers to its first step |
| `ConfigLayers`, `TokenizerFetch`, `BaseLoad`, `TrainingAdapter`, `Fp8File`, `FrozenLinear` | the parts of `RunSetup`: configuration, pinned tokenizer, base loaders, merged adapter, fp8 files, quantized linears |
| `RunSetupProofs` | theorems about configuration and dispatch, the loaded base, the chunks, the tokenizer download |
| `DemoAdapters` | the adapter files and the random generators of the demo trainer |
| `DemoAdaptersProofs` | theorems about `DemoAdapters` |
| `MC*` | instances for TLC, one `.cfg` per run |

`tlc -config MCRunServer_streams.cfg MCRunServer` checks one run,
`tlapm RunServerProofs.tla` one set of proofs. `PROJECT.json` lists the runs,
the mutants that break each property, the source lines behind each definition,
the findings, the hazards and the theorems.

## Inventory

### API server (`crates/loractl-api`)

| part | state | operations | interacts with | hard part | correct when |
|---|---|---|---|---|---|
| Run registry (`state.rs`) | live map, completion queue, in-flight count, id counter, under one mutex | register, complete and evict, look up | handlers, supervisors | handlers and supervisors interleave; retention of zero | count is exact, the cap holds, in-flight runs are never evicted, the latest completed ones are kept |
| Run log and supervisor (`state.rs`) | append-only events, `done`, watch channel | push then wake; join the thread, append `failed`, set `done`, retire, wake | trainer thread, subscribers | three steps without a common lock; a thread that fails, panics or emits nothing | append-only, final once `done`, one terminal event and it is last |
| Event streams (`state.rs`, `routes.rs`) | cursor, last snapshot, receiver version | subscribe, snapshot, yield, close, park | run log | a wake between snapshot and park; a run evicted under its stream | nothing lost, repeated or reordered; a close is a complete history; every stream closes |
| Confinement (`paths.rs`) | none | resolve a request's paths | handlers | none over time | a lexical check, not modelled |

### Training (`crates/loractl-core`)

| part | state | operations | interacts with | hard part | correct when |
|---|---|---|---|---|---|
| Diffusion run (`diffusion_trainer.rs`, `resume.rs`, `export.rs`) | step, weights, optimizer moments, loss scale; adapter and sidecar files | plan the resume, restore, step, export, save, announce | output directory, later runs | two files written in place one after the other; crash anywhere; copies by the operator | steps counted right, headers honest, moments paired with their weights, announced artifacts usable |
| Cache (`dataset.rs`, `cache_guard.rs`) | `.loractl-cache/` files, staging files, plan in memory | prepare, plan, load, publish by rename | other runs, other processes | no lock; decisions on a pre-pass, files replaced later; builds that differ under one fingerprint | no torn file published, runs independent, batches of one length |
| Progress events (`event.rs`, `diffusion_trainer.rs`) | counters of a phase | report, close | sinks of the API, CLI, benchmark | strides and boundaries of counters | countable phases close, phases precede steps, bounded reports |
| Buckets and batches (`dataset.rs`) | none (pure) | generate, fit, assign, chunk; caption dropout | the step loop | f64 rounding at the grid, short last chunks, resume in the middle | every image once per pass; a crop is inside its frame; a step consumes the same after a resume |
| Schedule (`schedule.rs`) | none (pure) | rate at a step; validation | the step loop | warm-up boundary, total of one | rate between floor and peak, climbs then never climbs |
| Tokenizer download (`hf.rs`) | one cached file | verify, download, stage, rename | other runs and processes | same staging name within one process | what is loaded from the cache is the pinned file |
| Base load (`diffusion_trainer.rs`, `mmdit.rs`, `fp8.rs`, `quant.rs`, `training_adapter.rs`) | the frozen model | open, apply, stream and quantize, merge | checkpoint and adapter files | three traversals of the sites; tolerated missing and unused tensors | every frozen parameter is the file's, with its scale and one delta |
| Training step (`block_ckpt.rs`, `adapters.rs`, `mmdit.rs`, `qwen3vl.rs`) | stream, captured inputs, cotangent, gradients, adapters | forward, head, reverse sweep, update | the optimizer, the loss scale | `blocks.1.` against `blocks.10.`; padding and masks; a replay that differs | masked tokens never leak; the sweep is backpropagation; adapters move together |
| Synthetic and MNIST trainer (`burn_trainer.rs`, `adapter.rs`, `sample.rs`, `probe.rs`) | generator, factors, pair of files | seed, draw, step, checkpoint, sample, load | sink; other runs of the process | one generator for a process and backend; a pair of files | an announced adapter loads as the run; runs reproduce |
| Benchmark (`bench.rs`, `loractl-bench`) | windows, contamination flag | record an event, aggregate | sink | stale flag, warm-up | only clean windows counted |
| Configuration (`config.rs`, `cli.rs`) | none | layer, parse, validate | trainers | three layers, spellings, checks far from the match they protect | a run past the checks finds an arm of the dispatch and gets what it asked for last |
| Metadata (`metadata.rs`) | none | render | export, resume | none over time | the step count only (`DiffusionRun`) |
| VAE, GPT-2, arithmetic (`qwen_vae.rs`, `gpt2.rs`, `flow.rs`, `lora.rs`) | tensors | arithmetic | trainers | numerical parity | covered by the repository's parity tests, not modelled |

The command line (`crates/loractl-cli`) executes one run per process and renders
its events; the API server executes each run on a thread of its own, up to
`max_concurrent_runs` at a time. They meet in the file system only.

## Plan

Done, in the order of importance: `RunServer` and `EventStream`; `DiffusionRun`;
`LatentCache`; `TrainEvents` with `EventSink`; `BlockStep` with the models under
it and `AdapterRounds`; `StepPlan`; `RunSetup`; `DemoAdapters`; their proofs.
What is left:

1. Composition of the event order with `RunServer` (a run's log is a behaviour
   of `TrainEvents`) and with `DiffusionRun` (an event is sent when the file is
   there).
2. An abstract specification of an output directory that `DiffusionRun`
   implements (a store of announced artifacts), and one of an atomic cache that
   `LatentCache` implements when a process executes one run.
3. Proofs: the two refinements of 2.

## RunServer

**State.** The registry fields keep their names (`next_id`, `runs`, `completed`,
`in_flight`). A run has a log (`events`, `done`), a training `thread` and a
`supervisor`; a client has a subscriber (`stream`, `target`, `cursor`, `batch`,
`final`, `fresh`). `received` and `retirements` are history. One critical section
of the code is one step: `push_event` is two (append under the lock, wake outside
it), the supervisor three (join with the last append and `done`; `complete_run`;
final wake), a subscriber a loop of look, snapshot, yields, then park or close.

**Abstractions.** An event is its kind. The watch channel is a changed bit,
because versions are only compared for equality. Rejected requests change
nothing and are disabled cases of `RegisterRun` and `OpenStream`. Left out:
keep-alive comments, the SSE encoding, server restart (runs do not survive it),
and the arm for a closed watch channel, which cannot be taken while the
subscriber holds the log that owns the sender.

**Runs.**
- `registry`: three runs, two slots, retention one, one subscriber. Three
  completions over a retention of one make an eviction happen in every order,
  and a third registration meets a full server. Liveness: `RunsRetire`, and
  `ImplementsEventStream` with its fairness, by which a stream that stays
  connected closes.
- `streams`: two subscribers over two runs with retention zero, so that each
  stream outlives its run's registry entry; two progress kinds, so that order
  and repetition show. Two subscribers are enough to interfere through the one
  shared object they have, the log. Everything is serializable here; what an
  unserializable `finished` does is under Observations.

**Fairness.** Weak fairness of the supervisor's steps, the trainer thread's steps
(a trainer's event count is bounded, as a run's is) and a connected subscriber's
steps: the runtime polls tasks that are ready and the operating system
schedules threads. Nothing forces a client to connect or to disconnect.

**Proved.** `TypeCorrect`, `SlotsAreCounted`, `RegistryAgrees`, from `RegistryInv`:
the registry's keys are the in-flight runs (told by their supervisor's place)
and the retained ones, without repetition; the count alone is not inductive,
since a decrement is only right if the run was counted. `LatestAreRetained`,
from the queue being the end of the history of retirements: dropping what is
due twice, with one more run in between, drops what is due of the whole
(`DropsAddUp`, `KeepLatest`).
`HistoriesAreFinal`, `StreamsArePrefixes`, `ClosedStreamsAreComplete`, from
`LifecycleInv` (nothing writes a log once its supervisor has passed the join)
and `StreamInv` (cursor, batch and what was received are adjacent stretches of
the log; a snapshot that saw `done` reaches its end). `HistoriesEndOnce`, from
`TerminalInv` (where the thread stands says whether the log has its terminal
event, and only the last), under `"finished" \notin Unserializable`.
Assumptions: `LimitsAssumption`, `KindsAssumption`. No bound on clients, runs or
events is used. `StreamsAreServed`: the server implements `EventStream!Safety`,
step by step: a client's status and what it was sent are functions of the
subscriber (`ReaderStatus`, `Delivered`), the supervisor's join is the abstract
seal, a yielded frame the abstract delivery (by `StreamInv`, the next event), and
every other step a stutter. Only model-checked, being liveness: `RunsRetire`, and
the fairness that `ImplementsEventStream` adds to the theorem.

## DiffusionRun

**State.** At each path of the output directory an `adapter` and a `sidecar`, each
absent, headless, cut or whole; the current run's configuration (`job`), place
(`phase`), loop (`start`, `step`), memory (`weights`, `moments`, `scale`,
`streak`) and the path it writes to. `trained`, `announced` and `killed` (where a
run stopped inside the write of a sidecar) are history.
Weights and moments are identities: which run, which update. `Launch` picks any
configuration; `StartFresh` and `StartResumed` are the resume decision with the
header checks of `resume.rs`; `CleanStep` and `OverflowedStep` are an iteration;
`OpenAdapter`, `CloseAdapter`, `OpenSidecar`, `CloseSidecar`, then
`AnnounceCheckpoint` or `Finish` are a write. `Abort` is a kill, or any error
return: both leave the disk as it is. `CopyCheckpoint` is the operator's
recovery step, copying a checkpoint over the final export between runs, the
sidecar left as it is.

**Assumptions.** One run at a time uses an output directory (the documentation
declares the alternative unsupported). A file cut short is refused by the
safetensors parser, whose header states every offset. Step counts are exact only
when every run embeds its metadata (`AlwaysEmbedded`); the properties say so
where they need it. The random stream is not restored by the code and not
modelled. Loading and encoding before the resume are the wait between `Launch`
and the start.

**Run `resume`.** Three runs of up to three steps, checkpoints each step or every
other, one overflowed step, one copy: enough for a run to resume what a resumed
run left, past a copied or overwritten file, which two runs are not. The loss
scale has two values and grows after two clean steps, so floor, ceiling and both
moves are reached.

**Proved.** `TypeCorrect`; `StepsArePositions` and `HeadersAreHonest` from
`CountInv` (headers on disk, the loop and a write in progress agree about the
steps taken; the header invariant alone is lost at the next resume, which takes
its start from a file); `MomentsMatch` from the same, under `AlwaysEmbedded`;
`ScaleStaysInRange` from `ScaleInv`, which covers the scales saved on disk;
`AnnouncementsAreDurable` from `DurableInv`, which says what a write in progress
has already put on disk, that its path is not announced meanwhile, and that a
sidecar is torn only while it is written or where its run was stopped. These hold
for any number of runs, steps, copies and overflows, and with or without
embedded metadata unless said otherwise. There is no liveness: a run may be
killed at any time.

## LatentCache

**State.** `cache` maps the names every run looks for to files, `staged` the
staging names to files, and `holds` says where the file is that a run has open:
names and open files differ because a rename moves the name and the writer keeps
its file. A run walks its passes (`prepare`, `plan`, `train`) with `item`, `part`
and `step`; `source` is what the pre-pass decided, `recorded` the plan,
`consumed` the lengths that entered a batch. `PrePass` reads a window of
`decode_window()` entries at once; `TakeLatent` and `ReadConditioning` are the
serial half; `OpenStaged`, `Fill` and `Publish` are `DatasetCache::write`;
`PlanFile` and `EndOfPass` are `plan_dataset` and the length guard; `LoadLatent`
and `LoadConditioning` are a training step. `Stop` is a kill or an error,
`Purge` the operator emptying the directory.

**Assumptions.** One bucket set and one fingerprint: other runs use other names.
A conditioning stack is its length, which is what a different build changes
under one fingerprint. Images and captions do not change while the directory is
in use. Runs in one process are of one build. `SharedProcess` says whether one
process may execute several runs at a time: not from the command line, but in
the API server.

**Runs.**
- `cache_sharing`: two processes, three images of which two share a caption
  file, one run with caption dropout, a window of two so that a pre-pass spans
  entries and the last window is short. Liveness (`StartedRunTrains`) under weak
  fairness of each run's own steps: a thread that is not killed keeps going and
  its file operations return.
- `cache_builds`: three runs of two builds, the third under the process id of
  the first once that has stopped anywhere, and a purge.
- `cache_shared_process`: see Findings.

**Proved.** `TypeCorrect`; `PublicationIsAtomic` for `~SharedProcess`, since a
staging name is held by one live run and what is renamed is what that run has
filled (leftovers of dead runs are truncated before they are filled);
`BatchesHaveOneLength`, from the plan being checked before training and each
read being compared with the plan, for shared processes too;
`RunsAreIndependent` for `~SharedProcess`, from an invariant per phase of a run
(`CalmRun`): what a run of one build has found or recorded stays in place until
a purge. Any number of runs, images and purges. Only model-checked:
`StartedRunTrains`.

## TrainEvents and EventSink

**State.** A run's configuration (`job`), its place (`pc`), the entry or site a
counted loop is at (`item`), the encoders the encode pass has loaded (`loaded`)
and the loop variable (`step`). Behind the sink: `log`, the baseline of
`PhaseLog`; `bench`, a `StepBench` with the last window it closed; `snapshot`, the
last counts of each phase, which is what `docs/api/events.md` tells a client to
keep. `lines`, `reports` and `aside` are history. Every event is one step, because
the sink is called synchronously: `Emit` is `sink(e)` with all surfaces. In the
order of the code, `Encoding` is `encode_phase`, `Preparing` is `run_diffusion` up
to its loop (with `load_quant_module` and `merge_training_adapter`), `Stepping` the
loop and the final export, `DemoNext` the loops of `burn_trainer.rs`, and `Fail` any
`bail!` or panic. `EmitEvery` is the throttle of counted phases.

**Abstractions.** A detail text is a tag, a time is the step that stamped it. What
decides a report is kept: whether an entry looks cached at the moment of its
report (two `stat`s, advisory, so independent of whether an encoder is then
loaded), the counts, and the places that send none. Whether an advisory is due
is a free choice, as its condition is about sizes of the machine or numbers of
the tensors. `-v` levels and the bar choose where a line goes and are left out.

**Run `events`.** Sizes at the boundaries of the stride (1, 7, 21, 99, 100, 101,
120, 250 examples; 0, 1, 3, 99 and the real model's 261 sites), warm, cold and
mixed caches, a merged adapter, runs that start over, resume, and have nothing
left to do; the demos with every mix of checkpoint and sample cadences. A run is
one thread, so what the sizes multiply is its length: mixed caches are kept to a
few entries, where every order of hits, misses and loads is tried. A run ends,
so deadlock is not checked. There is no fairness: nothing here waits.

**Proved.** `ReportsCapped`: for every total, what `emit_every` lets through is at most
a hundred items and the last one, which the code tests at six sizes.
`TypeCorrect`. `CountsOnlyAdvance`, from `CountInv`: inside a counted loop the last
report is at or below `item`, before it there is none, after it the phase is
closed; that the closing report does not go back is only true because of the
first of these. `WorkHasClosed`, from `CountInv` and `GateInv`, which says that no
step is seen in the places before the loop; a run that fails later keeps what it
had reported, and this is why the property speaks of the bench and not of `pc`.
`WindowsAreSteps`, from `WindowInv`: at the head of a loop the open window has a
file or a phase in it exactly if the bench holds it contaminated; between a
file and the event that announces it the two differ, and the property survives
only because no Step event is sent there. All for any number of examples, sites
and steps, and any cadence. Assumption: `JobsAssumption`.

`FewReports` and `TheLogKeepsUp`, from `FewInv`: a loop that stands at item k has sent
no more reports than what the throttle lets through below k, and has written no
more lines than there are deciles at or below its last report, so the hundred
and the ten hold at every k and not only at the end. Before its loop a phase is
`Fresh`; the phases that never count take a line each time they are reported, and
`load` one for each encoder that was loaded, which is what the line cap of the
encode pass allows for.

## BlockStep

**State.** The configuration of a run (`checkpointed`, `dropout`, `format`,
`targets`), the adapters that `inject_lora` made of it and the update each is at
(`version`); the current `batch`; `pre`, what `prepare_trunk` hands the trunk;
the residual `stream` and the `block` to run or replay; the captured `inputs`,
the cotangent and the gradients of the step. A token is a row: the inputs its
value depends on, and whether it holds a NaN. The stream also carries the
adapter contributions that went into it; a contribution names the adapter, the
update it was at and whether a dropout mask was drawn. A cotangent is how often
the loss scale was folded in and which blocks it was pulled back through.

`Start` is `inject_lora` and the checks before the loop; `LoadBatch` a batch with
its noise and the text fusion; `ForwardBlock` the trunk in either arm, with the
capture in the checkpointed one; `LossAndBackward` the monolithic arm;
`HeadGraph` and `ReplayBlock` those of `block_ckpt.rs`; `CheckLoss`, `Update` and
`SkipUpdate` the rest of the iteration. `Conditioner` follows `qwen3vl.rs` from the
template to the stack of selected layers, `Denoiser` follows `mmdit.rs` from
patchify to the last layer, the f16 algebra of the norm and of the scores
included.

**Abstractions.** Kept of the arithmetic is what lets one position depend on
another or makes it NaN: the magnitude of the masks, the f16 range, the epsilon
that divides a row of zeros, what underflows. Heads, RoPE angles and the width
of a feed-forward act within a row and are left out. Whether a gradient
overflows is a free choice.

**Run `block_step`.** Eleven blocks, so that two of them share their first digit;
a prompt of 2, 4 and 1 tokens, captions of 0, 2 and 6, so that one is cut; grids
2x2, 2x3 and 5x1, one of which needs no padding; four lists of targets (none, one
that matches nothing, one projection everywhere, two overlapping patterns on
blocks 1 and 10); f32, f16 and f16 on a device that flushes subnormals; two
steps, so that an update separates two forwards.

- `GarbageStaysOut`: no live token of prompt or image ever depends on padding.
- `NanOnlyFromEpsilon`: no mask and no outlier makes a NaN, in f32 or f16. The
  epsilon of the f16 norm does, on a device that flushes subnormals: all rows,
  from the first block to the prediction, exactly when the sequence has padding
  (finding 3); and no such prediction is trained on.
- `PredictionMatchesTarget`: row k of the prediction is patch k of the target, at
  that patch's position, and has seen the whole live prompt and image.
- `ConditioningIsTheCaption`: the stack has the budgeted length, from the caption's
  first token to the suffix's last, and no live position has seen padding.
- `SweepIsBackprop`: the gradients the sweep hands the optimizer are those of
  backpropagation through one graph, and none is missing or taken twice.
- `AdaptersMoveTogether`: the refinement of `AdapterRounds`.

**Proved.** `SweepFindsBackprop`, from `SweepInv`: the captured inputs form a chain,
each the stream before its block; while the sweep stands at block i the
cotangent is that of i and the gradients collected are those of the blocks after
it; a replay starts from its captured input and draws the same masks only
because dropout is refused in this arm. `AdaptersAdvanceTogether`: every step of
`BlockStep` is one of `AdapterRounds` or a stutter. Both for any number of blocks
and steps, any targets, captions and grids.

`PaddingStaysOut`, `ConditioningIsCaption`, `NanComesFromEpsilon` and
`PredictionMatches`, from `RowsInv`: in every tensor a step passes on, a live row
has seen live rows only, and either all rows are numbers or all are NaN, the
second exactly after a block where the epsilon is flushed and a row of zeros is
among them (`Survives`, `SpoiltBy`); `LossIsSound` adds that a loss that counts as
finite was computed from numbers. The first holds through attention because a masked score lies below the
live ones by more than softmax resolves, and it is carried over the encoder's
layers and the trunk's blocks by induction. Assumptions: `DataAssumption`, and the
magnitudes of the code's masks and ranges, `EncoderMagnitudes` and
`DenoiserMagnitudes`. Nothing is assumed of what the device does with subnormals.

## StepPlan

**State.** The configuration and folder of a run, how often it was launched, the
step of its newest checkpoint (`saved`), and in a process the buckets, entries and
batch plans with the next step. `seen` is history: what each step consumed in any
launch. `Launch` is `scan_dataset` and `PreparedDataset::batches` over a listing in
any order; `Step` an iteration with `plans[(step - 1) % len]`, the caption dropout
drawn from seed and step, and `lr_at`; `Stop` a kill. `Buckets` does the f64
arithmetic exactly, since a product that should undo a quotient decides a floor
or a ceiling.

**Abstractions.** A half-cosine is the cubic with the same ends, midpoint and
symmetry; rates are whole units, rounded down. Which captions are dropped is a
constant relation between step and row, as the code's is a hash of them.

**Run `step_plan`.** Nine images: a square of 49 pixels, whose cover scale f64 rounds
down, one of 40x8 under a grid step, 112x112, and landscapes and portraits; five
folders, of which one is empty and one fills a bucket with a whole and a short
chunk; both bucket modes, a resolution of zero among them, batches of 0 to 3, seven
curves, and configurations that the checks refuse. Seven steps are two passes of the longest plan; a checkpoint
every three and two launches put a resume before, in and after the warm-up.
`ResumeIsUnsplit`, `EveryImageOncePerPass`, `FramesFit`, `CurveIsFollowed`.

**Proved.** `ResumeUnsplit`, `ImageOncePerPass`, `FramesAlwaysFit` and `CurveFollowed`, from `PlanInv`: what
was consumed at a step is what the plans give it, and the plans depend on the
folder and the configuration, not on the launch or the order of the listing. A
set counted in order holds each of its members once; a box is generated for
every image, so a nearest one exists; the entries of the scan are the images in
order, each with a box that suits it, and the chunks hold each entry once. Frames
fit wherever rounding to 53 bits falls: a floor can only miss downwards and a
ceiling only upwards. For any folder and configuration,
and any number of steps and launches. Assumptions: `StepPlanAssumption`, and
`FineUnits`, that the peak rate is at least as many units as the warm-up has
steps.

## RunSetup

**State.** For each run its place (`pc`), the layers it was given (`request`), the
configuration resolved from them (`config`), the files it has opened and what it
holds in memory (`load`). With it the variables of `TokenizerFetch`: process ids,
the cached and staged tokenizers on disk (`disk`), where the file is that a run has
open (`fd`), how far it is (`fetch`) and what it finally read (`tokenizer`).

A configuration is layered from file, variables and flags as `load_config` and
`resolve_config` do, every accepted spelling included; the checks of
`DiffusionTrainer::train` follow in their order, then the encode phase with its
lazily resolved tokenizer, then one of the three loaders and the merge. A matrix
is a sequence of rows of elements, an element says which tensor and position of
which file it is, under which entry of a scale sidecar, in which quantization
block and with which deltas.

**Assumptions.** A parsed file is what its header says. The VAE is loaded like the
text encoder and left out. What a request asks is settled before it starts.

**Run `setup`.** Every backend, precision and quantization, each from another layer
than what it overrides; 16 checkpoints (plain, fp8, foreign keys, missing tensors
and sidecars, wrong shapes and ranks), 8 training adapters in both spellings, 3 encoders;
one trunk and one fusion block and five sites, one of which no quantization block
fits; chunk thresholds of nothing, a row and a half and two rows. Two runs under
two process ids (symmetric) that may be equal, a cached tokenizer that is
absent, good, torn or altered. A run ends, so deadlock is not checked.

- `OnlyWiredRunsLoad`: a run past the checks finds an arm of the dispatch, on the
  backend and in the precision asked for last, and a quantized base exactly if
  asked for.
- `BaseIsTheFile`: at the first step each frozen parameter is the file's, row for
  row, under its own scale, with each delta once; nothing of the file is ignored
  that the documentation does not name.
- `ChunksFit`: a quantized site dequantizes at most the threshold at once.
- `TrainsOnThePin`, `CacheStaysGood`: the tokenizer a run loads from the cache is
  the pinned file; one in place is replaced by nothing else.

**Proved.** `OnlyWiredLoad` and `ChunksAlwaysFit`, from `SetupInv`: each run (`RunAt`)
that got past a stage has the configuration its layers resolve to, key by key the
last word of a layer, has passed the checks, and has linears that are plain or
split (`BaseAt`), one of them quantized if and only if it asked for it. The rest is
arithmetic about chunks (`Splits`, `Chunked`): as many as the threshold needs, the
rows shared out evenly. Assumptions: `RequestsAssumption` (the flags
are the command line's, a chunk size is a natural number), `FilesAssumption` (files have shapes), `SomeSiteIsAligned` (a site that a
quantization block fits: a model's features are multiples of 32),
`FrozenLinearAssumption`; the layers, their spellings, the shapes, the thresholds
and the number of runs are any. Of the tokenizer: `FetchTypeCorrect`; `TrainedOnThePin` from `PinInv`: what
is ever staged is the pinned file or part of it, and a run reads the cache only
after verifying what is there; `PinnedCacheStays` from `OwnInv`, where processes run
one download each: a run writes only under its own process's name, alone, and
what it renames is whole. For any runs and processes; `PidsAssumption` says no
process id is the name of the cached file.

`BaseAlwaysTheFile` is `BaseIsTheFile` for any files, sites and thresholds. Its
invariant `FileInv`, next to `SetupInv`, says what a run holds at each stage in
terms of the files that it opened: an encoder whose parameters are its file's
(`EncoderHeld`); a stream and the sites quantized so far (`StreamHeld`), each out of
its own tensor and every other site as the skeleton has it; a loaded base
(`ModelHeld`); a base in which the sites left to visit have no delta and the others
each their own, once (`MergeHeld`). The property alone is not inductive: it speaks of
the first step only, and of a merge half done it says nothing. The lemmas follow
the order of the code: what a snapshot of a plain and of an fp8 file holds,
sidecars included; that the applier replaces a visited parameter exactly if its name
is found and fits; each of the three loaders; the chunks of a quantized site, row for
row; `from_file`, then the merge site by site. They rest on these assumptions, which
the run evaluates: `SitesAssumption` (`all_base_linears_mut` visits only sites of the
model; that it misses none is not assumed: a site it misses keeps its missing
parameters, which `load_quant_module` refuses, or leaves a factor over, which the
merge refuses);
`PathsAssumption` and `ShapesAssumption` (a burn module's parameters are
vectors and matrices, none named like a base weight or under one);
`NamesAssumption` (after the key remap a checkpoint has one tensor per module path,
none under a weight, and raw bytes for no parameter); `AdaptersAssumption` (the
values of the `.alpha` keys are those of the keys that are there; no factor of an adapter
is also the scale sidecar of another tensor).

## DemoAdapters

**State.** Per run its place, configuration, what it has drawn, the step, whether its
factors are finite and the path it writes; per process and backend the random
generator, with who drew from it; the pairs of files; the adapters announced;
`touched`, history, how much a run had drawn when another first shared its
generator. An adapter holds the two trained factors: who loads it draws the
frozen base again from the sidecar's seed, so the order of draws is modelled,
that of burn's lazily initialized parameters included.

**Run `demo_adapters`.** Two runs, of one process or two, on one path or two: both
tasks, both datasets, three backends, reruns, and eight configurations that the
checks refuse; killed anywhere. `AnnouncedIsTheRun`, `VelocityNeverClassified`,
`RunsReproduce`.

**Proved**, all three, as `AnnouncedLoads`, `NeverClassified` and `TheyReproduce`, for any
number of runs, processes, steps and batches. `DrawInv`: what a run has drawn is a
beginning of its program of draws, and until its generator is shared each draw
is the one a generator of its own would have made. `FilesInv`: a file that is whole
was written by one run, and a run that writes is past the path of everything it
has announced. Assumptions: `NamesAssumption`, `ConfigsAssumption`, `RunsAssumption`.

## Findings

The first two are runs that TLC ends with a counterexample; the third is what a
property of a passing run states. The quoted lines are in `PROJECT.json`.

1. `foreign_moments`: weights of one run are resumed with moments of another
   when a run dies between its two writes and the step counts agree, against
   `docs/api/events.md:207`.
2. `cache_shared_process`: two runs of one server process stage a cache file
   under one name, against the comment at `dataset.rs:844`.
3. `block_step`, `NanOnlyFromEpsilon`: the epsilon of the f16 norm, 6.1e-5, is
   1023 x 2^-24, the largest f16 subnormal. The comment at `mmdit.rs:317` raises it
   to "the smallest f16 NORMAL value", 1024 x 2^-24, so that a device that flushes
   subnormals does not divide a row of zeros by zero: on such a device it does,
   every padded sequence becomes NaN, and the run ends on its non-finite loss.

## Observations

Met while modelling; the models do what the code does, and no run is spent on
them.

- A subscriber can see its stream close before the run has left the registry,
  against the comment at `state.rs:131`; the slot is free when `complete_run` has
  returned, not at the terminal event (`docs/api/events.md:115`).
- A `finished` event that cannot be serialized is replaced by a warning and the
  stream closes without a terminal event (`docs/api/events.md:252`).
- A run without any update leaves another run's sidecar beside the adapter it
  replaces. The comment at `resume.rs:441` calls that "the correct content", for
  a run that resumed the file; for a fresh run whose updates all overflowed it is
  not, and when the sidecar is torn (its run was killed inside the write) the
  adapter it announces cannot be resumed: the sidecar does not parse, is not
  judged stale, and the resume bails, against `README.md:144` ("any
  `checkpoint-N.safetensors` works"). It is the exception `AnnouncedIsDurable`
  makes for the paths in `killed`; without it the run `resume` fails.
- The dataset phase never reports `done == total` (`docs/api/events.md:182`).
- `--no-resume` only turns off the automatic resume: a `resume.from` in the file
  or a variable still resumes, though its help says that it starts fresh. A
  misspelt value in the file fails even where a flag overrides it; a variable
  over it hides it.
- `resolve_tokenizer` returns an override, or a file beside the base, unverified;
  the texts of the gated error and of the configuration say it is checked
  against the pin. The comment at `hf.rs:224` does not hold for two runs of one
  process, which is harmless to what trains.
- `merge_training_adapter`: "a stray key is a hard error", but an up factor
  without a down, and any other two-dimensional key, is skipped; duplicate
  spellings of a site collapse.
- `load_quant_module` does not check the shape of a weight at a quantized site;
  `load_module` tolerates unused tensors.
- Images under 16 pixels a side are enlarged under `no_upscale`, and a fitted box
  can be a grid step smaller than it need be: 112x112 in a bucket of 144x144 is
  fitted to 96x96, by the rounding at `dataset.rs:383`.
- `dataset.resolution = 0` is not refused in aspects mode and trains at 16x16,
  against the doc of `generate_buckets`, whose square is the resolution's own.
- Demo runs of one server process share a generator: a base drawn while another
  run draws is recorded nowhere. `loractl sample` uses the ndarray backend
  whatever trained. A torn pair across reruns with another seed loads with the
  wrong base. A run named `checkpoint-2` ends by writing over the checkpoint it
  announced at step 2 (`burn_trainer.rs:507` and `:537`). `with_extension` drops the last dotted part of `output.name`, so
  `lora.v1` and `lora.v2` overwrite each other.

## Limits

Liveness, that of `EventStream` included, is checked on the instances above and not
proved; every invariant that a passing run checks is a theorem. The bounds (`MaxRuns`, `MaxEvents`, `MaxTotal`,
`MaxCopies`, `MaxSkips`, `MaxPurges`, `MaxLaunches`) appear in the guards of the
models and no theorem depends on their values. Where a proof needs induction,
it is over a set of naturals, by the library's well-founded order of finite sets
(`SetInduction`, and `Iteration` for recursive functions): the library's own
induction theorems take a predicate as a parameter, which no installed prover
instantiates.

Not modelled:

- Arithmetic on real numbers, the VAE and GPT-2: the repository's parity tests
  compare them with PyTorch.
- Output confinement (`paths.rs`), a lexical check without state.
- Rendering, process start-up and the Python references and probes.
- Two API runs with one output directory, which the documentation declares
  unsupported; two demo runs that write one file at a time are modelled, and a
  mixture of their bytes is taken to be refused by the loader.
- An image or caption edited after it was cached, which is documented to be
  served stale (`dataset.rs:813`).
- Step counts of runs that mix embedded and omitted metadata are covered by the
  proofs of `DiffusionRun` where they say so, and not by a run.
