---------------------------- MODULE DemoAdapters ----------------------------
(* The synthetic and MNIST trainer and its adapter files. An adapter holds  *)
(* the two trained factors only: who loads it draws the frozen base again   *)
(* from the seed in its sidecar. burn keeps one random generator for each   *)
(* backend of a process, which every run of that process shares.            *)
EXTENDS Integers, SequencesExt, FiniteSetsExt

CONSTANTS
    Runs,               \* calls of BurnTrainer::train, of one process or several
    Configs,            \* run -> the configurations it may be given
    Features,           \* the backends and datasets this binary was built with
    Batches             \* batches of the synthetic datasets (31)

ASSUME BatchesAssumption == Batches \in Nat \ {0}

(* A configuration parsed; a name is split at its dots, then at its hyphens. *)
ASSUME ConfigsAssumption == \A r \in Runs : Configs[r] \subseteq
    [settings : BOOLEAN, dropsCaptions : BOOLEAN, task : {"classification", "flow-matching"},
     base : STRING, shift : STRING, quant : STRING, backend : STRING, precision : STRING,
     seed : Nat, rank : Nat, alpha : Nat, dropout : BOOLEAN, steps : Nat,
     checkpointEvery : Nat, sampleEvery : Nat, dir : STRING, name : Seq(Seq(STRING \cup Nat)), process : STRING]

ASSUME RunsAssumption == "nobody" \notin Runs /\ "both" \notin Runs

VARIABLES
    pc,         \* where each run is
    config,     \* its configuration, and the process it runs in
    rng,        \* <<process, backend>> -> the seed, the shapes drawn since, and who drew
    drawn,      \* what a run has drawn so far, in order
    step,       \* the steps it has done
    finite,     \* whether its factors are
    path,       \* the adapter it is writing
    files,      \* path -> the tensor file and the sidecar
    announced,  \* the adapters that Checkpoint and Finished events named
    touched     \* how much a run had drawn when another first shared its generator

vars == <<pc, config, rng, drawn, step, finite, path, files, announced, touched>>

Classification == "classification"
FlowMatching == "flow-matching"
Never == -1
Absent == [state |-> "absent", by |-> "nobody"]
Torn(r) == [state |-> "torn", by |-> r]

----------------------------------------------------------------------------
(* The checks of train, before anything is seeded or written. *)
SettingsHold(c) ==
    /\ c.settings
    /\ ~c.dropsCaptions
    /\ c.task = FlowMatching => c.sampleEvery = 0 /\ c.shift = "constant"
    /\ c.quant = "none"

(* The arms of the dispatch: candle has none, wgpu alone knows f16. *)
BackendRuns(c) ==
    \/ c.backend = "ndarray" /\ c.precision = "F32"
    \/ c.backend = "wgpu" /\ c.backend \in Features /\ c.precision \in {"F32", "F16"}
    \/ c.backend \in {"cuda", "tch"} \cap Features /\ c.precision = "F32"

(* d_in, hidden and out of the model of a task. *)
Dims(c) == IF c.task = FlowMatching THEN <<17, 64, 16>> ELSE <<784, 256, 10>>

Rank(rank) == IF rank < 1 THEN 1 ELSE rank

(* The frozen base, drawn while the model is constructed: fc2's weight for  *)
(* its dims, the others because LoraMlp::new forces them.                    *)
Base(dims) ==
    <<<<"fc2.weight", <<dims[2], dims[3]>>>>, <<"fc1.weight", <<dims[1], dims[2]>>>>,
      <<"fc1.bias", <<dims[2]>>>>, <<"fc2.bias", <<dims[3]>>>>>>

(* Mutant: nothing is forced, and a parameter is drawn when first used. *)
NewDrawsLazily(dims) == <<Base(dims)[1]>>

NewDraws(dims) == Base(dims)

(* The frozen parameters that the first forward still has to draw. *)
LazyBase(dims) == SubSeq(Base(dims), Len(NewDraws(dims)) + 1, Len(Base(dims)))

LoraA(c) == <<"lora_a", <<Dims(c)[2], Rank(c.rank)>>>>

(* Noise and timesteps for each batch; blobs around common centroids; MNIST *)
(* is read from its files.                                                   *)
FlowBatches ==
    [i \in 1 .. 2 * Batches |-> IF i % 2 = 1 THEN <<"eps", <<64, 16>>>> ELSE <<"u", <<64>>>>]
SyntheticBatches == <<<<"centroids", <<10, 784>>>>>> \o [b \in 1 .. Batches |-> <<"noise", <<64, 784>>>>]
MnistBatches == <<>>

(* Without the feature, mnist means the synthetic classes. *)
DataDraws(c) ==
    IF c.task = FlowMatching THEN FlowBatches
    ELSE IF c.base = "mnist" /\ "mnist" \in Features THEN MnistBatches
    ELSE SyntheticBatches

(* A forward in training: the dropout mask, and at the first one lora_a. *)
ForwardDraws(c, k) ==
    (IF k = 1 THEN LazyBase(Dims(c)) ELSE <<>>)
        \o (IF c.dropout THEN <<<<"mask", <<64, Dims(c)[2]>>>>>> ELSE <<>>)
        \o (IF k = 1 THEN <<LoraA(c)>> ELSE <<>>)

(* Mutant: the probe of a validation sample comes from Tensor::random. *)
SampleDrawsRandom(c, k) ==
    IF c.sampleEvery > 0 /\ k % c.sampleEvery = 0 THEN <<<<"probe", <<1, Dims(c)[1]>>>>>> ELSE <<>>

(* A validation sample hashes its own input and leaves the generator alone. *)
SampleDraws(c, k) == <<>>

(* From one update to the next. *)
StepDraws(c, k) == (IF k > 1 THEN SampleDraws(c, k - 1) ELSE <<>>) \o ForwardDraws(c, k)

(* What a run has drawn when it takes its kth optimizer step. *)
ProgramUpTo(c, k) ==
    LET upTo[j \in 0 .. k] ==
            IF j = 0 THEN NewDraws(Dims(c)) \o DataDraws(c)
            ELSE upTo[j - 1] \o StepDraws(c, j)
    IN  upTo[k]

(* A draw depends on the backend, the seed and the shapes drawn since. *)
Draw(backend, state, item) ==
    [of |-> item[1], on |-> backend, seed |-> state.seed, after |-> state.shapes, shape |-> item[2]]

(* Once two runs have drawn since it was seeded its state is nobody's, and   *)
(* such states are not told apart.                                           *)
Mixed == <<<<0>>>>
Shared(state, r) ==
    IF state.by \subseteq {r} THEN state ELSE [state EXCEPT !.shapes = Mixed, !.by = @ \cup {r}]
Drew(state, item) ==
    IF state.shapes = Mixed THEN state ELSE [state EXCEPT !.shapes = Append(@, item[2])]

(* The draws of a generator that nothing else uses. *)
Replay(backend, seed, items) ==
    LET shapes == [i \in 1 .. Len(items) |-> items[i][2]]
    IN  [i \in 1 .. Len(items) |->
            Draw(backend, [seed |-> seed, shapes |-> SubSeq(shapes, 1, i - 1)], items[i])]

(* The dump for the PyTorch reference: seed, model, batches, then lora_a. *)
SyntheticRunInputs(c) ==
    Replay(c.backend, c.seed, NewDraws(Dims(c)) \o DataDraws(c) \o LazyBase(Dims(c)) \o <<LoraA(c)>>)

----------------------------------------------------------------------------
(* The factors after some steps follow from what was drawn and what the     *)
(* configuration says about training; lora_b starts at zero.                 *)
Recipe(c) == [c EXCEPT !.dir = "", !.name = <<>>, !.process = "", !.checkpointEvery = 0, !.sampleEvery = 0]
Factors(r) == [drawn |-> drawn[r], steps |-> step[r], recipe |-> Recipe(config[r])]

Gen(r) == <<config[r].process, config[r].backend>>
Due(every, k) == every > 0 /\ k % every = 0
AtLeastOne(n) == IF n < 1 THEN 1 ELSE n
Total(r) == AtLeastOne(config[r].steps)

CheckpointPath(r) == <<config[r].dir, <<<<"checkpoint", step[r]>>>>>>
(* with_extension drops what follows the last dot of the name. *)
Stem(name) == IF Len(name) > 1 THEN Front(name) ELSE name
FinalPath(r) == <<config[r].dir, Stem(config[r].name)>>

(* A run whose name makes its final adapter one of its own checkpoints      *)
(* writes over what it announced.                                            *)
ASSUME NamesAssumption == \A r \in Runs : \A c \in Configs[r] :
    \A k \in 1 .. AtLeastOne(c.steps) : Stem(c.name) # <<<<"checkpoint", k>>>>

Init ==
    /\ pc = [r \in Runs |-> "start"]
    /\ config \in {c \in [Runs -> UNION {Configs[r] : r \in Runs}] : \A r \in Runs : c[r] \in Configs[r]}
    /\ rng = [g \in {<<config[r].process, config[r].backend>> : r \in Runs} |-> [seed |-> 0, shapes |-> <<>>, by |-> {}]]
    /\ drawn = [r \in Runs |-> <<>>]
    /\ step = [r \in Runs |-> 0]
    /\ finite = [r \in Runs |-> TRUE]
    /\ path = [r \in Runs |-> <<>>]
    /\ files = <<>>
    /\ announced = {}
    /\ touched = [r \in Runs |-> Never]

To(r, place) == pc' = [pc EXCEPT ![r] = place]

(* Another run seeds the generator or draws from it. *)
Touch(r) ==
    touched' = [s \in Runs |->
        IF s # r /\ Gen(s) = Gen(r) /\ pc[s] \notin {"start", "seed", "ended"} /\ touched[s] = Never
        THEN Len(drawn[s]) ELSE touched[s]]

Validate(r) ==
    /\ pc[r] = "start"
    /\ IF SettingsHold(config[r]) /\ BackendRuns(config[r]) THEN To(r, "seed") ELSE To(r, "ended")
    /\ UNCHANGED <<config, rng, drawn, step, finite, path, files, announced, touched>>

Seed(r) ==
    /\ pc[r] = "seed"
    /\ rng' = [rng EXCEPT ![Gen(r)] = [seed |-> config[r].seed, shapes |-> <<>>, by |-> {r}]]
    /\ Touch(r) /\ To(r, "run")
    /\ UNCHANGED <<config, drawn, step, finite, path, files, announced>>

(* The next tensor of the construction, of the batches or of a forward. *)
DrawNext(r) ==
    LET program == ProgramUpTo(config[r], step[r] + 1)
    IN  /\ pc[r] = "run" /\ step[r] < Total(r) /\ Len(drawn[r]) < Len(program)
        /\ LET item == program[Len(drawn[r]) + 1]
               state == Shared(rng[Gen(r)], r)
           IN  /\ drawn' = [drawn EXCEPT ![r] = Append(@, Draw(config[r].backend, state, item))]
               /\ rng' = [rng EXCEPT ![Gen(r)] = Drew(state, item)]
        /\ Touch(r)
        /\ UNCHANGED <<pc, config, step, finite, path, files, announced>>

(* Forward, loss, Step event, backward, update; the factors may diverge, and *)
(* never recover.                                                            *)
TrainStep(r) ==
    /\ pc[r] = "run" /\ step[r] < Total(r)
    /\ Len(drawn[r]) = Len(ProgramUpTo(config[r], step[r] + 1))
    /\ step' = [step EXCEPT ![r] = @ + 1]
    /\ \E diverges \in BOOLEAN : finite' = [finite EXCEPT ![r] = @ /\ ~diverges]
    /\ To(r, "stepped")
    /\ UNCHANGED <<config, rng, drawn, path, files, announced, touched>>

(* save_adapter refuses factors that are not finite. *)
SaveTo(r, p) ==
    IF finite[r] THEN path' = [path EXCEPT ![r] = p] /\ To(r, "save")
    ELSE To(r, "ended") /\ UNCHANGED path

Checkpoint(r) ==
    /\ pc[r] = "stepped"
    /\ IF Due(AtLeastOne(config[r].checkpointEvery), step[r]) THEN SaveTo(r, CheckpointPath(r))
       ELSE To(r, "sample") /\ UNCHANGED path
    /\ UNCHANGED <<config, rng, drawn, step, finite, files, announced, touched>>

(* The sample fails the run where its logits are not finite; its file is of *)
(* no concern here. At the end comes the final adapter.                      *)
Sample(r) ==
    /\ pc[r] = "sample"
    /\ IF Due(config[r].sampleEvery, step[r]) /\ ~finite[r] THEN To(r, "ended") /\ UNCHANGED path
       ELSE IF step[r] < Total(r) THEN To(r, "run") /\ UNCHANGED path
       ELSE SaveTo(r, FinalPath(r))
    /\ UNCHANGED <<config, rng, drawn, step, finite, files, announced, touched>>

----------------------------------------------------------------------------
(* The two files of an adapter, each truncated and written in place.        *)
Pair(p) == IF p \in DOMAIN files THEN files[p] ELSE [tensors |-> Absent, sidecar |-> Absent]
Put(p, pair) == files' = [q \in DOMAIN files \cup {p} |-> IF q = p THEN pair ELSE files[q]]
PutTensors(p, content) == Put(p, [tensors |-> content, sidecar |-> Pair(p).sidecar])
PutSidecar(p, content) == Put(p, [tensors |-> Pair(p).tensors, sidecar |-> content])

(* Two that write one file at a time may leave a mixture, which is no       *)
(* adapter of either.                                                        *)
Contents(r, part, current, whole) ==
    LET alone == \A s \in Runs \ {r} : ~(pc[s] = part /\ path[s] = path[r])
    IN  {whole} \cup IF alone /\ current = Torn(r) THEN {} ELSE {Torn("both")}

TensorsOf(r) ==
    LET dims == Dims(config[r])
    IN  [state |-> "whole", by |-> r, factors |-> Factors(r), finite |-> finite[r],
         a |-> <<dims[2], Rank(config[r].rank)>>, b |-> <<Rank(config[r].rank), dims[3]>>]

(* Mutant: the sidecar leaves the task to its serde default. *)
SidecarWithoutTask(r) ==
    [state |-> "whole", by |-> r, seed |-> config[r].seed, rank |-> Rank(config[r].rank),
     alpha |-> config[r].alpha, dims |-> Dims(config[r]), task |-> Classification]

SidecarOf(r) ==
    [state |-> "whole", by |-> r, seed |-> config[r].seed, rank |-> Rank(config[r].rank),
     alpha |-> config[r].alpha, dims |-> Dims(config[r]), task |-> config[r].task]

OpenTensors(r) ==
    /\ pc[r] = "save"
    /\ PutTensors(path[r], Torn(r))
    /\ To(r, "tensors")
    /\ UNCHANGED <<config, rng, drawn, step, finite, path, announced, touched>>

WriteTensors(r) ==
    /\ pc[r] = "tensors"
    /\ \E content \in Contents(r, "tensors", Pair(path[r]).tensors, TensorsOf(r)) :
           PutTensors(path[r], content)
    /\ To(r, "saved")
    /\ UNCHANGED <<config, rng, drawn, step, finite, path, announced, touched>>

OpenSidecar(r) ==
    /\ pc[r] = "saved"
    /\ PutSidecar(path[r], Torn(r))
    /\ To(r, "sidecar")
    /\ UNCHANGED <<config, rng, drawn, step, finite, path, announced, touched>>

(* Once both are written the adapter is announced. *)
WriteSidecar(r) ==
    /\ pc[r] = "sidecar"
    /\ \E content \in Contents(r, "sidecar", Pair(path[r]).sidecar, SidecarOf(r)) :
           PutSidecar(path[r], content)
    /\ announced' = announced \cup {[path |-> path[r], by |-> r, factors |-> Factors(r)]}
    /\ To(r, IF path[r] = FinalPath(r) THEN "ended" ELSE "sample")
    /\ UNCHANGED <<config, rng, drawn, step, finite, path, touched>>

(* An error of the file system ends one run; a kill ends those of a process. *)
Stop(r) ==
    /\ pc[r] \notin {"start", "ended"}
    /\ To(r, "ended")
    /\ UNCHANGED <<config, rng, drawn, step, finite, path, files, announced, touched>>

Next == \E r \in Runs :
    \/ Validate(r) \/ Seed(r) \/ DrawNext(r) \/ TrainStep(r) \/ Checkpoint(r) \/ Sample(r)
    \/ OpenTensors(r) \/ WriteTensors(r) \/ OpenSidecar(r) \/ WriteSidecar(r)
    \/ Stop(r)

Spec == Init /\ [][Next]_vars

----------------------------------------------------------------------------
(* Loading, in a process of its own: the sidecar gives seed and sizes, the  *)
(* base is drawn again, the two factors must fit and be finite.              *)
LoadAdapter(backend, p) ==
    LET t == Pair(p).tensors
        meta == Pair(p).sidecar
    IN  IF t.state # "whole" \/ meta.state # "whole" THEN <<>>
        ELSE IF t.a # <<meta.dims[2], Rank(meta.rank)>> \/ t.b # <<Rank(meta.rank), meta.dims[3]>> \/ ~t.finite
        THEN <<>>
        ELSE <<[base |-> Replay(backend, meta.seed, NewDraws(meta.dims) \o LazyBase(meta.dims)),
                factors |-> t.factors, scaling |-> <<meta.alpha, Rank(meta.rank)>>]>>

(* `loractl sample` runs on ndarray, and refuses a velocity net. *)
SampleAdapter(p) ==
    IF Pair(p).sidecar.state = "whole" /\ Pair(p).sidecar.task = FlowMatching THEN <<>>
    ELSE LoadAdapter("ndarray", p)

(* How much of what a run has drawn it drew alone. *)
Clean(r) == IF touched[r] = Never THEN Len(drawn[r]) ELSE touched[r]

(* The frozen parameters among the draws of a run. *)
BaseOf(r) ==
    {d \in ToSet(drawn[r]) : \E i \in 1 .. 4 : Base(Dims(config[r]))[i][1] = d.of}

(* An adapter that was announced, and that no other run has since begun to  *)
(* write, loads, with the factors it had then and its run's scaling; and a  *)
(* run on ndarray that shared its generator with no other run until its     *)
(* base was drawn gets back that base: seed, construction and data are drawn *)
(* in the order that load_adapter repeats.                                   *)
AnnouncedIsTheRun == \A e \in announced :
    LET c == config[e.by]
        model == LoadAdapter("ndarray", e.path)
    IN  Pair(e.path).tensors.by = e.by /\ Pair(e.path).sidecar.by = e.by =>
            /\ model # <<>>
            /\ model[1].factors = e.factors
            /\ model[1].scaling = <<c.alpha, Rank(c.rank)>>
            /\ c.backend = "ndarray" /\ Clean(e.by) >= 4 => ToSet(model[1].base) = BaseOf(e.by)

(* No velocity net is ever sampled as a classifier, whatever two runs and a *)
(* kill have left at its path: the task is refused, and a sidecar of the    *)
(* other task has other sizes (sample_adapter, the shapes at load).         *)
VelocityNeverClassified == \A p \in DOMAIN files :
    SampleAdapter(p) # <<>> => config[Pair(p).tensors.by].task = Classification

(* Two runs that train the same thing draw the same numbers, whatever their *)
(* output directory, checkpoints and validation samples, up to where another *)
(* run first shared a generator of theirs; and without dropout a classifier *)
(* draws what the PyTorch reference is given (run_training, run_sample,     *)
(* synthetic_run_inputs).                                                    *)
SameStart(a, b, limit) == \A i \in 1 .. limit : i <= Len(a) /\ i <= Len(b) => a[i] = b[i]

RunsReproduce ==
    /\ \A r, s \in Runs : Recipe(config[r]) = Recipe(config[s]) =>
           SameStart(drawn[r], drawn[s], IF Clean(r) < Clean(s) THEN Clean(r) ELSE Clean(s))
    /\ \A r \in Runs : config[r].task = Classification /\ ~config[r].dropout =>
           SameStart(drawn[r], SyntheticRunInputs(config[r]), Clean(r))
=============================================================================
