------------------------------ MODULE RunSetup ----------------------------
(* A diffusion run from the layers of its configuration to its first step:  *)
(* the resolved configuration, the checks of DiffusionTrainer::train, the   *)
(* encode phase with its lazily resolved tokenizer, and the frozen base     *)
(* with the training adapter folded in.                                      *)
EXTENDS BaseLoad, TokenizerFetch, ConfigLayers

CONSTANTS
    Features,           \* the GPU backends this binary was built with
    Requests,           \* run -> the layers of configuration it may be given
    MiB,                \* the bytes of a mebibyte, scaled to the sites
    Checkpoints,        \* run -> the denoiser files it may find
    EncoderFiles,       \* the text encoder files a run may find
    AdapterFiles        \* the training adapters a run may find

(* The flags are those of loractl train, and a threshold is a whole number. *)
ASSUME RequestsAssumption == \A r \in Runs : \A q \in Requests[r] :
    /\ DOMAIN q.flags \subseteq DOMAIN FlagKey
    /\ \A layer \in {q.yaml, q.env} :
           "compute" \in DOMAIN layer /\ "dequant_chunk_mib" \in DOMAIN layer["compute"] =>
               layer["compute"]["dequant_chunk_mib"] \in Nat

(* A header gives the sizes of its tensors. *)
ASSUME FilesAssumption ==
    /\ MiB \in Nat
    /\ \A r \in Runs : \A f \in Checkpoints[r] : \A name \in DOMAIN f : f[name].shape \in Seq(Nat)
    /\ \A f \in EncoderFiles : \A name \in DOMAIN f : f[name].shape \in Seq(Nat)
    /\ \A f \in AdapterFiles : \A name \in DOMAIN f.tensors : f.tensors[name].shape \in Seq(Nat)

(* A checkpoint has one tensor for a module path, none under a weight, and  *)
(* bytes for none.                                                           *)
ASSUME NamesAssumption ==
    /\ \A r \in Runs : \A f \in Checkpoints[r] : \A name \in DOMAIN f :
           /\ \A other \in DOMAIN f : KeyRemap(name) = KeyRemap(other) => name = other
           /\ \A p \in DOMAIN Dims : Front(KeyRemap(name)) # Weight(p)
           /\ f[name].dtype = "U8" =>
                  KeyRemap(name) \notin DOMAIN Params \cup {Weight(p) : p \in DOMAIN Dims}
    /\ \A f \in EncoderFiles : \A name, other \in DOMAIN f :
           ComfyRemap(name) = ComfyRemap(other) => name = other

(* "alpha" has the value of each ".alpha" key, and no factor is a sidecar.  *)
ASSUME AdaptersAssumption == \A f \in AdapterFiles : \A name \in DOMAIN f.tensors :
    /\ name \in Seq(STRING)
    /\ SitePrefix(name) \in DOMAIN f.alpha <=> Append(SitePrefix(name), "alpha") \in DOMAIN f.tensors
    /\ IsDown(name) => name \notin UsedScales(f.tensors)

VARIABLES
    pc,         \* where each run is
    request,    \* the layers it was given
    config,     \* its configuration, once resolved
    file,       \* the denoiser file and the training adapter it has opened
    load        \* what it holds in memory: an encoder, a stream or a model

vars == <<fetchVars, pc, request, config, file, load>>

Nothing == [kind |-> "nothing"]
NoFile == [base |-> <<>>, adapter |-> <<>>]

----------------------------------------------------------------------------
(* select_trainer: any base but the two built-in demos is a checkpoint. *)
RunsDiffusion(c) == c.model.base \notin {"synthetic", "mnist"}

OptimHolds(c) ==
    LET orZero(x) == IF x = <<>> THEN 0 ELSE x[1]
    IN  ~InvalidSchedule([kind |-> c.schedule.kind, warmup |-> c.schedule.warmup_steps,
                          minLr |-> c.schedule.min_lr, gammaInverse |-> orZero(c.schedule.gamma),
                          stepSize |-> orZero(c.schedule.step_size)],
                         c.optim.lr, c.run.steps)

DatasetHolds(c) == c.dataset.caption_dropout_rate \in 0 .. 100

(* The optimizer, dataset, task and target checks, and those of a           *)
(* checkpointed step.                                                        *)
SettingsHold(c) ==
    /\ OptimHolds(c)
    /\ DatasetHolds(c)
    /\ c.run.task = "flow-matching"
    /\ c.output.sample_every = 0
    /\ c.lora.targets # <<>>
    /\ ~(c.compute.grad_checkpointing /\ c.lora.dropout > 0)

(* A quantized base: two backends, f32, and nothing to merge. *)
QuantHolds(c) ==
    c.compute.quant # "none" =>
        /\ c.compute.backend \in {"ndarray", "cuda"}
        /\ c.compute.precision = "F32"
        /\ c.model.training_adapter = <<>>

(* Mutant: the check of wgpu's precision is missing. *)
BackendHoldsUnchecked(c) ==
    /\ c.compute.backend = "ndarray" => c.compute.precision = "F32"
    /\ c.compute.backend = "candle" => c.compute.precision # "F16"
    /\ c.compute.backend \in {"wgpu", "candle", "cuda"} => c.compute.backend \in Features
    /\ c.compute.backend = "cuda" => c.compute.precision = "F32"
    /\ c.compute.backend # "tch"

BackendHolds(c) ==
    /\ c.compute.backend = "ndarray" => c.compute.precision = "F32"
    /\ c.compute.backend = "wgpu" => c.compute.precision # "BF16"
    /\ c.compute.backend = "candle" => c.compute.precision # "F16"
    /\ c.compute.backend \in {"wgpu", "candle", "cuda"} => c.compute.backend \in Features
    /\ c.compute.backend = "cuda" => c.compute.precision = "F32"
    /\ c.compute.backend # "tch"

(* The arms of the dispatch, behind the features they are compiled under. *)
Arms ==
    {<<"ndarray", "F32">>}
    \cup (IF "wgpu" \in Features THEN {<<"wgpu", "F32">>, <<"wgpu", "F16">>} ELSE {})
    \cup (IF "candle" \in Features THEN {<<"candle", "F32">>, <<"candle", "BF16">>} ELSE {})
    \cup (IF "cuda" \in Features THEN {<<"cuda", "F32">>} ELSE {})

(* The ndarray and cuda arms do not look at the precision; no other arm is  *)
(* left than the ones that panic.                                            *)
Dispatch(c) ==
    LET own == {a \in Arms :
                   /\ a[1] = c.compute.backend
                   /\ c.compute.backend \in {"ndarray", "cuda"} \/ a[2] = c.compute.precision}
    IN  IF own = {} THEN <<"unreachable", "">> ELSE CHOOSE a \in own : TRUE

ChunkBytes(c) == c.compute.dequant_chunk_mib * MiB

----------------------------------------------------------------------------
Init ==
    /\ InitFetch
    /\ pc = [r \in Runs |-> "launch"]
    /\ request \in {q \in [Runs -> UNION Range(Requests)] : \A r \in Runs : q[r] \in Requests[r]}
    /\ config = [r \in Runs |-> Default]
    /\ file = [r \in Runs |-> NoFile]
    /\ load = [r \in Runs |-> Nothing]

To(r, place) == pc' = [pc EXCEPT ![r] = place]
Holding(r, what) == load' = [load EXCEPT ![r] = what]
Reading(r, what) == file' = [file EXCEPT ![r] = what]

(* A run that fails before its first step keeps nothing in memory. *)
End(r) == To(r, "ended") /\ Holding(r, Nothing) /\ Reading(r, NoFile)

(* The layers become one configuration, which names the trainer: the two    *)
(* demos have no part here.                                                  *)
Launch(r) ==
    /\ pc[r] = "launch"
    /\ LET resolved == ResolveConfig(request[r])
       IN  IF resolved = <<>> THEN To(r, "ended") /\ UNCHANGED config
           ELSE /\ config' = [config EXCEPT ![r] = resolved[1]]
                /\ To(r, IF RunsDiffusion(resolved[1]) THEN "start" ELSE "ended")
    /\ UNCHANGED <<fetchVars, request, file, load>>

(* Everything that needs no file is checked before anything is read. *)
Validate(r) ==
    /\ pc[r] = "start"
    /\ IF SettingsHold(config[r]) /\ QuantHolds(config[r]) /\ BackendHolds(config[r])
       THEN To(r, "encode") ELSE To(r, "ended")
    /\ UNCHANGED <<fetchVars, request, config, file, load>>

(* A warm dataset cache needs no encoder and no tokenizer; where only an   *)
(* image is missing the tokenizer is resolved but never read.               *)
EncodeWarm(r) ==
    /\ pc[r] = "encode" /\ fetch[r] \in {"idle", "override", "fetched"}
    /\ To(r, "dispatch") /\ Leave(r)
    /\ UNCHANGED <<request, config, file, load>>

(* The first miss resolves the tokenizer, before any checkpoint is loaded. *)
EncodeMiss(r) ==
    /\ pc[r] = "encode"
    /\ \E inBase \in BOOLEAN : Resolve(r, IF config[r].model.tokenizer = <<>> THEN "none" ELSE config[r].model.tokenizer[1], inBase)
    /\ UNCHANGED <<pc, request, config, file, load>>

Fetching(r) ==
    /\ pc[r] = "encode"
    /\ FetchStep(r)
    /\ UNCHANGED <<pc, request, config, file, load>>

(* The encoder is loaded in f32 on the CPU, and frozen; the conditioner then *)
(* reads the tokenizer.                                                      *)
EncodeLoad(r) ==
    /\ pc[r] = "encode" /\ fetch[r] \in {"override", "fetched"}
    /\ \E f \in EncoderFiles :
           LET encoder == LoadEncoder(f, "F32")
           IN  IF encoder = <<>> THEN End(r) /\ Leave(r)
               ELSE /\ To(r, "encoding")
                    /\ Holding(r, [kind |-> "encoder", from |-> f, encoder |-> encoder[1]])
                    /\ UNCHANGED <<fetchVars, file>>
    /\ UNCHANGED <<request, config>>

EncodeRead(r) ==
    /\ pc[r] = "encoding"
    /\ LoadTokenizer(r)
    /\ UNCHANGED <<pc, request, config, file, load>>

(* Its outputs are on disk when the phase ends; the models are dropped. *)
EncodeDone(r) ==
    /\ pc[r] = "encoding" /\ fetch[r] = "loaded"
    /\ To(r, "dispatch") /\ Holding(r, Nothing) /\ Leave(r)
    /\ UNCHANGED <<request, config, file>>

EncodeFails(r) ==
    /\ pc[r] \in {"encode", "encoding"} /\ fetch[r] = "failed"
    /\ End(r) /\ Leave(r)
    /\ UNCHANGED <<request, config>>

(* The plain and the fp8 loader return a whole model or fail; the quantized *)
(* one opens a stream over the file. An arm that panics ends the run.       *)
OpenBase(r) ==
    /\ pc[r] = "dispatch"
    /\ \E f \in Checkpoints[r] :
           LET dtype == Dispatch(config[r])[2]
               refused == \/ Dispatch(config[r])[1] = "unreachable"
                          \/ config[r].compute.quant # "none" /\ Refused(f)
           IN  IF refused THEN End(r)
               ELSE IF config[r].compute.quant # "none"
               THEN /\ To(r, "quantize") /\ Reading(r, [NoFile EXCEPT !.base = f])
                    /\ Holding(r, [kind |-> "stream", site |-> 1,
                                   stream |-> OpenStream(f, dtype, ChunkBytes(config[r]))])
               ELSE LET model == LoadBase(f, dtype)
                    IN  IF model = <<>> THEN End(r)
                        ELSE /\ To(r, "loaded") /\ Reading(r, [NoFile EXCEPT !.base = f])
                             /\ Holding(r, [kind |-> "model", model |-> NoGrad(model[1])])
    /\ UNCHANGED <<fetchVars, request, config>>

QuantizeNext(r) ==
    /\ pc[r] = "quantize" /\ load[r].site <= Len(AllBaseLinears)
    /\ LET stream == QuantizeSite(load[r].stream, AllBaseLinears[load[r].site], ChunkBytes(config[r]))
       IN  IF stream = <<>> THEN End(r)
           ELSE Holding(r, [load[r] EXCEPT !.site = @ + 1, !.stream = stream[1]]) /\ UNCHANGED <<pc, file>>
    /\ UNCHANGED <<fetchVars, request, config>>

(* The applier takes the rest; the model is lifted and frozen. *)
QuantizeDone(r) ==
    /\ pc[r] = "quantize" /\ load[r].site > Len(AllBaseLinears)
    /\ LET model == ApplyRest(load[r].stream, Dispatch(config[r])[2])
       IN  IF model = <<>> THEN End(r)
           ELSE /\ To(r, "loaded") /\ UNCHANGED file
                /\ Holding(r, [kind |-> "model", model |-> NoGrad(model[1])])
    /\ UNCHANGED <<fetchVars, request, config>>

NoAdapter(r) ==
    /\ pc[r] = "loaded" /\ config[r].model.training_adapter = <<>>
    /\ To(r, "ready")
    /\ UNCHANGED <<fetchVars, request, config, file, load>>

OpenAdapter(r) ==
    /\ pc[r] = "loaded" /\ config[r].model.training_adapter # <<>>
    /\ \E f \in AdapterFiles :
           IF AdapterRefused(f) THEN End(r)
           ELSE /\ To(r, "merge") /\ Reading(r, [file[r] EXCEPT !.adapter = <<f>>])
                /\ Holding(r, [kind |-> "merge", model |-> load[r].model, site |-> 1, left |-> AdapterSites(f)])
    /\ UNCHANGED <<fetchVars, request, config>>

(* The sites of the base are visited in order, and one the adapter names is *)
(* taken from it; a quantized or misfitting one ends the run.                *)
MergeNext(r) ==
    /\ pc[r] = "merge" /\ load[r].site <= Len(AllBaseLinears)
    /\ LET path == AllBaseLinears[load[r].site]
           named == {s \in load[r].left : s.path = path}
           base == load[r].model.bases[path]
       IN  IF named = {} THEN Holding(r, [load[r] EXCEPT !.site = @ + 1]) /\ UNCHANGED <<pc, file>>
           ELSE LET site == CHOOSE s \in named : TRUE
                IN  IF base.arm = "Quant" \/ ~Fits(base, site) THEN End(r)
                    ELSE /\ Holding(r, [load[r] EXCEPT !.site = @ + 1, !.left = @ \ named,
                                                       !.model.bases[path] = MergedLinear(base, site)])
                         /\ UNCHANGED <<pc, file>>
    /\ UNCHANGED <<fetchVars, request, config>>

(* What no site took ends the run. *)
MergeDone(r) ==
    /\ pc[r] = "merge" /\ load[r].site > Len(AllBaseLinears)
    /\ IF load[r].left # {} THEN End(r)
       ELSE To(r, "ready") /\ Holding(r, [kind |-> "model", model |-> load[r].model]) /\ UNCHANGED file
    /\ UNCHANGED <<fetchVars, request, config>>

(* A kill, a full disk, an unreadable file, a resume plan or an output      *)
(* directory that fails: anywhere before the first step.                    *)
Stop(r) ==
    /\ pc[r] \notin {"ended", "ready"}
    /\ End(r) /\ Leave(r)
    /\ UNCHANGED <<request, config>>

Next == \E r \in Runs :
    \/ Launch(r) \/ Validate(r) \/ EncodeWarm(r) \/ EncodeMiss(r) \/ Fetching(r)
    \/ EncodeLoad(r) \/ EncodeRead(r) \/ EncodeDone(r) \/ EncodeFails(r)
    \/ OpenBase(r) \/ QuantizeNext(r) \/ QuantizeDone(r)
    \/ NoAdapter(r) \/ OpenAdapter(r) \/ MergeNext(r) \/ MergeDone(r)
    \/ Stop(r)

Spec == Init /\ [][Next]_vars

----------------------------------------------------------------------------
(* What the layers of a run ask for at a key: the flag if one is passed,    *)
(* else the variable, else the file, else the default.                      *)
LastWord(q, b, k) ==
    LET writes(layer) == b \in DOMAIN layer /\ k \in DOMAIN layer[b]
        flags == {f \in DOMAIN q.flags : FlagKey[f] = <<b, k>>}
    IN  CASE flags # {} -> FlagValue(CHOOSE f \in flags : TRUE, q.flags[CHOOSE f \in flags : TRUE])
          [] flags = {} /\ writes(q.env) -> Read(b, k, q.env[b][k])
          [] flags = {} /\ ~writes(q.env) /\ writes(q.yaml) -> Read(b, k, q.yaml[b][k])
          [] OTHER -> Default[b][k]

(* A run past the checks finds an arm of the dispatch, never a panic, on    *)
(* the backend and in the precision its layers asked for last, and holds a  *)
(* quantized base exactly if they asked for one, which a merge never meets  *)
(* (load_config and resolve_config, train's checks, the match on backend    *)
(* and precision, the Quant arm of merge_training_adapter).                 *)
OnlyWiredRunsLoad == \A r \in Runs :
    LET asked(b, k) == LastWord(request[r], b, k)
    IN  /\ pc[r] \notin {"launch", "start", "ended"} =>
               Dispatch(config[r]) = <<asked("compute", "backend"), asked("compute", "precision")>>
        /\ load[r].kind \in {"model", "merge"} =>
               (\E p \in DOMAIN load[r].model.bases : load[r].model.bases[p].arm = "Quant")
                   <=> asked("compute", "quant") # "none"
        /\ load[r].kind = "merge" =>
               /\ asked("model", "training_adapter") # <<>>
               /\ \A p \in DOMAIN load[r].model.bases : load[r].model.bases[p].arm = "Plain"

(* The file's tensor for a module path, and the scale that belongs to one   *)
(* of its elements: of the row of a matrix, of the entry of a vector.        *)
TensorOf(f, path) == CHOOSE name \in DOMAIN f : KeyRemap(name) = path
OwnScale(f, name, row, col) ==
    IF f[name].dtype # "F8_E4M3" THEN 0
    ELSE IF f[ScaleName(name)].shape \in {<<>>, <<1>>} THEN 1
    ELSE IF Len(f[name].shape) = 2 THEN row ELSE col

(* The down factors of an adapter that mean a site, and the delta such a    *)
(* factor stands for in PyTorch terms: (alpha / rank) . up . down.           *)
DownsOf(f, site) ==
    {name \in DOMAIN f.tensors :
        /\ IsDown(name) /\ Len(f.tensors[name].shape) = 2
        /\ RemapSitePath(StripPrefix(SitePrefix(name))) = site}
IsDelta(delta, f, down, row, col) ==
    LET rank == f.tensors[down].shape[1]
        prefix == SitePrefix(down)
    IN  /\ Len(delta.terms) = rank
        /\ \A k \in 1 .. rank :
               /\ delta.terms[k][1] = down /\ delta.terms[k][2] = <<k, col>>
               /\ SitePrefix(delta.terms[k][3]) = prefix /\ delta.terms[k][4] = <<row, k>>
        /\ delta.scaling = IF prefix \in DOMAIN f.alpha THEN <<f.alpha[prefix], rank>>
                           ELSE IF f.meta # <<>> /\ f.meta[2] > 0 THEN f.meta ELSE <<1, 1>>

SiteIsTheFile(r, site) ==
    LET base == load[r].model.bases[site]
        f == file[r].base
        name == TensorOf(f, Weight(site))
        rows == ForwardRows(base)
    IN  /\ Len(rows) = f[name].shape[1] /\ ~base.grad
        /\ base.dtype = IF base.arm = "Quant" THEN "Q" ELSE config[r].compute.precision
        /\ \A o \in 1 .. Len(rows) : \A i \in 1 .. f[name].shape[2] :
               LET e == rows[o][i]
                   first == ((i - 1) \div QuantBlock) * QuantBlock + 1
               IN  /\ e.of = name /\ e.at = <<o, i>> /\ e.scale = OwnScale(f, name, o, i)
                   /\ e.block = IF base.arm = "Plain" THEN {}
                                ELSE {<<o, k>> : k \in first .. first + QuantBlock - 1}
                   /\ IF file[r].adapter = <<>> THEN e.plus = <<>>
                      ELSE LET downs == DownsOf(file[r].adapter[1], site)
                           IN  IF downs = {} THEN e.plus = <<>>
                               ELSE /\ Len(e.plus) = 1
                                    /\ \E d \in downs : IsDelta(e.plus[1], file[r].adapter[1], d, o, i)

ParamIsTheFile(params, f, name, path) ==
    LET data == Stored(path, params[path].data)
    IN  \A i \in 1 .. Rows(f[name].shape) : \A j \in 1 .. Cols(f[name].shape) :
            data[i][j] = [Elem(name, i, j) EXCEPT !.scale = OwnScale(f, name, i, j)]

(* A base loaded from an fp8 file, or quantized, has used every tensor of   *)
(* its file but the known inference markers: the two strict loaders refuse  *)
(* what the model does not consume.                                          *)
NothingIsIgnored == \A r \in Runs :
    pc[r] = "ready" /\ (IsFp8(file[r].base) \/ config[r].compute.quant # "none") =>
        \A name \in DOMAIN file[r].base :
            \/ KeyRemap(name) \in DOMAIN Params \cup {Weight(p) : p \in DOMAIN Dims}
            \/ name \in UsedScales(file[r].base)
            \/ IsFp8(file[r].base) /\ Marker(name)

(* When the first step may run, each frozen parameter is what its tensor of *)
(* the checkpoint says, row for row, under its own scale and quantization   *)
(* block, in the run's dtype, tracking no gradient, with the delta of the   *)
(* training adapter added exactly once, and never a random placeholder, and *)
(* nothing of the file is left over: the three loaders, the traversal of    *)
(* the sites and the merge agree.                                            *)
BaseIsTheFile == NothingIsIgnored /\ \A r \in Runs :
    /\ pc[r] = "ready" =>
           /\ \A site \in DOMAIN Dims : SiteIsTheFile(r, site)
           /\ \A p \in DOMAIN Params :
                  /\ ParamIsTheFile(load[r].model.params, file[r].base, TensorOf(file[r].base, p), p)
                  /\ load[r].model.params[p].dtype = config[r].compute.precision
    /\ pc[r] = "encoding" =>
           \A p \in DOMAIN EncoderParams :
               LET name == CHOOSE n \in DOMAIN load[r].from : ComfyRemap(n) = p
               IN  ParamIsTheFile(load[r].encoder.params, load[r].from, name, p)

(* A quantized site never dequantizes more than the threshold at once,      *)
(* unless a single row exceeds it, and is not split more than that needs:   *)
(* chunk sizes differ by at most a row and one chunk fewer would not fit.   *)
ChunksFit == \A r \in Runs : load[r].kind = "model" =>
    \A p \in DOMAIN load[r].model.bases :
        LET chunks == Transients(load[r].model.bases[p])
            limit == ChunkBytes(config[r])
            rowBytes == chunks[1].bytes \div chunks[1].rows
            all == Len(ForwardRows(load[r].model.bases[p]))
        IN  load[r].model.bases[p].arm = "Quant" =>
                /\ \A k \in 1 .. Len(chunks) :
                       /\ limit > 0 => chunks[k].bytes <= limit \/ chunks[k].rows = 1
                       /\ \A l \in 1 .. Len(chunks) : chunks[k].rows - chunks[l].rows \in -1 .. 1
                /\ Len(chunks) > 1 =>
                       LET fewer == Len(chunks) - 1
                       IN  limit > 0 /\ ((all + fewer - 1) \div fewer) * rowBytes > limit
============================================================================
