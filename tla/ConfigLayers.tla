---------------------------- MODULE ConfigLayers --------------------------
(* The configuration of a run (config.rs; load_config and resolve_config of *)
(* cli.rs): a YAML file, the LORACTL_ variables over it, the flags over     *)
(* both. A layer is a function block -> key -> what is written there, the   *)
(* top level being the block "run"; the document of a POST is a request of  *)
(* one layer. What is written is taken in lower case, and values that are   *)
(* no enumeration are written as what they are. Option fields are <<>> or   *)
(* <<x>>; rates and factors are in hundredths, learning rates in 1e-6.      *)
EXTENDS LrSchedule, Sequences

----------------------------------------------------------------------------
(* The enumerations, and every spelling their FromStr accepts. *)
Spellings(pairs) ==
    [name \in UNION {p[2] : p \in pairs} |-> (CHOOSE p \in pairs : name \in p[2])[1]]

TaskKind == Spellings(
    {<<"classification", {"classification"}>>,
     <<"flow-matching", {"flow-matching", "flow_matching", "flowmatching", "flow"}>>})
ModelVariant == Spellings(
    {<<"krea2", {"krea2", "krea-2"}>>, <<"krea2-turbo", {"krea2-turbo", "krea2turbo", "turbo"}>>,
     <<"tiny-krea2", {"tiny-krea2", "tinykrea2"}>>})
BucketMode == Spellings({<<"aspects", {"aspects"}>>, <<"grid", {"grid"}>>})
ShiftMode == Spellings({<<"constant", {"constant"}>>, <<"resolution", {"resolution"}>>})
ScheduleKind == [k \in Kinds |-> k]
BackendKind == Spellings(
    {<<"ndarray", {"ndarray"}>>, <<"wgpu", {"wgpu"}>>, <<"candle", {"candle"}>>,
     <<"cuda", {"cuda"}>>, <<"tch", {"tch", "libtorch"}>>})
Precision == Spellings(
    {<<"F32", {"f32", "fp32", "full"}>>, <<"F16", {"f16", "fp16", "half"}>>,
     <<"BF16", {"bf16", "bfloat16"}>>})
Quant == Spellings(
    {<<"none", {"none", "off", "f32"}>>, <<"int8", {"int8", "i8"}>>, <<"int4", {"int4", "i4"}>>})

Enumerations ==
    [run |-> [task |-> TaskKind], model |-> [variant |-> ModelVariant],
     dataset |-> [bucketing |-> BucketMode], flow |-> [shift_mode |-> ShiftMode],
     schedule |-> [kind |-> ScheduleKind],
     compute |-> [backend |-> BackendKind, precision |-> Precision, quant |-> Quant]]
Enumerated(b, k) == b \in DOMAIN Enumerations /\ k \in DOMAIN Enumerations[b]

----------------------------------------------------------------------------
(* What a key that no layer names is, whether or not its block is there. *)
TrainDefault == [steps |-> 1000, seed |-> 0, task |-> "classification"]
MetadataDefault ==
    [embed |-> TRUE, trigger_words |-> <<>>, title |-> <<>>, description |-> <<>>, author |-> <<>>,
     license |-> <<>>, tags |-> <<>>, comment |-> <<>>]
ModelDefault ==
    [base |-> "synthetic", variant |-> "krea2", checkpoint |-> <<>>, denoiser |-> <<>>,
     text_encoder |-> <<>>, vae |-> <<>>, tokenizer |-> <<>>, training_adapter |-> <<>>]
LoraDefault == [rank |-> 16, alpha |-> 16, dropout |-> 0, targets |-> <<>>]
DatasetDefault ==
    [path |-> "", resolution |-> 512, batch_size |-> 1, no_upscale |-> FALSE, bucketing |-> "aspects",
     min_bucket_resolution |-> <<>>, caption_dropout_rate |-> 0]
OptimDefault == [lr |-> 100, weight_decay |-> 0]
ScheduleDefault == [kind |-> "constant", warmup_steps |-> 0, min_lr |-> 0, gamma |-> <<>>, step_size |-> <<>>]
OutputDefault == [dir |-> "output", name |-> "lora", checkpoint_every |-> 250, sample_every |-> 0]
ResumeDefault == [from |-> <<>>, auto |-> TRUE, allow_unfinished |-> FALSE]
ComputeDefault ==
    [backend |-> "ndarray", device |-> 0, precision |-> "F32", grad_checkpointing |-> FALSE,
     quant |-> "none", dequant_chunk_mib |-> 512]
FlowDefault ==
    [logit_mean |-> 0, logit_std |-> 100, shift |-> 300, shift_mode |-> "constant",
     base_image_seq_len |-> 256, max_image_seq_len |-> 6400, base_shift |-> 50, max_shift |-> 115]

Default ==
    [run |-> TrainDefault, metadata |-> MetadataDefault, model |-> ModelDefault, lora |-> LoraDefault,
     dataset |-> DatasetDefault, optim |-> OptimDefault, schedule |-> ScheduleDefault,
     output |-> OutputDefault, resume |-> ResumeDefault, compute |-> ComputeDefault, flow |-> FlowDefault]

(* The keys with no default of their own when a document is read. *)
Required == [model |-> {"base"}, lora |-> {}, dataset |-> {"path"}]

----------------------------------------------------------------------------
Over(top, under) ==
    [k \in DOMAIN top \cup DOMAIN under |-> IF k \in DOMAIN top THEN top[k] ELSE under[k]]

(* Mutant: a block of the environment replaces that of the file. *)
MergeShallow(yaml, env) == Over(env, yaml)

(* Figment merges key by key, the environment over the file. *)
Merge(yaml, env) ==
    [b \in DOMAIN yaml \cup DOMAIN env |->
        IF b \notin DOMAIN env THEN yaml[b]
        ELSE IF b \notin DOMAIN yaml THEN env[b] ELSE Over(env[b], yaml[b])]

(* What the merged document holds at a key must be read, so a misspelling   *)
(* that a variable hides is harmless; unknown keys are ignored, except in   *)
(* optim.schedule, which denies them.                                        *)
Readable(b, k, written) == Enumerated(b, k) => written \in DOMAIN Enumerations[b][k]
Read(b, k, written) == IF Enumerated(b, k) THEN Enumerations[b][k][written] ELSE written

Extractable(document) ==
    /\ \A b \in DOMAIN Required : b \in DOMAIN document /\ Required[b] \subseteq DOMAIN document[b]
    /\ \A b \in DOMAIN document : \A k \in DOMAIN document[b] : Readable(b, k, document[b][k])
    /\ "schedule" \in DOMAIN document => DOMAIN document["schedule"] \subseteq DOMAIN ScheduleDefault

Extract(document) ==
    [b \in DOMAIN Default |->
        [k \in DOMAIN Default[b] |->
            IF b \in DOMAIN document /\ k \in DOMAIN document[b] THEN Read(b, k, document[b][k])
            ELSE Default[b][k]]]

----------------------------------------------------------------------------
(* The key that each flag of loractl train overrides, and with what. *)
FlagKey ==
    [lr |-> <<"optim", "lr">>, steps |-> <<"run", "steps">>, task |-> <<"run", "task">>,
     backend |-> <<"compute", "backend">>, device |-> <<"compute", "device">>,
     precision |-> <<"compute", "precision">>, quant |-> <<"compute", "quant">>,
     grad_checkpointing |-> <<"compute", "grad_checkpointing">>,
     denoiser |-> <<"model", "denoiser">>, text_encoder |-> <<"model", "text_encoder">>,
     vae |-> <<"model", "vae">>, tokenizer |-> <<"model", "tokenizer">>,
     trigger_words |-> <<"metadata", "trigger_words">>, no_metadata |-> <<"metadata", "embed">>,
     resume |-> <<"resume", "from">>, no_resume |-> <<"resume", "auto">>,
     resume_unfinished |-> <<"resume", "allow_unfinished">>]
FlagValue(flag, passed) ==
    CASE flag \in {"denoiser", "text_encoder", "vae", "tokenizer", "resume"} -> <<passed>>
      [] flag \in {"no_metadata", "no_resume"} -> FALSE
      [] flag = "resume_unfinished" -> TRUE
      [] OTHER -> Read(FlagKey[flag][1], FlagKey[flag][2], passed)

(* What the parser of the command line refuses before any file is read. *)
Parsed(flags) ==
    /\ \A f \in DOMAIN flags : Readable(FlagKey[f][1], FlagKey[f][2], flags[f])
    /\ ~({"resume", "no_resume"} \subseteq DOMAIN flags)

Override(config, flags) ==
    [b \in DOMAIN config |-> [k \in DOMAIN config[b] |->
        IF \E f \in DOMAIN flags : FlagKey[f] = <<b, k>>
        THEN LET f == CHOOSE g \in DOMAIN flags : FlagKey[g] = <<b, k>> IN FlagValue(f, flags[f])
        ELSE config[b][k]]]

(* The configuration of a request, or nothing: the flags are the last word, *)
(* but they are applied to a document that must be readable without them.   *)
ResolveConfig(request) ==
    LET document == Merge(request.yaml, request.env)
    IN  IF Parsed(request.flags) /\ Extractable(document)
        THEN <<Override(Extract(document), request.flags)>> ELSE <<>>
============================================================================
