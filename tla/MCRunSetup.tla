----------------------------- MODULE MCRunSetup ---------------------------
(* An instance of RunSetup for TLC: one trunk and one fusion block of two   *)
(* sites each, one projection that no quantization block fits, two runs.    *)
EXTENDS RunSetup

CONSTANTS r1, r2, p1, p2

Trunk == <<<<"blocks", "0">>>>
Fusion == <<<<"txtfusion", "layerwise_blocks", "0">>>>
Attn == <<"gate">>
Mlp == <<"down">>
Fc1 == <<<<"tmlp", "fc1">>>>

Gate == <<"blocks", "0", "attn", "gate">>
DownSite == <<"blocks", "0", "mlp", "down">>
FusionGate == <<"txtfusion", "layerwise_blocks", "0", "attn", "gate">>
FusionDown == <<"txtfusion", "layerwise_blocks", "0", "mlp", "down">>
SiteDims == Gate :> <<2, 2>> @@ DownSite :> <<3, 4>> @@ FusionGate :> <<1, 2>>
            @@ FusionDown :> <<2, 2>> @@ Fc1[1] :> <<2, 3>>

First == <<"first", "weight">>
Bias == <<"tmlp", "fc1", "bias">>
Modulation == <<"blocks", "0", "modulation", "lin">>
OtherParams == First :> <<2, 1>> @@ Bias :> <<2>> @@ Modulation :> <<2>>
Trunk0 == <<"language_model", "layers", "0", "weight">>
Encoder == Trunk0 :> <<2, 1>>
Transposed == {First, Trunk0}

----------------------------------------------------------------------------
T(dtype, shape) == [dtype |-> dtype, shape |-> shape]
W(site) == Append(site, "weight")
S(site) == Append(site, "weight_scale")
Without(f, names) == [n \in DOMAIN f \ names |-> f[n]]

(* A stock checkpoint, in its own spelling and in two dtypes. *)
Stock ==
    W(Gate) :> T("BF16", <<2, 2>>) @@ W(DownSite) :> T("BF16", <<3, 4>>)
    @@ W(FusionGate) :> T("F32", <<1, 2>>) @@ W(FusionDown) :> T("BF16", <<2, 2>>)
    @@ <<"tmlp", "0", "weight">> :> T("F32", <<2, 3>>) @@ <<"tmlp", "0", "bias">> :> T("F32", <<2>>)
    @@ First :> T("F32", <<2, 1>>) @@ <<"blocks", "0", "mod", "lin">> :> T("BF16", <<2>>)

(* A scaled-fp8 repack: one weight per channel, one per tensor, a bias per  *)
(* entry, markers.                                                           *)
Fp8 ==
    W(DownSite) :> T("F8_E4M3", <<3, 4>>) @@ S(DownSite) :> T("F32", <<3>>)
    @@ W(Gate) :> T("F8_E4M3", <<2, 2>>) @@ S(Gate) :> T("F32", <<>>)
    @@ <<"tmlp", "0", "bias">> :> T("F8_E4M3", <<2>>) @@ <<"tmlp", "0", "bias_scale">> :> T("F32", <<2>>)
    @@ Append(Gate, "comfy_quant") :> T("U8", <<1>>)
    @@ Stock

PlainFiles ==
    {Stock,
     W(<<"lora">>) :> T("BF16", <<1, 1>>) @@ Stock,
     Without(Stock, {W(FusionGate)}),
     Without(Stock, {First}),
     W(Gate) :> T("BF16", <<3, 2>>) @@ Stock,
     W(Gate) :> T("BF16", <<2, 3>>) @@ Stock,
     <<"blocks", "0", "mod", "lin">> :> T("BF16", <<1, 2>>) @@ Stock,
     First :> T("F32", <<1, 2>>) @@ Stock,
     W(Gate) :> T("F8_E5M2", <<2, 2>>) @@ Stock}

Fp8Files ==
    {Fp8,
     W(<<"lora">>) :> T("BF16", <<1, 1>>) @@ Fp8,
     Without(Fp8, {S(Gate)}),
     Without(Fp8, {S(Gate)}) @@ Append(Gate, "scale_weight") :> T("F32", <<>>),
     S(FusionDown) :> T("F32", <<2>>) @@ Fp8,
     S(DownSite) :> T("F32", <<4>>) @@ Fp8,
     S(Gate) :> T("BF16", <<1>>) @@ Fp8}

TextEncoders ==
    {Trunk0 :> T("BF16", <<2, 1>>) @@ <<"visual", "weight">> :> T("BF16", <<1, 1>>),
     <<"model", "layers", "0", "weight">> :> T("F8_E4M3", <<2, 1>>)
       @@ <<"model", "layers", "0", "weight_scale">> :> T("F32", <<2>>)
       @@ <<"model", "norm", "weight">> :> T("F32", <<1>>)
       @@ <<"visual", "weight">> :> T("BF16", <<1, 1>>),
     <<"model", "layers", "0", "weight">> :> T("BF16", <<2, 1>>)}

Pair(prefix, down, up) ==
    prefix \o <<"lora_A", "weight">> :> T("BF16", down) @@ prefix \o <<"lora_B", "weight">> :> T("BF16", up)
Ostris(site) == <<"diffusion_model">> \o site
Kohya ==
    <<"tmlp", "0", "lora_down", "weight">> :> T("F32", <<1, 3>>)
    @@ <<"tmlp", "0", "lora_up", "weight">> :> T("F32", <<2, 1>>)
AlphaKey(prefix) == Append(prefix, "alpha") :> T("F32", <<>>)
NoAlpha == [x \in {} |-> 0]

Adapters ==
    {[tensors |-> Pair(Ostris(DownSite), <<2, 4>>, <<3, 2>>) @@ AlphaKey(Ostris(DownSite)) @@ Kohya,
      alpha |-> Ostris(DownSite) :> 4, meta |-> <<8, 4>>],
     [tensors |-> Pair(FusionGate, <<1, 2>>, <<1, 1>>), alpha |-> NoAlpha, meta |-> <<8, 0>>],
     [tensors |-> Gate \o <<"lora_A", "weight">> :> T("BF16", <<2>>) @@ Kohya, alpha |-> NoAlpha, meta |-> <<>>],
     [tensors |-> Pair(Gate, <<1, 2>>, <<2, 2>>), alpha |-> NoAlpha, meta |-> <<>>],
     [tensors |-> Pair(Gate, <<1, 3>>, <<2, 1>>), alpha |-> NoAlpha, meta |-> <<>>],
     [tensors |-> Pair(<<"blocks", "9", "attn", "gate">>, <<1, 2>>, <<2, 1>>) @@ Kohya,
      alpha |-> NoAlpha, meta |-> <<>>],
     [tensors |-> Without(Kohya, {<<"tmlp", "0", "lora_up", "weight">>}), alpha |-> NoAlpha, meta |-> <<>>],
     [tensors |-> Append(Gate, "dora_scale") :> T("F32", <<2>>) @@ Kohya, alpha |-> NoAlpha, meta |-> <<>>]}

----------------------------------------------------------------------------
NoLayer == [b \in {} |-> <<>>]
NoFlags == [f \in {} |-> <<>>]

(* What every request here has in its file, the compute and model keys      *)
(* aside: a trainable run.                                                   *)
File(model, compute) ==
    [run |-> [task |-> "flow"], model |-> [base |-> "models"] @@ model,
     lora |-> [targets |-> <<"blocks">>], dataset |-> [path |-> "images"],
     compute |-> [grad_checkpointing |-> TRUE, typo |-> 1] @@ compute]
Plain == File(NoLayer, [dequant_chunk_mib |-> 0])
Request(yaml, env, flags) == [yaml |-> yaml, env |-> env, flags |-> flags]

(* Every backend, precision and quantization, with and without an adapter,  *)
(* each from another layer, over what the file says; the thresholds: off, a *)
(* row and a half, two rows of the widest site.                             *)
Wanted ==
    {Request(File([training_adapter |-> a], [backend |-> "wgpu", precision |-> p, dequant_chunk_mib |-> 3]),
             [compute |-> [quant |-> q]], [backend |-> b]) :
         b \in DOMAIN BackendKind \ {"libtorch"}, p \in {"fp32", "half", "bf16"},
         q \in {"off", "i8", "int4"}, a \in {<<>>, <<"adapter">>}}
    \cup {Request(File([tokenizer |-> <<"present">>], [quant |-> "int8", dequant_chunk_mib |-> c]), NoLayer, NoFlags) :
              c \in {0, 1, 4}}
    \cup {Request(File([tokenizer |-> <<"missing">>], NoLayer), NoLayer, [quant |-> "i4"])}

(* A block in two layers, flags over misspellings, hidden misspellings,     *)
(* checks that only the resolved configuration passes or fails.             *)
Curve(keys) == [optim |-> [lr |-> 200], schedule |-> [kind |-> "linear", warmup_steps |-> 3] @@ keys]
Layered ==
    {Request(File(NoLayer, [backend |-> "wgpu", precision |-> "f16"]), [compute |-> [backend |-> "cpu"]], NoFlags),
     Request(File(NoLayer, [backend |-> "cpu"]), NoLayer, [backend |-> "ndarray"]),
     Request([b \in DOMAIN Plain \ {"lora"} |-> Plain[b]],
             [lora |-> [targets |-> <<"txtfusion">>, dropout |-> 10]], [grad_checkpointing |-> FALSE]),
     Request(Curve([min_lr |-> 150]) @@ File(NoLayer, [backend |-> "cpu", precision |-> "f16"]),
             [compute |-> [backend |-> "wgpu"]], [quant |-> "off", steps |-> 4]),
     Request(File(NoLayer, [quant |-> "int8"]), [compute |-> [precision |-> "f16"]], [precision |-> "full"]),
     Request([b \in DOMAIN Plain \ {"dataset"} |-> Plain[b]], NoLayer, NoFlags),
     Request(Plain, NoLayer, [resume |-> "adapter", no_resume |-> TRUE]),
     Request(Plain, [model |-> [base |-> "mnist"]], [no_resume |-> TRUE, no_metadata |-> TRUE]),
     Request(Plain, NoLayer, [task |-> "classification"]),
     Request(Plain, [lora |-> [dropout |-> 10]], NoFlags),
     Request(Curve([min_lr |-> 150]) @@ Plain, NoLayer, [steps |-> 3]),
     Request(Curve([min_lr |-> 150]) @@ Plain, [optim |-> [lr |-> 100]], NoFlags),
     Request(Curve([warmup |-> 1]) @@ Plain, NoLayer, NoFlags)}

RequestsOf == r1 :> (Wanted \cup Layered) @@ r2 :> {Request(Plain, NoLayer, NoFlags)}
CheckpointsOf == r1 :> (PlainFiles \cup Fp8Files) @@ r2 :> {Without(Stock, {First})}
Built == {"wgpu"}
PidSymmetry == Permutations(Pids)
============================================================================
