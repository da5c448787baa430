------------------------------ MODULE BaseLoad ----------------------------
(* The checkpoint loaders of diffusion_trainer.rs: plain, scaled fp8, and   *)
(* the streaming loader of a quantized base. A model is [bases, params]:    *)
(* its frozen base linears, and every other parameter as [data, dtype,      *)
(* dims]. A load that fails is <<>>, one that succeeds <<model>>.            *)
EXTENDS TrainingAdapter

CONSTANTS
    Params,         \* path of every other parameter -> its shape in a checkpoint
    EncoderParams,  \* the same for the text encoder
    Linears         \* those that are weights of plain linears, stored transposed

ASSUME BaseLoadAssumption == Linears \subseteq DOMAIN Params \cup DOMAIN EncoderParams

Weight(site) == Append(site, "weight")

(* A burn module's paths: no parameter is a base weight, or under one.      *)
ASSUME PathsAssumption ==
    /\ \A p \in DOMAIN Dims : p \in Seq(STRING)
    /\ \A p \in DOMAIN Dims \cup DOMAIN Params : \A q \in DOMAIN Dims : p # Weight(q)
    /\ \A p \in DOMAIN Params : \A q \in DOMAIN Dims : Front(p) # Weight(q)

ASSUME ShapesAssumption ==
    /\ \A p \in DOMAIN Params : Params[p] \in Seq(Nat) /\ Len(Params[p]) <= 2
    /\ \A p \in DOMAIN EncoderParams : EncoderParams[p] \in Seq(Nat) /\ Len(EncoderParams[p]) <= 2

Stored(path, data) == IF path \in Linears THEN Transpose(data) ELSE data

InitParams(shapes, dtype) ==
    [p \in DOMAIN shapes |->
        [data |-> Stored(p, Matrix(Rows(shapes[p]), Cols(shapes[p]), LAMBDA i, j : Elem(<<"init">>, i, j))),
         dtype |-> dtype, dims |-> Len(shapes[p])]]

InitModel(dtype) == [bases |-> InitBases(dtype), params |-> InitParams(Params, dtype)]
InitEncoder(dtype) == [bases |-> <<>>, params |-> InitParams(EncoderParams, dtype)]

PlainSites(model) == {p \in DOMAIN model.bases : model.bases[p].arm = "Plain"}

(* The parameters the applier visits: those of a quantized weight are its   *)
(* chunks.                                                                   *)
Visited(model) ==
    DOMAIN model.params \cup {Weight(p) : p \in PlainSites(model)}
    \cup UNION {{Append(Weight(p), ToString(k)) : k \in 1 .. Len(model.bases[p].weight)} :
                    p \in DOMAIN model.bases \ PlainSites(model)}

(* A parameter of the model in the layout of a file. *)
InFileLayout(model, path) ==
    IF path \in DOMAIN model.params THEN Stored(path, model.params[path].data)
    ELSE Transpose(model.bases[Front(path)].weight)
FileDims(model, path) == IF path \in DOMAIN model.params THEN model.params[path].dims ELSE 2
SameShape(v, w) == Len(v) = Len(w) /\ Columns(v) = Columns(w)
FitsAt(model, path, snapshot) ==
    snapshot.dims = FileDims(model, path) /\ SameShape(snapshot.data, InFileLayout(model, path))

(* burn-store's applier over snapshots keyed by module path: what does not  *)
(* fit, what is not found, what nothing asked for, and the updated model,   *)
(* linear weights transposed and floats cast.                               *)
Apply(model, snapshots, dtype) ==
    LET found == {s.name : s \in snapshots} \cap Visited(model)
        at(path) == CastFloats(CHOOSE s \in snapshots : s.name = path, dtype)
    IN  [errors |-> {p \in found : ~FitsAt(model, p, at(p))},
         missing |-> Visited(model) \ found,
         unused |-> {s.name : s \in snapshots} \ Visited(model),
         model |->
            [bases |-> [p \in DOMAIN model.bases |->
                IF p \in PlainSites(model) /\ Weight(p) \in found
                THEN PlainLinear(Transpose(at(Weight(p)).data), at(Weight(p)).dtype)
                ELSE model.bases[p]],
             params |-> [p \in DOMAIN model.params |->
                IF p \in found
                THEN [data |-> Stored(p, at(p).data), dtype |-> at(p).dtype, dims |-> at(p).dims]
                ELSE model.params[p]]]]

Remapped(snapshots) == {[s EXCEPT !.name = KeyRemap(s.name)] : s \in snapshots}

(* A tensor nothing asks for is tolerated here. *)
LoadModule(file, dtype) ==
    LET result == Apply(InitModel(dtype), Remapped(LoadPlainSnapshots(file)), dtype)
    IN  IF PlainRefused(file) \/ result.errors # {} \/ result.missing # {} THEN <<>>
        ELSE <<result.model>>

(* Mutant: as lenient as the plain loader. *)
LoadFp8Loosely(file, dtype) ==
    IF Fp8Refused(file) THEN <<>>
    ELSE LET result == Apply(InitModel(dtype), Remapped(LoadFp8Snapshots(file)), dtype)
         IN  IF result.errors # {} \/ result.missing # {} THEN <<>>
             ELSE <<result.model>>

LoadFp8Module(file, dtype) ==
    IF Fp8Refused(file) THEN <<>>
    ELSE LET result == Apply(InitModel(dtype), Remapped(LoadFp8Snapshots(file)), dtype)
         IN  IF result.errors # {} \/ result.missing # {} \/ result.unused # {} THEN <<>>
             ELSE <<result.model>>

(* The text trunk alone is loaded: an fp8 repack names it "model", and what *)
(* the trunk does not use of a file is tolerated.                           *)
ComfyRemap(name) == IF Head(name) = "model" THEN <<"language_model">> \o Tail(name) ELSE name

LoadEncoder(file, dtype) ==
    LET named == IF IsFp8(file) THEN {[s EXCEPT !.name = ComfyRemap(s.name)] : s \in LoadFp8Snapshots(file)}
                 ELSE LoadPlainSnapshots(file)
        result == Apply(InitEncoder(dtype), {s \in named : Head(s.name) = "language_model"}, dtype)
    IN  IF Refused(file) THEN <<>>
        ELSE IF result.errors # {} \/ result.missing # {} THEN <<>> ELSE <<result.model>>

NoGrad(model) == [model EXCEPT !.bases = [p \in DOMAIN @ |-> [@[p] EXCEPT !.grad = FALSE]]]

LoadBase(file, dtype) ==
    IF IsFp8(file) THEN LoadFp8Module(file, dtype) ELSE LoadModule(file, dtype)

----------------------------------------------------------------------------
(* The streaming loader works on [model, byKey, covered]: the snapshots not *)
(* yet taken, and the weights the quantization pass has overwritten.        *)
Skeleton(dtype, chunkBytes) ==
    [InitModel(dtype) EXCEPT !.bases = IntoQuantizedChunked(@, chunkBytes)]

OpenStream(file, dtype, chunkBytes) ==
    [model |-> Skeleton(dtype, chunkBytes), byKey |-> Remapped(Snapshots(file)), covered |-> {}]

(* One site: a plain one is left to the applier; a quantized one takes its   *)
(* weight out of the stream, or fails: without it, and in a panic if it is   *)
(* no matrix or no block fits its rows.                                      *)
Quantizable(snapshot) == snapshot.dims = 2 /\ Columns(snapshot.data) % QuantBlock = 0

QuantizeSite(stream, site, chunkBytes) ==
    LET own == {s \in stream.byKey : s.name = Weight(site)}
        taken == CHOOSE s \in own : TRUE
    IN  IF stream.model.bases[site].arm = "Plain" THEN <<stream>>
        ELSE IF own = {} \/ ~Quantizable(taken) THEN <<>>
        ELSE <<[model |-> [stream.model EXCEPT !.bases[site].weight =
                               QuantizeChunked(taken.data, chunkBytes)],
                byKey |-> stream.byKey \ own,
                covered |-> stream.covered \cup {Weight(site)}]>>

(* A chunk of an overwritten weight is expected among the missing. *)
CoveredBy(stream, path) ==
    \/ path \in stream.covered
    \/ Front(path) \in stream.covered /\ Last(path) \in {ToString(k) : k \in 0 .. 9}

ApplyRest(stream, dtype) ==
    LET result == Apply(stream.model, stream.byKey, dtype)
    IN  IF \/ result.errors # {} \/ result.unused # {}
           \/ \E p \in result.missing : ~CoveredBy(stream, p)
        THEN <<>> ELSE <<result.model>>
============================================================================
