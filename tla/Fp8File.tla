------------------------------ MODULE Fp8File -----------------------------
(* Safetensors files and the lazy snapshots read from them (fp8.rs). A file *)
(* is a function from tensor names to [dtype, shape]; a name is the         *)
(* sequence of its dotted segments, its last segment the leaf. A snapshot   *)
(* is the tensor it stands for, with the scale of each element; a vector is *)
(* a matrix of one row.                                                      *)
EXTENDS FrozenLinear

Leaf(name) == Last(name)
ScaleName(name) == Append(Front(name), Last(name) \o "_scale")
Marker(name) == Leaf(name) \in {"comfy_quant", "input_scale"}

Mapped == {"F32", "BF16", "U8"}
Floats == {"F32", "BF16"}

IsFp8(file) == \E name \in DOMAIN file : file[name].dtype = "F8_E4M3"

Rows(shape) == IF Len(shape) = 2 THEN shape[1] ELSE 1
Cols(shape) == IF shape = <<>> THEN 1 ELSE Last(shape)

Snapshot(name, dtype, shape, El(_, _)) ==
    [name |-> name, dtype |-> dtype, dims |-> Len(shape),
     data |-> Matrix(Rows(shape), Cols(shape), El)]

PlainSnapshot(file, name) ==
    Snapshot(name, file[name].dtype, file[name].shape, LAMBDA i, j : Elem(name, i, j))

(* Mutant: the scales run along the columns. *)
DequantByColumn(file, name) ==
    LET shape == file[name].shape
        sshape == file[ScaleName(name)].shape
    IN  Snapshot(name, "F32", shape, LAMBDA i, j :
            [Elem(name, i, j) EXCEPT !.scale = IF sshape \in {<<>>, <<1>>} THEN 1
                                               ELSE ((j - 1) % Cols(sshape)) + 1])

(* One scale multiplies every element, or scale[i / row] the flat index i. *)
DequantSnapshot(file, name) ==
    LET shape == file[name].shape
        sshape == file[ScaleName(name)].shape
        scales == Cols(sshape)
        row == (Rows(shape) * Cols(shape)) \div scales
        flat(i, j) == (i - 1) * Cols(shape) + j - 1
    IN  Snapshot(name, "F32", shape, LAMBDA i, j :
            [Elem(name, i, j) EXCEPT !.scale = IF sshape \in {<<>>, <<1>>} THEN 1
                                               ELSE (flat(i, j) \div row) + 1])

(* A sidecar is scalar or has one entry for each output channel. *)
ScaleFits(file, name) ==
    /\ ScaleName(name) \in DOMAIN file
    /\ file[ScaleName(name)].dtype = "F32"
    /\ \/ file[ScaleName(name)].shape \in {<<>>, <<1>>}
       \/ /\ file[name].shape # <<>>
          /\ file[ScaleName(name)].shape = <<file[name].shape[1]>>
          /\ file[name].shape[1] # 0

Fp8Names(file) == {name \in DOMAIN file : file[name].dtype = "F8_E4M3"}
UsedScales(file) == {ScaleName(name) : name \in Fp8Names(file)}

(* The hard errors of the header pass: the legacy convention, an fp8 tensor *)
(* without a fitting sidecar, a sidecar without its fp8 tensor, a dtype     *)
(* that is not mapped.                                                      *)
Fp8Refused(file) ==
    \/ \E name \in DOMAIN file : name = <<"scaled_fp8">> \/ Leaf(name) = "scale_weight"
    \/ \E name \in Fp8Names(file) : ~ScaleFits(file, name)
    \/ \E name \in DOMAIN file \ (UsedScales(file) \cup Fp8Names(file)) :
           \/ Leaf(name) = "weight_scale"
           \/ ~Marker(name) /\ file[name].dtype \notin Mapped

LoadFp8Snapshots(file) ==
    {IF name \in Fp8Names(file) THEN DequantSnapshot(file, name) ELSE PlainSnapshot(file, name) :
        name \in {n \in DOMAIN file : n \notin UsedScales(file) /\ (n \in Fp8Names(file) \/ ~Marker(n))}}

PlainRefused(file) == \E name \in DOMAIN file : file[name].dtype \notin Mapped
LoadPlainSnapshots(file) == {PlainSnapshot(file, name) : name \in DOMAIN file}

(* The source a checkpoint is read through, chosen from its header alone. *)
Refused(file) == IF IsFp8(file) THEN Fp8Refused(file) ELSE PlainRefused(file)
Snapshots(file) == IF IsFp8(file) THEN LoadFp8Snapshots(file) ELSE LoadPlainSnapshots(file)

(* CastFloatsAdapter: every float tensor takes the dtype of the module. *)
CastFloats(snapshot, target) ==
    IF snapshot.dtype \in Floats THEN [snapshot EXCEPT !.dtype = target] ELSE snapshot
============================================================================
