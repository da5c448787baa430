--------------------------- MODULE FrozenLinear ---------------------------
(* The frozen base linears of the denoiser (mmdit.rs, quant.rs): plain, in  *)
(* burn's [d_in, d_out] storage, or quantized, as row chunks of the file's  *)
(* [d_out, d_in] layout. A matrix is a sequence of rows of elements, and an *)
(* element says where its value comes from: the tensor and the position in *)
(* the file, the entry of its scale sidecar (0: none), the elements that    *)
(* share its quantization scale, and the low-rank deltas added to it.       *)
EXTENDS Integers, Sequences, SequencesExt, TLC

CONSTANTS
    QuantBlock,     \* elements of a quantization block, 32 in the code
    TrunkBlocks,    \* paths of the trunk blocks, in order
    FusionBlocks,   \* paths of the text-fusion blocks, layerwise then refiner
    AttnFields,     \* the projections of an attention block, in order
    MlpFields,      \* the projections of a SwiGLU, in order
    Projections,    \* paths of the time and text projections, in order
    Dims            \* path of a base linear -> <<d_out, d_in>>

ASSUME FrozenLinearAssumption ==
    /\ QuantBlock \in Nat \ {0}
    /\ Dims \in [DOMAIN Dims -> Nat \X Nat]
    /\ IsInjective(TrunkBlocks \o FusionBlocks \o Projections)
    /\ IsInjective(AttnFields) /\ IsInjective(MlpFields)

Elem(name, i, j) ==
    [of |-> name, at |-> <<i, j>>, scale |-> 0, block |-> {}, plus |-> <<>>]

Matrix(m, n, El(_, _)) == [i \in 1 .. m |-> [j \in 1 .. n |-> El(i, j)]]
Columns(w) == IF w = <<>> THEN 0 ELSE Len(w[1])
Transpose(w) == Matrix(Columns(w), Len(w), LAMBDA i, j : w[j][i])

(* Tensor::narrow along the first dimension. *)
Narrow(w, start, rows) == SubSeq(w, start + 1, start + rows)

(* Weight-only, symmetric, one scale for each [1, QuantBlock] block: what an *)
(* element becomes depends on the elements of its row that share its block. *)
Quantized(w, i, j) ==
    LET b == (j - 1) \div QuantBlock
    IN  [w[i][j] EXCEPT !.block = {w[i][k].at : k \in b * QuantBlock + 1 .. (b + 1) * QuantBlock}]
QuantizeWeight(w) == Matrix(Len(w), Columns(w), LAMBDA i, j : Quantized(w, i, j))

(* Mutant: the number of chunks is rounded down. *)
TooFewChunks(dOut, dIn, chunkBytes) ==
    IF chunkBytes = 0 \/ dOut * dIn * 4 <= chunkBytes \/ dOut <= 1
    THEN <<dOut>>
    ELSE LET fit == chunkBytes \div (dIn * 4)
             n == dOut \div (IF fit = 0 THEN 1 ELSE fit)
         IN  [i \in 1 .. n |-> (dOut \div n) + (IF i <= dOut % n THEN 1 ELSE 0)]

(* The number of d_out rows of each chunk under a threshold of "chunkBytes" *)
(* bytes of f32; 0 disables chunking and a chunk is never less than a row.  *)
ChunkRows(dOut, dIn, chunkBytes) ==
    IF chunkBytes = 0 \/ dOut * dIn * 4 <= chunkBytes \/ dOut <= 1
    THEN <<dOut>>
    ELSE LET fit == chunkBytes \div (dIn * 4)
             maxRows == IF fit = 0 THEN 1 ELSE fit
             n == (dOut + maxRows - 1) \div maxRows
         IN  [i \in 1 .. n |-> (dOut \div n) + (IF i <= dOut % n THEN 1 ELSE 0)]

(* The chunks of a weight in file layout, each cut after the rows taken. *)
QuantizeChunked(w, chunkBytes) ==
    LET rows == ChunkRows(Len(w), Columns(w), chunkBytes)
        taken[k \in 0 .. Len(rows)] == IF k = 0 THEN 0 ELSE taken[k - 1] + rows[k]
    IN  [k \in 1 .. Len(rows) |-> QuantizeWeight(Narrow(w, taken[k - 1], rows[k]))]

(* A new parameter tracks gradients until it is told not to. *)
PlainLinear(w, dtype) == [arm |-> "Plain", weight |-> w, dtype |-> dtype, grad |-> TRUE]
QuantLinear(chunks) == [arm |-> "Quant", weight |-> chunks, dtype |-> "Q", grad |-> TRUE]

(* Row o is what the forward multiplies the input with for output o: a plain *)
(* site computes x.W, a quantized one x.dequant(chunk)^T for each chunk and  *)
(* concatenates the outputs.                                                 *)
ForwardRows(base) ==
    IF base.arm = "Plain" THEN Transpose(base.weight) ELSE FlattenSeq(base.weight)

(* The f32 elements the forward, and again the backward, of a quantized      *)
(* site holds at once: one chunk.                                            *)
Transients(base) ==
    IF base.arm = "Plain" THEN <<>>
    ELSE [k \in 1 .. Len(base.weight) |->
              [rows |-> Len(base.weight[k]), bytes |-> Len(base.weight[k]) * Columns(base.weight[k]) * 4]]

----------------------------------------------------------------------------
(* A path is the sequence of its dotted segments. *)
Fields(block, part, names) == [k \in 1 .. Len(names) |-> block \o <<part, names[k]>>]

(* The sites the streaming loader and the adapter merge visit, in order: the *)
(* attention (with its gate) and the SwiGLU of every block, then the         *)
(* projections.                                                              *)
AllBaseLinears ==
    FlattenSeq([b \in 1 .. Len(TrunkBlocks \o FusionBlocks) |->
        LET block == (TrunkBlocks \o FusionBlocks)[b]
        IN  Fields(block, "attn", AttnFields) \o Fields(block, "mlp", MlpFields)])
    \o Projections

(* The sites of the model, and no other. *)
ASSUME SitesAssumption == AllBaseLinears \in Seq(DOMAIN Dims)

(* What into_quantized_chunked walks, field by field. *)
QuantizedFields ==
    UNION {Range(Fields(b, "attn", AttnFields) \o Fields(b, "mlp", MlpFields)) :
               b \in Range(TrunkBlocks) \cup Range(FusionBlocks)}
    \cup Range(Projections)

(* The features of every variant are a multiple of the block. *)
ASSUME SomeSiteIsAligned ==
    \E p \in QuantizedFields \cap DOMAIN Dims : Dims[p][2] % QuantBlock = 0

(* A block-aligned plain linear becomes its quantized twin, its stored       *)
(* weight transposed to file layout first; any other is left alone.          *)
QuantizeField(base, chunkBytes) ==
    IF base.arm = "Plain" /\ Len(base.weight) % QuantBlock = 0
    THEN QuantLinear(QuantizeChunked(Transpose(base.weight), chunkBytes))
    ELSE base

IntoQuantizedChunked(bases, chunkBytes) ==
    [p \in DOMAIN bases |->
        IF p \in QuantizedFields THEN QuantizeField(bases[p], chunkBytes) ELSE bases[p]]

(* Mmdit::init: every site a plain linear of random numbers. *)
InitBases(dtype) ==
    [p \in DOMAIN Dims |->
        PlainLinear(Matrix(Dims[p][2], Dims[p][1], LAMBDA i, j : Elem(<<"init">>, i, j)), dtype)]
============================================================================
