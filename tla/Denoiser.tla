------------------------------ MODULE Denoiser ------------------------------
(***************************************************************************)
(* The MMDiT denoiser (mmdit.rs): text and image tokens in one sequence    *)
(* through a trunk of identical blocks.  Every operator is a function of   *)
(* its arguments; BlockStep.tla runs them.                                 *)
(*                                                                         *)
(*   | text: MaxLength tokens | image: gh x gw tokens | zero padding |     *)
(*                                                                         *)
(* A token is a row (TokenRows.tla).  Kept of the arithmetic is what can   *)
(* make a position depend on one that is masked or make it NaN: the        *)
(* magnitude of the mask, the f16 range in the norm and in the scores, and *)
(* the epsilon that divides a row of zeros.  Heads, RoPE angles, GQA       *)
(* groups, and the feed-forward's inner width act within a row.            *)
(***************************************************************************)
EXTENDS Conditioner

CONSTANTS
  SequencePad,   \* SEQUENCE_PAD
  Patch,         \* latent pixels per token side
  Compression,   \* image pixels per latent pixel
  Layers,        \* trunk depth
  MaskNeg,       \* magnitude of mmdit.rs MASK_NEG
  Outlier,       \* largest magnitude of a hidden channel
  NormScale,     \* C, the constant the f16 norm divides by before squaring
  ScoreScale,    \* QC, what the f16 scores' operands are divided by
  Float16        \* the f16 format

\* The same format on a device that flushes subnormals.
FlushingFloat16 == [Float16 EXCEPT !.flushes = TRUE]

\* The smallest normal f16, 2^-14, in units of 2^-24.
HalfNormal == 1024

\* The epsilon of the f16 norm, 6.1e-5, rounded to the nearest f16, in the same
\* units: 61 x 2^24 / 10^6.
HalfEpsilon == (61 * 16777216 + 500000) \div 1000000

ASSUME DenoiserAssumption ==
  /\ SequencePad \in Nat \ {0}
  /\ Patch \in Nat \ {0}
  /\ Compression \in Nat \ {0}
  /\ Layers \in Nat \ {0}
  /\ {MaskNeg, Outlier} \subseteq Nat
  /\ {NormScale, ScoreScale} \subseteq Nat \ {0}
  /\ {Float32, Float16} \subseteq FloatFormats

\* A masked score underflows in the softmax of either format and is finite, and
\* the scaled operands of the f16 norm and scores can be multiplied.
ASSUME DenoiserMagnitudes ==
  /\ \A format \in {Float32, Float16} :
       /\ 0 < format.gap /\ format.gap <= MaskNeg /\ MaskNeg <= format.max
  /\ \A scale \in {NormScale, ScoreScale} :
       (Outlier \div scale) * (Outlier \div scale) <= Float16.max

-----------------------------------------------------------------------------
(* Geometry *)

RoundUp(n, unit) == ((n + unit - 1) \div unit) * unit

\* Mutant: the image alone is rounded up.
CaptionNotPadded(resolution, captionTokens) ==
  LET latent == resolution \div Compression
      imageTokens == (latent \div Patch) * (latent \div Patch)
  IN [latent       |-> latent,
      image_tokens |-> imageTokens,
      sequence_len |-> RoundUp(imageTokens, SequencePad) + captionTokens]

\* token_geometry: what a square resolution implies, from the config alone.
TokenGeometry(resolution, captionTokens) ==
  LET latent == resolution \div Compression
      imageTokens == (latent \div Patch) * (latent \div Patch)
  IN [latent       |-> latent,
      image_tokens |-> imageTokens,
      sequence_len |-> RoundUp(imageTokens + captionTokens, SequencePad)]

\* patchify: the patch of the latent grid that image token k holds.  The
\* permute puts grid rows before grid columns, and the reshape flattens them.
Patchify(gh, gw) ==
  [k \in 1 .. gh * gw |-> <<(k - 1) \div gw, (k - 1) % gw>>]

\* Mutant: rows and columns swapped.
SwappedPositions(txtLen, gh, gw) ==
  [token \in 1 .. txtLen + gh * gw |->
     IF token <= txtLen
       THEN <<0, 0, 0>>
       ELSE <<0, (token - txtLen - 1) % gw, (token - txtLen - 1) \div gw>>]

\* krea2_positions: text at the origin, then one position per row and column.
Krea2Positions(txtLen, gh, gw) ==
  [token \in 1 .. txtLen + gh * gw |->
     IF token <= txtLen
       THEN <<0, 0, 0>>
       ELSE CHOOSE at \in {0} \X (0 .. gh - 1) \X (0 .. gw - 1) :
              token = txtLen + at[2] * gw + at[3] + 1]

-----------------------------------------------------------------------------
(* Layers *)

\* Mutant: a pair is open as soon as one side is valid.
OneSidedMask(mask) ==
  [q \in DOMAIN mask |-> [k \in DOMAIN mask |->
     IF mask[q] + mask[k] >= 1 THEN 0 ELSE MaskNeg]]

\* additive_mask: MaskNeg wherever the outer product of the mask is 0.
AdditiveMask(mask) ==
  [q \in DOMAIN mask |-> [k \in DOMAIN mask |->
     IF mask[q] * mask[k] = 1 THEN 0 ELSE MaskNeg]]

Unmasked(rows) == [q \in DOMAIN rows |-> [k \in DOMAIN rows |-> 0]]

\* Mutant: the literal square.
LiteralSquareFits == Outlier * Outlier <= Float16.max

\* The f16 norm squares a scaled-down input: in range?
SquareFits == (Outlier \div NormScale) * (Outlier \div NormScale) <= Float16.max

\* Nothing is left to divide a row of zeros by.
EpsilonVanishes(format) ==
  format.half /\ format.flushes /\ HalfEpsilon < HalfNormal

\* ZRmsNorm: within a row; on f16 it can overflow, and divide 0 by 0.
ZRmsNorm(format, row) ==
  [row EXCEPT !.bad = \/ @
                      \/ format.half /\ ~SquareFits
                      \/ row.src = {} /\ EpsilonVanishes(format)]

\* The f16 scores are a product of scaled-down operands: in range?
ScoresFit == (Outlier \div ScoreScale) * (Outlier \div ScoreScale) <= Float16.max

\* MmditAttention: the attention output, gated by a projection of the row
\* itself.  The query side of a row's scores is the row itself too.
Attention(format, rows, bias) ==
  LET mixed == Attend(format, rows, bias)
  IN [q \in DOMAIN rows |->
        LET out == Join(mixed[q], rows[q])
        IN [out EXCEPT !.bad = @ \/ (format.half /\ ~ScoresFit)]]

\* Pre-norm attention and its residual, then the feed-forward (SwiGlu) and
\* its residual, which work on a row alone.
PreNormBlock(format, rows, bias) ==
  LET normed == [q \in DOMAIN rows |-> ZRmsNorm(format, rows[q])]
      attended == Attention(format, normed, bias)
      summed == [q \in DOMAIN rows |-> Join(rows[q], attended[q])]
  IN [q \in DOMAIN rows |-> Join(summed[q], ZRmsNorm(format, summed[q]))]

\* TextFusionTransformer: two blocks across the layers of one token, the
\* projector that collapses them, and two blocks along the sequence.
TextFusion(format, stack, bias) ==
  LET Layerwise(rows) == PreNormBlock(format, rows, Unmasked(rows))
      Refined(rows) == PreNormBlock(format, rows, bias)
      fused == [k \in DOMAIN stack |-> JoinAll(Layerwise(Layerwise(stack[k])))]
  IN Refined(Refined(fused))

-----------------------------------------------------------------------------
(* The forward pass *)

\* One batch row: a caption's conditioning and a latent of gh x gw patches.
\* The trainer's mask is the conditioning's, then ones for the image (run_training).
ImageSource(k) == PromptLen + k

Batch(text, gh, gw) ==
  [text    |-> text, gh |-> gh, gw |-> gw,
   context |-> text.stack,
   img     |-> [k \in 1 .. gh * gw |-> Row({ImageSource(k)})],
   mask    |-> text.mask \o [k \in 1 .. gh * gw |-> 1]]

\* prepare_trunk: fuse the text, append the image, zero-pad to a multiple of
\* SequencePad with mask 0 and position 0.
PrepareTrunk(format, batch) ==
  LET txtLen == Len(batch.context)
      imgLen == Len(batch.img)
      full == txtLen + imgLen
      pad == RoundUp(full, SequencePad) - full
      txtMask == SubSeq(batch.mask, 1, txtLen)
      mask == batch.mask \o [k \in 1 .. pad |-> 0]
  IN [rows   |-> TextFusion(format, batch.context, AdditiveMask(txtMask))
                   \o [k \in 1 .. imgLen |-> batch.img[k]]
                   \o [k \in 1 .. pad |-> Row({})],
      mask   |-> mask,
      bias   |-> AdditiveMask(mask),
      pos    |-> Krea2Positions(txtLen, batch.gh, batch.gw)
                   \o [k \in 1 .. pad |-> <<0, 0, 0>>],
      txtLen |-> txtLen,
      imgLen |-> imgLen]

\* LastLayer works on a row alone; the image tokens are sliced back out.
LastLayer(format, rows, txtLen, imgLen) ==
  [k \in 1 .. imgLen |-> [token |-> txtLen + k,
                          row   |-> ZRmsNorm(format, rows[txtLen + k])]]

-----------------------------------------------------------------------------
(* Where adapters attach *)

\* injectable_sites: seven projections per block, in the checkpoint's order;
\* attn.gate is not one of them.
SiteNames == <<"attn.wq", "attn.wk", "attn.wv", "attn.wo",
               "mlp.gate", "mlp.up", "mlp.down">>

InjectableSites ==
  [i \in 0 .. Layers - 1 |->
     [n \in 1 .. Len(SiteNames) |-> [block |-> i, name |-> SiteNames[n]]]]

Sites == {InjectableSites[i][n] : i \in 0 .. Layers - 1,
                                  n \in 1 .. Len(SiteNames)}

\* build_adapters: a site has an adapter when the pattern of some target
\* matches it.  A target is the set of sites its pattern matches; the first one
\* that does settles the rank, which is left out.
Adapted(targets) == {s \in Sites : \E t \in DOMAIN targets : s \in targets[t]}

=============================================================================
