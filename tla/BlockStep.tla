----------------------------- MODULE BlockStep -----------------------------
(***************************************************************************)
(* The training step of the diffusion trainer, in both of its arms         *)
(* (run_training, block_ckpt.rs):                                          *)
(*                                                                         *)
(*   monolithic     forward and backward on one autodiff graph             *)
(*   checkpointed   the trunk on the plain backend, each block's input     *)
(*                  captured; the head on a graph of its own; then each    *)
(*                  block, last to first, replayed on a fresh graph that   *)
(*                  the cotangent of the one after it seeds                *)
(*                                                                         *)
(* The residual stream is its rows and the set of adapter contributions    *)
(* that went into it (via).  A contribution names the adapter, the update  *)
(* it was at, and whether a dropout mask was drawn for it.  A cotangent    *)
(* is the number of times the loss scale was folded into it and the        *)
(* blocks it has been pulled back through.  A gradient is the stream it    *)
(* was taken at and the cotangent that seeded it.                          *)
(***************************************************************************)
EXTENDS Denoiser, FiniteSets

CONSTANTS
  TargetLists,   \* the lora.targets the operator may configure
  Captions,      \* the caption lengths of the dataset
  Grids,         \* the patch grids <<gh, gw>> of its buckets
  Steps          \* steps of the run

ASSUME StepsAssumption == Steps \in Nat

\* A box has a patch at least: its sides are multiples of BUCKET_ALIGN.
ASSUME DataAssumption ==
  /\ Captions \subseteq Nat
  /\ Grids \subseteq (Nat \ {0}) \X (Nat \ {0})

VARIABLES
  checkpointed,  \* compute.grad_checkpointing
  dropout,       \* whether lora.dropout is above zero
  format,        \* the float format of the training backend
  targets,       \* lora.targets
  adapters,      \* the sites that have an adapter
  version,       \* version[s]: updates the adapter of site s has taken
  pc,
  step,          \* updates done or skipped
  batch,         \* the current batch
  pre,           \* PreTrunk: what prepare_trunk hands the trunk
  stream,        \* the residual stream
  block,         \* the block to run, or to replay, next
  inputs,        \* TrunkCapture.block_inputs
  pred,          \* the velocity prediction
  cot,           \* grad_x: the cotangent of the stream before the last replay
  replayed,      \* the block last replayed and what it put out
  lossFinite,    \* whether the loss the head computed is finite
  grads          \* GradientsParams: grads[s] for the adapters that have one

config == <<checkpointed, dropout, format, targets, adapters>>
forward == <<batch, pre, inputs>>
vars == <<config, version, pc, step, forward, stream, block, pred, cot,
          replayed, lossFinite, grads>>

None == [block |-> Layers]
NoStream == [rows |-> <<>>, via |-> {}]
Final == {"refused", "failed", "panicked", "done"}

-----------------------------------------------------------------------------
(* Blocks and adapters *)

\* A block applies the adapter registered for the full path of each of its
\* sites (site, LoraAdapters::apply).
Applied(set, i) == {s \in set : s.block = i}

\* What the adapters of block i add.  The B factor of an adapter that took no
\* update is zero, so it adds nothing.
Contributions(set, i, drawn) ==
  {[site |-> s, version |-> version[s], drawn |-> drawn] :
     s \in {s \in Applied(set, i) : version[s] > 0}}

\* SingleStreamBlock: one trunk block over a stream.
RunBlock(from, i, set, drawn) ==
  [rows |-> PreNormBlock(format, from.rows, pre.bias),
   via  |-> from.via \cup Contributions(set, i, drawn)]

\* Mutant: a prefix without its last dot, so that `blocks.1` takes block 10.
UnderPrefixNoDot(i, s) == s.block = i \/ (s.block \div 10 = i /\ s.block >= 10)

\* A block's adapters are picked by the prefix `blocks.{i}.`; its last dot
\* makes the whole block number count.
UnderPrefix(i, s) == s.block = i
PerBlock(i) == {s \in adapters : UnderPrefix(i, s)}

\* from_inner of a cloned parameter leaves it untracked; track_adapters marks
\* both factors of every delta as leaves again.
FromInner(set) == [s \in set |-> FALSE]
TrackAdapters(lifted) == [s \in DOMAIN lifted |-> TRUE]

\* The leaves that have a gradient after a replay of block i with lifted.
Leaves(lifted, i) == {s \in Applied(DOMAIN lifted, i) : lifted[s]}

\* The gradients of one backward pass over the whole graph (burn's autodiff).
Backprop ==
  [s \in adapters |->
     [at  |-> UNION {Contributions(adapters, i, dropout) : i \in 0 .. s.block - 1},
      cot |-> [scaled |-> 1, through |-> s.block + 1 .. Layers - 1]]]

-----------------------------------------------------------------------------
(* The step *)

Init ==
  /\ checkpointed \in BOOLEAN
  /\ dropout \in BOOLEAN
  /\ format \in {Float32, Float16, FlushingFloat16}
  /\ targets \in TargetLists
  /\ adapters = Adapted(targets)
  /\ version = [s \in Sites |-> 0]
  /\ pc = "start"
  /\ step = 0
  /\ batch = <<>>
  /\ pre = <<>>
  /\ stream = NoStream
  /\ block = 0
  /\ inputs = <<>>
  /\ pred = <<>>
  /\ cot = None
  /\ replayed = None
  /\ lossFinite = TRUE
  /\ grads = <<>>

\* Mutant: dropout let through.
RefusedWithoutDropout == targets = <<>> \/ adapters = {}

\* The refusals of train() and run_training that concern the step.
Refused ==
  \/ targets = <<>>
  \/ checkpointed /\ dropout
  \/ adapters = {}

Start ==
  /\ pc = "start"
  /\ pc' = IF Refused THEN "refused" ELSE "batch"
  /\ UNCHANGED <<config, version, step, forward, stream, block, pred, cot,
                 replayed, lossFinite, grads>>

MoreSteps == step < Steps

\* The conditioning of every caption is encoded, and cached, before the loop.
Encoded == [caption \in Captions |-> EncodeCaption(caption)]

\* The loop body up to the trunk: a batch, and everything computed before it.
LoadBatch ==
  /\ pc = "batch"
  /\ MoreSteps
  /\ \E caption \in Captions, grid \in Grids :
       LET loaded == Batch(Encoded[caption], grid[1], grid[2])
           trunk == PrepareTrunk(format, loaded)
       IN /\ batch' = loaded
          /\ pre' = trunk
          /\ stream' = [rows |-> trunk.rows, via |-> {}]
  /\ inputs' = <<>>
  /\ block' = 0
  /\ pc' = "trunk"
  /\ UNCHANGED <<config, version, step, pred, cot, replayed, lossFinite, grads>>

\* forward_inner and forward_capture: only the second keeps the inputs, and it
\* runs where Dropout is the identity.
ForwardBlock ==
  /\ pc = "trunk"
  /\ block < Layers
  /\ stream' = RunBlock(stream, block, adapters, dropout /\ ~checkpointed)
  /\ inputs' = IF checkpointed THEN Append(inputs, stream) ELSE inputs
  /\ block' = block + 1
  /\ UNCHANGED <<config, version, pc, step, batch, pre, pred, cot, replayed,
                 lossFinite, grads>>

\* The loss of a prediction that holds a NaN is one.
Predict ==
  /\ pred' = LastLayer(format, stream.rows, pre.txtLen, pre.imgLen)
  /\ lossFinite' \in {ok \in BOOLEAN : ok => \A k \in DOMAIN pred' : ~pred'[k].row.bad}

\* The monolithic arm: the loss is checked before backward is run.
LossAndBackward ==
  /\ pc = "trunk"
  /\ block = Layers
  /\ ~checkpointed
  /\ Predict
  /\ IF lossFinite' THEN grads' = Backprop /\ pc' = "update"
                    ELSE grads' = grads /\ pc' = "failed"
  /\ UNCHANGED <<config, version, step, forward, stream, block, cot, replayed>>

\* The checkpointed arm's head graph: the cotangent of the trunk output.  Its
\* loss is looked at only after the sweep.
HeadGraph ==
  /\ pc = "trunk"
  /\ block = Layers
  /\ checkpointed
  /\ Predict
  /\ cot' = [scaled |-> 1, through |-> {}]
  /\ grads' = <<>>
  /\ block' = Layers - 1
  /\ pc' = "sweep"
  /\ UNCHANGED <<config, version, step, forward, stream, replayed>>

\* Mutant: the sweep stops before the first block.
StopsEarly == block > 0

SweepGoesOn == block >= 0

\* The gradient of the block's input, which seeds the block before it.
PulledBack(c, i) == [c EXCEPT !.through = @ \cup {i}]

\* One iteration of the reverse sweep.  A filtered adapter that has no
\* gradient panics (expect).
ReplayBlock ==
  /\ pc = "sweep"
  /\ SweepGoesOn
  /\ LET lifted == TrackAdapters(FromInner(PerBlock(block)))
         from == inputs[block + 1]
         found == Leaves(lifted, block)
     IN /\ replayed' = [block  |-> block,
                        output |-> RunBlock(from, block, DOMAIN lifted, dropout)]
        /\ IF DOMAIN lifted \subseteq found
             THEN /\ grads' = [s \in DOMAIN grads \cup found |->
                                 IF s \in found THEN [at |-> from.via, cot |-> cot]
                                                ELSE grads[s]]
                  /\ cot' = PulledBack(cot, block)
                  /\ block' = block - 1
                  /\ pc' = pc
             ELSE /\ pc' = "panicked"
                  /\ UNCHANGED <<grads, cot, block>>
  /\ UNCHANGED <<config, version, step, forward, stream, pred, lossFinite>>

\* checkpointed_step has returned; the loss is checked now.
CheckLoss ==
  /\ pc = "sweep"
  /\ ~SweepGoesOn
  /\ pc' = IF lossFinite THEN "update" ELSE "failed"
  /\ UNCHANGED <<config, version, step, forward, stream, block, pred, cot,
                 replayed, lossFinite, grads>>

\* The end of the loop body, after the gradients are found finite or not.
EndStep ==
  /\ step' = step + 1
  /\ pc' = "batch"
  /\ stream' = NoStream
  /\ pre' = <<>>
  /\ batch' = <<>>
  /\ inputs' = <<>>
  /\ pred' = <<>>
  /\ cot' = None
  /\ replayed' = None
  /\ grads' = <<>>
  /\ UNCHANGED <<config, block, lossFinite>>

\* optim.step: an adapter with no gradient is left as it is, silently.
Update ==
  /\ pc = "update"
  /\ version' = [s \in Sites |-> IF s \in DOMAIN grads THEN version[s] + 1
                                                      ELSE version[s]]
  /\ EndStep

SkipUpdate ==
  /\ pc = "update"
  /\ version' = version
  /\ EndStep

Finish ==
  /\ pc = "batch"
  /\ step = Steps
  /\ pc' = "done"
  /\ UNCHANGED <<config, version, step, forward, stream, block, pred, cot,
                 replayed, lossFinite, grads>>

\* A run stops nowhere else.
Ended == pc \in Final /\ UNCHANGED vars

Next == \/ Start \/ LoadBatch \/ ForwardBlock \/ LossAndBackward \/ HeadGraph
        \/ ReplayBlock \/ CheckLoss \/ Update \/ SkipUpdate \/ Finish \/ Ended

Spec == Init /\ [][Next]_vars

-----------------------------------------------------------------------------
(* Properties *)

TokenRow == [src : SUBSET Nat, bad : BOOLEAN]
Contribution == [site : Sites, version : Nat, drawn : BOOLEAN]
Stream == [rows : Seq(TokenRow), via : SUBSET Contribution]

\* The state keeps its shape; block counts down to -1 at the end of a sweep.
TypeOK ==
  /\ checkpointed \in BOOLEAN
  /\ dropout \in BOOLEAN
  /\ adapters \subseteq Sites
  /\ version \in [Sites -> Nat]
  /\ pc \in {"start", "batch", "trunk", "sweep", "update"} \cup Final
  /\ step \in 0 .. Steps
  /\ block \in -1 .. Layers
  /\ stream \in Stream
  /\ inputs \in Seq(Stream)
  /\ lossFinite \in BOOLEAN
  /\ DOMAIN grads \subseteq Sites

InForward == pc \in {"trunk", "sweep"}

\* What a valid position may depend on: the live prompt and the image.
ValidSources ==
  batch.text.live
    \cup {ImageSource(k) : k \in 1 .. batch.gh * batch.gw}

\* Masked and padding positions never reach a valid one: at every block, a
\* valid row depends on valid inputs only (additive_mask, prepare_trunk).
GarbageStaysOut ==
  InForward =>
    \A q \in DOMAIN stream.rows :
      pre.mask[q] = 1 => stream.rows[q].src \subseteq ValidSources

Padded == Len(pre.rows) > pre.txtLen + pre.imgLen

Spoilt == EpsilonVanishes(format) /\ Padded

FirstBlockRan == pc = "sweep" \/ block > 0

\* No NaN comes from the magnitude of a mask or of an outlier, in f32 or f16
\* (MASK_NEG, ZRmsNorm, MmditAttention).  One comes from the epsilon of the f16
\* norm.  The code raises it so that a row of zeros is never divided by zero on
\* a device that flushes subnormals, but 6.1e-5 is subnormal still: there every
\* row is a NaN, from the first block to the prediction, exactly when the
\* sequence has padding.  No such prediction reaches an update.
NanOnlyFromEpsilon ==
  /\ InForward => \A q \in DOMAIN stream.rows :
                    stream.rows[q].bad <=> Spoilt /\ FirstBlockRan
  /\ \A k \in DOMAIN pred : pred[k].row.bad <=> Spoilt
  /\ pc = "update" => \A k \in DOMAIN pred : ~pred[k].row.bad

\* The sequence length that token_geometry derives from the config is the one
\* the trunk attends over, whatever the caption.
GeometryIsExact ==
  InForward /\ batch.gh = batch.gw =>
    TokenGeometry(batch.gh * Patch * Compression, MaxLength).sequence_len
      = Len(stream.rows)

\* The prediction's row k is compared with the target of patch k: the head
\* slices out the image tokens, in patchify's order; each was given the
\* position of its own patch, on grids of any shape (krea2_positions), and has
\* seen the whole live prompt, prefix and suffix included, and the whole image;
\* and the sequence is as long as the configuration says it will be.
PredictionMatchesTarget ==
  /\ GeometryIsExact
  /\ pred # <<>> =>
    /\ Len(pred) = batch.gh * batch.gw
    /\ \A k \in DOMAIN pred :
         /\ pred[k].row.src = ValidSources
         /\ pre.rows[pred[k].token] = Row({ImageSource(k)})
         /\ pre.pos[pred[k].token] = <<0>> \o Patchify(batch.gh, batch.gw)[k]

\* The conditioning is MaxLength positions, the first of them the first token
\* of the caption and the last the end of the suffix, whatever the tokenizer
\* makes of the template; a live position has seen no padding (#163,
\* encode_captions).
ConditioningIsTheCaption ==
  InForward =>
    LET text == batch.text
    IN /\ Len(text.ids) = MaxLength
       /\ text.caption > 0 /\ MaxLength > SuffixLen => text.ids[1] = <<"caption", 1>>
       /\ text.ids[MaxLength] = <<"suffix", SuffixLen>>
       /\ \A k \in 1 .. MaxLength, n \in 1 .. Len(SelectLayers) :
            text.mask[k] = 1 => text.stack[k][n].src \subseteq text.live

\* A replayed block puts out what the capture forward recorded for it: the
\* gradients are taken at the values the loss was computed from.
ReplaysAgree ==
  replayed # None =>
    replayed.output = IF replayed.block = Layers - 1
                        THEN stream ELSE inputs[replayed.block + 2]

\* The sweep finds the gradients of one backward pass over the whole graph:
\* of every adapter, at the stream its block was given, seeded through every
\* later block, with the loss scale folded in once; and none of its expects
\* fires, since every adapter a block is given is applied in it and tracked;
\* each replay agrees with the forward (checkpointed_step).
SweepIsBackprop ==
  /\ ReplaysAgree
  /\ pc # "panicked"
  /\ pc = "update" => grads = Backprop

\* Every adapter takes an update, or none does.
Rounds == INSTANCE AdapterRounds
AdaptersMoveTogether == Rounds!RoundsSpec
=============================================================================
