--------------------------- MODULE BlockStepProofs --------------------------
(***************************************************************************)
(* TLAPS proofs about BlockStep, for every number of blocks and steps, all *)
(* targets, captions and grids:                                            *)
(*                                                                         *)
(*   the reverse sweep finds the gradients of backpropagation, and no      *)
(*   adapter is left behind (SweepInv);                                    *)
(*   padding never reaches a valid position, no row becomes a NaN, and the *)
(*   prediction is of the patches it is compared with (RowsInv), from      *)
(*   lemmas about the operators of TokenRows, Conditioner and Denoiser.    *)
(***************************************************************************)
EXTENDS BlockStep, SequenceTheorems, FiniteSetTheorems, TLAPS

-----------------------------------------------------------------------------
(* Blocks and what their adapters add *)

LEMMA SiteBlocks == \A s \in Sites : s.block \in 0 .. Layers - 1
BY DenoiserAssumption DEF Sites, InjectableSites

LEMMA AdaptedAreSites == Adapted(targets) \subseteq Sites
BY DEF Adapted

(* The prefix selects for a block exactly the adapters that its sites apply.*)
LEMMA PerBlockIsApplied ==
  ASSUME NEW i
  PROVE  /\ PerBlock(i) = Applied(adapters, i)
         /\ Applied(PerBlock(i), i) = Applied(adapters, i)
BY DEF PerBlock, UnderPrefix, Applied

LEMMA PerBlockContributes ==
  ASSUME NEW i, NEW drawn
  PROVE  Contributions(PerBlock(i), i, drawn) = Contributions(adapters, i, drawn)
BY PerBlockIsApplied, Zenon DEF Contributions

LEMMA ReplayIsForward ==
  ASSUME NEW from, NEW i, NEW drawn
  PROVE  RunBlock(from, i, PerBlock(i), drawn) = RunBlock(from, i, adapters, drawn)
BY PerBlockContributes, Zenon DEF RunBlock

(* What has been added to the stream before block i. *)
Reached(i) == UNION {Contributions(adapters, k, dropout) : k \in 0 .. i - 1}

LEMMA ReachedNone == Reached(0) = {}
<1>1. 0 .. 0 - 1 = {}
  OBVIOUS
<1>2. QED
  BY <1>1, Zenon DEF Reached

LEMMA ReachedMore ==
  ASSUME NEW i \in Nat
  PROVE  Reached(i) \cup Contributions(adapters, i, dropout) = Reached(i + 1)
<1>1. 0 .. (i + 1) - 1 = (0 .. i - 1) \cup {i}
  OBVIOUS
<1>2. QED
  BY <1>1, Zenon DEF Reached

LEMMA ViaOfBlock ==
  ASSUME NEW from, NEW i \in Nat, from.via = Reached(i)
  PROVE  RunBlock(from, i, adapters, dropout).via = Reached(i + 1)
BY ReachedMore DEF RunBlock

-----------------------------------------------------------------------------
(* The invariant *)

Places == {"start", "batch", "trunk", "sweep", "update"} \cup Final

(* The captured inputs are the stream before each block in turn. *)
Captured == \E S : inputs \in Seq(S)
Chain ==
  \A j \in 1 .. Len(inputs) :
    /\ inputs[j].via = Reached(j - 1)
    /\ RunBlock(inputs[j], j - 1, adapters, dropout) = IF j = Len(inputs) THEN stream ELSE inputs[j + 1]

(* What the sweep holds when the blocks after i are done. *)
Cotangent(i) == [scaled |-> 1, through |-> i + 1 .. Layers - 1]
Swept(i) ==
  [s \in {t \in adapters : t.block > i} |->
     [at |-> Reached(s.block), cot |-> Cotangent(s.block)]]

Settled ==
  /\ checkpointed \in BOOLEAN
  /\ dropout \in BOOLEAN
  /\ adapters \subseteq Sites
  /\ pc \in Places
  /\ pc # "panicked"
  /\ pc \notin {"start", "refused"} => ~(checkpointed /\ dropout)
  /\ pc \in {"start", "refused", "batch", "trunk", "done"} => replayed = None

Forwarding ==
  pc = "trunk" =>
    /\ block \in 0 .. Layers
    /\ checkpointed => /\ Captured
                       /\ Len(inputs) = block
                       /\ Chain
                       /\ stream.via = Reached(block)

Sweeping ==
  pc = "sweep" =>
    /\ block \in -1 .. Layers - 1
    /\ Captured
    /\ Len(inputs) = Layers
    /\ Chain
    /\ cot = Cotangent(block)
    /\ grads = Swept(block)

SweepInv == Settled /\ Forwarding /\ Sweeping /\ SweepIsBackprop

LEMMA SweptIsBackprop == Settled => Swept(-1) = Backprop
<1> SUFFICES ASSUME Settled
             PROVE  Swept(-1) = Backprop
  OBVIOUS
<1>1. {t \in adapters : t.block > -1} = adapters
  BY SiteBlocks DEF Settled
<1>2. QED
  BY <1>1, Zenon DEF Swept, Backprop, Reached, Cotangent

LEMMA SweptNone == Settled => Swept(Layers - 1) = <<>>
<1> SUFFICES ASSUME Settled
             PROVE  Swept(Layers - 1) = <<>>
  OBVIOUS
<1>1. {t \in adapters : t.block > Layers - 1} = {}
  BY SiteBlocks, DenoiserAssumption DEF Settled
<1>2. QED
  BY <1>1 DEF Swept

-----------------------------------------------------------------------------
(* The forward *)

(* What a step keeps that neither moves the stream nor the adapters. *)
LEMMA ForwardKept ==
  ASSUME UNCHANGED <<config, version, forward, stream>>
  PROVE  /\ Captured' = Captured
         /\ Chain' = Chain
         /\ Backprop' = Backprop
         /\ \A i : Reached(i)' = Reached(i) /\ Swept(i)' = Swept(i)
BY DEF config, forward, Captured, Chain, Backprop, Reached, Swept, RunBlock, Contributions, Applied

LEMMA SweepInvInit == Init => SweepInv
BY AdaptedAreSites, Zenon DEF Init, SweepInv, Settled, Forwarding, Sweeping, SweepIsBackprop, ReplaysAgree, Places

LEMMA SettledKept ==
  ASSUME Settled, UNCHANGED config, pc' \in Places \ {"panicked"},
         pc' \notin {"start", "refused"} => pc \notin {"start", "refused"},
         pc' \in {"start", "refused", "batch", "trunk", "done"} => replayed' = None
  PROVE  Settled'
BY Zenon DEF Settled, config

LEMMA StartStep == SweepInv /\ Start => SweepInv'
<1> SUFFICES ASSUME SweepInv, Start
             PROVE  SweepInv'
  OBVIOUS
<1>1. UNCHANGED <<config, version, forward, stream>> /\ UNCHANGED <<replayed, grads>>
  BY DEF Start
<1>2. pc' \in {"refused", "batch"} /\ (pc' # "refused" => ~Refused)
  BY DEF Start
<1>3. Settled'
  <2>1. pc' # "refused" => ~(checkpointed /\ dropout)
    BY <1>2, Zenon DEF Refused
  <2>2. UNCHANGED config /\ replayed' = None
    BY DEF Start, SweepInv, Settled
  <2>3. pc' \in Places /\ pc' \notin {"panicked", "start"}
    BY <1>2 DEF Places, Final
  <2>4. QED
    BY <2>1, <2>2, <2>3, Zenon DEF SweepInv, Settled, config
<1>4. Forwarding' /\ Sweeping'
  BY <1>2 DEF Forwarding, Sweeping
<1>5. SweepIsBackprop'
  BY <1>1, <1>2, Zenon DEF SweepInv, SweepIsBackprop, ReplaysAgree, Start, forward
<1>6. QED
  BY <1>3, <1>4, <1>5 DEF SweepInv

LEMMA LoadBatchStep == SweepInv /\ LoadBatch => SweepInv'
<1> SUFFICES ASSUME SweepInv, LoadBatch
             PROVE  SweepInv'
  OBVIOUS
<1>1. pc = "batch" /\ pc' = "trunk" /\ block' = 0 /\ inputs' = <<>> /\ stream'.via = {}
      /\ replayed' = None /\ UNCHANGED config
  BY DEF LoadBatch, SweepInv, Settled
<1>2. Settled'
  BY <1>1, SettledKept DEF SweepInv, Places
<1>3. Forwarding'
  <2>1. Reached(0)' = {}
    <3>1. 0 .. 0 - 1 = {}
      OBVIOUS
    <3>2. QED
      BY <3>1, Zenon DEF Reached
  <2>2. inputs' \in Seq({})  /\ Len(inputs') = 0
    BY <1>1
  <2>3. Captured'
    BY <2>2, Zenon DEF Captured
  <2>4. QED
    BY <1>1, <2>1, <2>2, <2>3, DenoiserAssumption DEF Forwarding, Chain
<1>4. Sweeping'
  BY <1>1 DEF Sweeping
<1>5. SweepIsBackprop'
  BY <1>1, Zenon DEF SweepIsBackprop, ReplaysAgree
<1>6. QED
  BY <1>2, <1>3, <1>4, <1>5 DEF SweepInv

(* One more captured input extends the chain. *)
LEMMA CaptureOne ==
  ASSUME NEW n \in Nat, Captured, Len(inputs) = n, Chain, stream.via = Reached(n),
         inputs' = Append(inputs, stream), stream' = RunBlock(stream, n, adapters, dropout),
         UNCHANGED <<config, version, pre>>
  PROVE  /\ Captured'
         /\ Len(inputs') = n + 1
         /\ Chain'
         /\ stream'.via = Reached(n + 1)'
<1>1. PICK S : inputs \in Seq(S)
  BY DEF Captured
<1> DEFINE T == S \cup {stream}
<1>2. inputs \in Seq(T) /\ stream \in T
  BY <1>1
<1>3. /\ inputs' \in Seq(T)
      /\ Len(inputs') = n + 1
      /\ \A j \in 1 .. n : inputs'[j] = inputs[j]
      /\ inputs'[n + 1] = stream
  <2> HIDE DEF T
  <2>1. QED
    BY <1>2, AppendProperties
<1>4. /\ \A i : Reached(i)' = Reached(i)
      /\ \A from, i : RunBlock(from, i, adapters, dropout)' = RunBlock(from, i, adapters, dropout)
  BY DEF Reached, RunBlock, Contributions, Applied, config
<1>5. Captured'
  BY <1>3, Zenon DEF Captured
<1>6. stream'.via = Reached(n + 1)'
  BY <1>4, ViaOfBlock
<1>7. ASSUME NEW j \in 1 .. n + 1
      PROVE  /\ inputs'[j].via = Reached(j - 1)
             /\ RunBlock(inputs'[j], j - 1, adapters, dropout)
                  = IF j = n + 1 THEN stream' ELSE inputs'[j + 1]
  <2>1. CASE j = n + 1
    BY <1>3, <2>1
  <2>2. CASE j # n + 1
    <3>1. j \in 1 .. n /\ inputs'[j] = inputs[j]
      BY <1>3, <2>2
    <3>2. inputs'[j + 1] = IF j = n THEN stream ELSE inputs[j + 1]
      BY <1>3, <3>1
    <3>3. QED
      BY <2>2, <3>1, <3>2 DEF Chain
  <2>3. QED
    BY <2>1, <2>2
<1>8. Chain'
  BY <1>3, <1>4, <1>7 DEF Chain
<1>9. QED
  BY <1>3, <1>5, <1>6, <1>8

LEMMA ForwardBlockStep == SweepInv /\ ForwardBlock => SweepInv'
<1> SUFFICES ASSUME SweepInv, ForwardBlock
             PROVE  SweepInv'
  OBVIOUS
<1>1. pc = "trunk" /\ pc' = "trunk" /\ block' = block + 1 /\ block \in 0 .. Layers - 1
      /\ replayed' = None /\ UNCHANGED <<config, version, pre>>
  BY DenoiserAssumption DEF ForwardBlock, SweepInv, Settled, Forwarding
<1>2. Settled'
  BY <1>1, SettledKept DEF SweepInv, Places
<1>3. ASSUME checkpointed'
      PROVE  Captured' /\ Len(inputs') = block' /\ Chain' /\ stream'.via = Reached(block)'
  <2>1. checkpointed /\ ~dropout /\ ~(dropout /\ ~checkpointed) /\ dropout = FALSE
    BY <1>1, <1>3, Zenon DEF config, SweepInv, Settled
  <2>2. (dropout /\ ~checkpointed) = dropout
    BY <2>1, Zenon
  <2>3. inputs' = Append(inputs, stream) /\ stream' = RunBlock(stream, block, adapters, dropout)
    BY <2>1, <2>2, Zenon DEF ForwardBlock
  <2>4. Captured /\ Len(inputs) = block /\ Chain /\ stream.via = Reached(block)
    BY <1>1, <2>1 DEF SweepInv, Forwarding
  <2>5. PICK n \in Nat : n = block
    BY <1>1
  <2>6. Captured' /\ Len(inputs') = n + 1 /\ Chain' /\ stream'.via = Reached(n + 1)'
    BY <1>1, <2>3, <2>4, <2>5, CaptureOne
  <2>7. block' = n + 1
    BY <1>1, <2>5
  <2>8. Reached(n + 1)' = Reached(block)'
    BY <2>7, Zenon DEF Reached
  <2>9. QED
    BY <2>6, <2>7, <2>8
<1>4. Forwarding'
  BY <1>1, <1>3, DenoiserAssumption DEF Forwarding
<1>5. Sweeping'
  BY <1>1 DEF Sweeping
<1>6. SweepIsBackprop'
  BY <1>1, Zenon DEF SweepIsBackprop, ReplaysAgree
<1>7. QED
  BY <1>2, <1>4, <1>5, <1>6 DEF SweepInv

LEMMA LossAndBackwardStep == SweepInv /\ LossAndBackward => SweepInv'
<1> SUFFICES ASSUME SweepInv, LossAndBackward
             PROVE  SweepInv'
  OBVIOUS
<1>1. pc = "trunk" /\ pc' \in {"update", "failed"} /\ replayed' = None
      /\ UNCHANGED <<config, version, forward, stream>> /\ (pc' = "update" => grads' = Backprop)
  BY DEF LossAndBackward, SweepInv, Settled
<1>2. Settled'
  BY <1>1, SettledKept DEF SweepInv, Places, Final
<1>3. Forwarding' /\ Sweeping'
  BY <1>1 DEF Forwarding, Sweeping
<1>4. SweepIsBackprop'
  BY <1>1, ForwardKept, Zenon DEF SweepIsBackprop, ReplaysAgree
<1>5. QED
  BY <1>2, <1>3, <1>4 DEF SweepInv

-----------------------------------------------------------------------------
(* The sweep *)

LEMMA HeadGraphStep == SweepInv /\ HeadGraph => SweepInv'
<1> SUFFICES ASSUME SweepInv, HeadGraph
             PROVE  SweepInv'
  OBVIOUS
<1>1. /\ pc = "trunk" /\ pc' = "sweep" /\ checkpointed /\ block = Layers
      /\ block' = Layers - 1 /\ grads' = <<>> /\ cot' = [scaled |-> 1, through |-> {}]
      /\ replayed' = None /\ UNCHANGED <<config, version, forward, stream>>
  BY DEF HeadGraph, SweepInv, Settled
<1>2. Settled'
  BY <1>1, SettledKept DEF SweepInv, Places
<1>3. Forwarding'
  BY <1>1 DEF Forwarding
<1>4. Captured /\ Len(inputs) = Layers /\ Chain
  BY <1>1 DEF SweepInv, Forwarding
<1>5. cot' = Cotangent(Layers - 1)
  <2>1. (Layers - 1) + 1 .. Layers - 1 = {}
    BY DenoiserAssumption
  <2>2. QED
    BY <1>1, <2>1, Zenon DEF Cotangent
<1>6. grads' = Swept(Layers - 1)'
  BY <1>1, <1>2, SweptNone, ForwardKept, Zenon DEF SweepInv
<1>7. Sweeping'
  <2>1. Captured' /\ Chain' /\ Len(inputs') = Layers
    BY <1>1, <1>4, ForwardKept DEF forward
  <2>2. block' \in -1 .. Layers - 1
    BY <1>1, DenoiserAssumption
  <2>3. cot' = Cotangent(block)' /\ grads' = Swept(block)'
    BY <1>1, <1>5, <1>6, Zenon DEF Cotangent, Swept
  <2>4. QED
    BY <2>1, <2>2, <2>3 DEF Sweeping
<1>8. SweepIsBackprop'
  BY <1>1, Zenon DEF SweepIsBackprop, ReplaysAgree
<1>9. QED
  BY <1>2, <1>3, <1>7, <1>8 DEF SweepInv

(* A replay finds the gradients of all its block's adapters, and adds them  *)
(* to those of the blocks above.                                            *)
LEMMA LiftedLeaves ==
  ASSUME NEW i
  PROVE  /\ DOMAIN TrackAdapters(FromInner(PerBlock(i))) = PerBlock(i)
         /\ Leaves(TrackAdapters(FromInner(PerBlock(i))), i) = PerBlock(i)
BY DEF TrackAdapters, FromInner, Leaves, PerBlock, UnderPrefix, Applied

LEMMA SweptMore ==
  ASSUME Settled, NEW i \in 0 .. Layers - 1
  PROVE  [s \in DOMAIN Swept(i) \cup PerBlock(i) |->
            IF s \in PerBlock(i) THEN [at |-> Reached(i), cot |-> Cotangent(i)] ELSE Swept(i)[s]]
           = Swept(i - 1)
<1>1. DOMAIN Swept(i) = {t \in adapters : t.block > i}
  BY DEF Swept
<1>2. \A t \in adapters : t.block \in 0 .. Layers - 1
  BY SiteBlocks DEF Settled
<1>3. DOMAIN Swept(i) \cup PerBlock(i) = {t \in adapters : t.block > i - 1}
  BY <1>1, <1>2, DenoiserAssumption DEF PerBlock, UnderPrefix
<1>4. ASSUME NEW s \in adapters, s.block > i - 1
      PROVE  (IF s \in PerBlock(i) THEN [at |-> Reached(i), cot |-> Cotangent(i)] ELSE Swept(i)[s])
               = [at |-> Reached(s.block), cot |-> Cotangent(s.block)]
  <2>1. CASE s.block = i
    BY <2>1 DEF PerBlock, UnderPrefix
  <2>2. CASE s.block # i
    BY <1>2, <1>4, <2>2 DEF PerBlock, UnderPrefix, Swept
  <2>3. QED
    BY <2>1, <2>2
<1>5. QED
  BY <1>3, <1>4, Zenon DEF Swept

LEMMA ReplayBlockStep == SweepInv /\ ReplayBlock => SweepInv'
<1> SUFFICES ASSUME SweepInv, ReplayBlock
             PROVE  SweepInv'
  OBVIOUS
<1>1. /\ pc = "sweep" /\ block \in 0 .. Layers - 1
      /\ Captured /\ Len(inputs) = Layers /\ Chain
      /\ cot = Cotangent(block) /\ grads = Swept(block) /\ Settled
  BY DenoiserAssumption DEF ReplayBlock, SweepGoesOn, SweepInv, Sweeping
<1>2. UNCHANGED <<config, version, forward, stream>>
  BY DEF ReplayBlock
<1>3. /\ replayed' = [block  |-> block,
                     output |-> RunBlock(inputs[block + 1], block, PerBlock(block), dropout)]
      /\ grads' = [s \in DOMAIN grads \cup PerBlock(block) |->
                     IF s \in PerBlock(block) THEN [at |-> inputs[block + 1].via, cot |-> cot]
                                              ELSE grads[s]]
      /\ cot' = PulledBack(cot, block)
      /\ block' = block - 1
      /\ pc' = pc
  BY LiftedLeaves, Zenon DEF ReplayBlock
<1>4. /\ inputs[block + 1].via = Reached(block)
      /\ RunBlock(inputs[block + 1], block, adapters, dropout)
           = IF block = Layers - 1 THEN stream ELSE inputs[block + 2]
  <2>1. block + 1 \in 1 .. Len(inputs) /\ (block + 1) - 1 = block /\ (block + 1) + 1 = block + 2
        /\ (block + 1 = Len(inputs) <=> block = Layers - 1)
    BY <1>1, DenoiserAssumption
  <2>2. QED
    BY <1>1, <2>1 DEF Chain
<1>5. Settled'
  BY <1>1, <1>2, <1>3, SettledKept DEF Places
<1>6. Forwarding'
  BY <1>1, <1>3 DEF Forwarding
<1> PICK i : i = block'
  OBVIOUS
<1>7. cot' = Cotangent(i)
  <2>1. (block + 1 .. Layers - 1) \cup {block} = i + 1 .. Layers - 1
    BY <1>1, <1>3, DenoiserAssumption
  <2>2. cot' = [scaled |-> 1, through |-> (block + 1 .. Layers - 1) \cup {block}]
    BY <1>1, <1>3 DEF PulledBack, Cotangent
  <2>3. QED
    BY <2>1, <2>2 DEF Cotangent
<1>8. grads' = Swept(i)
  BY <1>1, <1>3, <1>4, SweptMore
<1>9. Sweeping'
  <2>1. Captured' /\ Chain' /\ Swept(i)' = Swept(i) /\ Len(inputs') = Layers
    BY <1>1, <1>2, ForwardKept, Zenon DEF forward
  <2>2. block' \in -1 .. Layers - 1
    BY <1>1, <1>3, DenoiserAssumption
  <2>3. Cotangent(block)' = Cotangent(i)
    BY Zenon DEF Cotangent
  <2>4. Swept(block)' = Swept(i)'
    BY Zenon DEF Swept
  <2>5. QED
    BY <2>1, <2>2, <2>3, <2>4, <1>7, <1>8 DEF Sweeping
<1>10. ReplaysAgree'
  <2>1. replayed'.block = block /\ replayed'.output = IF block = Layers - 1 THEN stream ELSE inputs[block + 2]
    BY <1>3, <1>4, ReplayIsForward
  <2>2. QED
    BY <1>2, <2>1 DEF ReplaysAgree, forward
<1>11. SweepIsBackprop'
  BY <1>1, <1>3, <1>10 DEF SweepIsBackprop
<1>12. QED
  BY <1>5, <1>6, <1>9, <1>11 DEF SweepInv

LEMMA CheckLossStep == SweepInv /\ CheckLoss => SweepInv'
<1> SUFFICES ASSUME SweepInv, CheckLoss
             PROVE  SweepInv'
  OBVIOUS
<1>1. /\ pc = "sweep" /\ block = -1 /\ pc' \in {"update", "failed"}
      /\ UNCHANGED <<config, version, forward, stream>> /\ UNCHANGED <<replayed, grads>>
  BY DenoiserAssumption DEF CheckLoss, SweepGoesOn, SweepInv, Sweeping
<1>2. grads' = Backprop
  BY <1>1, SweptIsBackprop DEF SweepInv, Sweeping
<1>3. Settled'
  BY <1>1, SettledKept DEF SweepInv, Places, Final
<1>4. Forwarding' /\ Sweeping'
  BY <1>1 DEF Forwarding, Sweeping
<1>5. ReplaysAgree'
  BY <1>1, Zenon DEF SweepInv, SweepIsBackprop, ReplaysAgree, forward
<1>6. SweepIsBackprop'
  BY <1>1, <1>2, <1>5, ForwardKept, Zenon DEF SweepIsBackprop
<1>7. QED
  BY <1>3, <1>4, <1>6 DEF SweepInv

LEMMA EndOfStep == SweepInv /\ (Update \/ SkipUpdate) => SweepInv'
<1> SUFFICES ASSUME SweepInv, Update \/ SkipUpdate
             PROVE  SweepInv'
  OBVIOUS
<1>1. pc = "update" /\ pc' = "batch" /\ replayed' = None /\ UNCHANGED config
  BY DEF Update, SkipUpdate, EndStep
<1>2. Settled'
  BY <1>1, SettledKept DEF SweepInv, Places
<1>3. Forwarding' /\ Sweeping'
  BY <1>1 DEF Forwarding, Sweeping
<1>4. SweepIsBackprop'
  BY <1>1, Zenon DEF SweepIsBackprop, ReplaysAgree
<1>5. QED
  BY <1>2, <1>3, <1>4 DEF SweepInv

LEMMA FinishStep == SweepInv /\ Finish => SweepInv'
<1> SUFFICES ASSUME SweepInv, Finish
             PROVE  SweepInv'
  OBVIOUS
<1>1. pc = "batch" /\ pc' = "done" /\ replayed' = None /\ UNCHANGED config
  BY DEF Finish, SweepInv, Settled
<1>2. Settled'
  BY <1>1, SettledKept DEF SweepInv, Places, Final
<1>3. Forwarding' /\ Sweeping'
  BY <1>1 DEF Forwarding, Sweeping
<1>4. SweepIsBackprop'
  BY <1>1, Zenon DEF SweepIsBackprop, ReplaysAgree
<1>5. QED
  BY <1>2, <1>3, <1>4 DEF SweepInv

LEMMA SweepUnchanged == SweepInv /\ UNCHANGED vars => SweepInv'
<1> SUFFICES ASSUME SweepInv, UNCHANGED vars
             PROVE  SweepInv'
  OBVIOUS
<1>1. UNCHANGED <<config, version, forward, stream>>
      /\ UNCHANGED <<pc, block, cot, replayed, grads>>
  BY DEF vars
<1>2. Settled'
  BY <1>1, Zenon DEF SweepInv, Settled, config
<1>3. Forwarding' /\ Sweeping'
  BY <1>1, ForwardKept, Zenon DEF SweepInv, Forwarding, Sweeping, config, forward, Cotangent
<1>4. SweepIsBackprop'
  BY <1>1, ForwardKept, Zenon DEF SweepInv, SweepIsBackprop, ReplaysAgree, forward
<1>5. QED
  BY <1>2, <1>3, <1>4 DEF SweepInv

LEMMA SweepInvariant == Spec => []SweepInv
<1>1. SweepInv /\ [Next]_vars => SweepInv'
  BY StartStep, LoadBatchStep, ForwardBlockStep, LossAndBackwardStep, HeadGraphStep,
     ReplayBlockStep, CheckLossStep, EndOfStep, FinishStep, SweepUnchanged, Zenon DEF Next, Ended
<1>2. QED
  BY <1>1, SweepInvInit, PTL DEF Spec

(* The gradients of the block-checkpointed sweep are those of one backward  *)
(* pass, none of its expects fires, and a replay puts out what the capture  *)
(* recorded (checkpointed_step).                                            *)
THEOREM SweepFindsBackprop == Spec => []SweepIsBackprop
<1>1. SweepInv => SweepIsBackprop
  BY DEF SweepInv
<1>2. QED
  BY <1>1, SweepInvariant, PTL

(* A step updates every adapter or none (run_training, optim.step): an      *)
(* adapter the sweep had missed would be left as it is, silently.           *)
THEOREM AdaptersAdvanceTogether == Spec => AdaptersMoveTogether
<1>1. Init => Rounds!RoundsInit
  BY AdaptedAreSites DEF Init, Rounds!RoundsInit
<1>2. ASSUME SweepInv, [Next]_vars
      PROVE  [Rounds!Round]_<<adapters, version>>
  <2>1. CASE Update
    <3>1. grads = Backprop
      BY <1>2, <2>1, Zenon DEF Update, SweepInv, SweepIsBackprop
    <3>2. DOMAIN grads = adapters
      BY <3>1 DEF Backprop
    <3>3. QED
      BY <2>1, <3>2, Zenon DEF Update, EndStep, config, Rounds!Round
  <2>2. CASE ~Update
    <3>1. UNCHANGED <<adapters, version>>
      BY <1>2, <2>2, Zenon DEF Next, Start, LoadBatch, ForwardBlock, LossAndBackward, HeadGraph, ReplayBlock,
         CheckLoss, SkipUpdate, EndStep, Finish, Ended, vars, config
    <3>2. QED
      BY <3>1
  <2>3. QED
    BY <2>1, <2>2
<1>3. QED
  BY <1>1, <1>2, SweepInvariant, PTL DEF Spec, AdaptersMoveTogether, Rounds!RoundsSpec

-----------------------------------------------------------------------------
(* Induction over sets of naturals *)

(* The library's induction theorems take the predicate as a parameter.  The  *)
(* same for a set of naturals, from the well-founded order of finite sets.   *)
Below == {p \in Nat \X Nat : p[1] < p[2]}
LEMMA BelowIff ==
  ASSUME NEW a \in Nat, NEW b \in Nat
  PROVE  <<a, b>> \in Below <=> a < b
BY DEF Below

LEMMA BelowIsWellFounded == IsWellFoundedOn(Below, Nat)
<1> SUFFICES ASSUME NEW f \in [Nat -> Nat], \A n \in Nat : <<f[n + 1], f[n]>> \in Below
             PROVE  FALSE
  BY Zenon DEF IsWellFoundedOn
<1> DEFINE g == [n \in Nat |-> 1 .. f[n]]
<1>1. ASSUME NEW n \in Nat
      PROVE  1 .. f[n] \in FiniteSubsetsOf(Nat)
  <2>1. PICK k \in Nat : k = f[n]
    OBVIOUS
  <2>2. IsFiniteSet(1 .. k) /\ 1 .. k \subseteq Nat
    BY FS_Interval
  <2>3. QED
    BY <2>1, <2>2, Zenon DEF FiniteSubsetsOf
<1>2. g \in [Nat -> FiniteSubsetsOf(Nat)]
  BY <1>1
<1>3. ASSUME NEW n \in Nat
      PROVE  <<g[n + 1], g[n]>> \in StrictSubsetOrdering(Nat)
  <2>1. PICK a \in Nat, b \in Nat : a = f[n + 1] /\ b = f[n]
    OBVIOUS
  <2>2. <<a, b>> \in Below
    BY <2>1
  <2>3. a < b
    BY <2>2 DEF Below
  <2>4. 1 .. a \subseteq 1 .. b /\ b \in 1 .. b /\ b \notin 1 .. a
    BY <2>3
  <2>5. 1 .. a \in SUBSET Nat /\ 1 .. b \in SUBSET Nat /\ 1 .. a # 1 .. b
    BY <2>4
  <2>6. <<1 .. a, 1 .. b>> \in StrictSubsetOrdering(Nat)
    <3> DEFINE x == 1 .. a
               y == 1 .. b
    <3>1. x \in SUBSET Nat /\ y \in SUBSET Nat /\ x # y /\ x \subseteq y
      BY <2>4, <2>5
    <3> HIDE DEF x, y
    <3>2. <<x, y>> \in StrictSubsetOrdering(Nat)
      BY <3>1 DEF StrictSubsetOrdering
    <3>3. QED
      BY <3>2 DEF x, y
  <2>7. g[n + 1] = 1 .. a /\ g[n] = 1 .. b
    BY <2>1
  <2>8. QED
    BY <2>6, <2>7, Zenon
<1>4. QED
  <2> HIDE DEF g
  <2>1. QED
    BY <1>2, <1>3, FS_StrictSubsetOrderingWellFounded, Zenon DEF IsWellFoundedOn

LEMMA LeastNatural ==
  ASSUME NEW T \in SUBSET Nat, T # {}
  PROVE  \E m \in T : \A n \in T : m <= n
<1>1. PICK m \in T : \A n \in T : <<n, m>> \notin Below
  BY BelowIsWellFounded, WFMin, Zenon
<1>2. \A n \in T : ~(n < m)
  BY <1>1, BelowIff
<1>3. QED
  BY <1>2
LEMMA SetInduction ==
  ASSUME NEW T, 0 \in T, \A n \in T : n \in Nat => n + 1 \in T
  PROVE  Nat \subseteq T
<1> SUFFICES ASSUME Nat \ T # {}
             PROVE  FALSE
  BY Zenon
<1>1. PICK m \in Nat \ T : \A n \in Nat \ T : m <= n
  BY LeastNatural, Zenon
<1>2. m # 0 /\ m - 1 \in Nat /\ (m - 1) + 1 = m
  OBVIOUS
<1>3. m - 1 \in T
  BY <1>1, <1>2
<1>4. QED
  BY <1>2, <1>3

-----------------------------------------------------------------------------
(* Rows *)

LEMMA RowParts ==
  ASSUME NEW src \in SUBSET Nat
  PROVE  Row(src) \in TokenRow /\ Row(src).src = src /\ ~Row(src).bad
<1>1. Row(src).src = src /\ ~Row(src).bad
  BY Zenon DEF Row
<1>2. Row(src) \in TokenRow
  BY Zenon DEF Row, TokenRow
<1>3. QED
  BY <1>1, <1>2

LEMMA JoinParts ==
  ASSUME NEW a \in TokenRow, NEW b \in TokenRow
  PROVE  /\ Join(a, b) \in TokenRow
         /\ Join(a, b).src = a.src \cup b.src
         /\ Join(a, b).bad <=> a.bad \/ b.bad
<1>1. a.src \cup b.src \in SUBSET Nat
  BY DEF TokenRow
<1>2. (a.bad \/ b.bad) \in BOOLEAN
  BY Zenon
<1>3. Join(a, b).src = a.src \cup b.src /\ (Join(a, b).bad <=> a.bad \/ b.bad)
  BY Zenon DEF Join
<1>4. Join(a, b) \in TokenRow
  BY <1>1, <1>2, Zenon DEF Join, TokenRow
<1>5. QED
  BY <1>3, <1>4, Zenon

LEMMA JoinAllParts ==
  ASSUME NEW rows, \A k \in DOMAIN rows : rows[k] \in TokenRow
  PROVE  /\ JoinAll(rows) \in TokenRow
         /\ JoinAll(rows).src = UNION {rows[k].src : k \in DOMAIN rows}
         /\ (\A k \in DOMAIN rows : ~rows[k].bad) => ~JoinAll(rows).bad
<1>1. UNION {rows[k].src : k \in DOMAIN rows} \in SUBSET Nat
  BY DEF TokenRow
<1>2. (\E k \in DOMAIN rows : rows[k].bad) \in BOOLEAN
  BY Zenon
<1>3. /\ JoinAll(rows).src = UNION {rows[k].src : k \in DOMAIN rows}
      /\ (\A k \in DOMAIN rows : ~rows[k].bad) => ~JoinAll(rows).bad
  BY Zenon DEF JoinAll
<1>4. JoinAll(rows) \in TokenRow
  BY <1>1, <1>2, Zenon DEF JoinAll, TokenRow
<1>5. QED
  BY <1>3, <1>4, Zenon

(* The squares of the f16 norm and of the f16 scores are in range. *)
LEMMA InRange == SquareFits /\ ScoresFit
BY DenoiserMagnitudes DEF SquareFits, ScoresFit

(* A norm acts within a row, and makes a NaN of zeros where the epsilon      *)
(* vanishes, only there.                                                     *)
LEMMA NormParts ==
  ASSUME NEW fmt, NEW row \in TokenRow
  PROVE  /\ ZRmsNorm(fmt, row) \in TokenRow
         /\ ZRmsNorm(fmt, row).src = row.src
         /\ ZRmsNorm(fmt, row).bad <=> row.bad \/ (row.src = {} /\ EpsilonVanishes(fmt))
<1> DEFINE b == row.bad \/ (fmt.half /\ ~SquareFits) \/ (row.src = {} /\ EpsilonVanishes(fmt))
<1>1. b \in BOOLEAN
  BY Zenon
<1>2. ZRmsNorm(fmt, row) = [row EXCEPT !.bad = b]
  BY Zenon DEF ZRmsNorm
<1>3. b <=> row.bad \/ (row.src = {} /\ EpsilonVanishes(fmt))
  BY InRange, Zenon
<1> HIDE DEF b
<1>4. /\ [row EXCEPT !.bad = b] \in TokenRow
      /\ [row EXCEPT !.bad = b] = [src |-> row.src, bad |-> b]
  BY <1>1 DEF TokenRow
<1>5. /\ [src |-> row.src, bad |-> b].src = row.src
      /\ [src |-> row.src, bad |-> b].bad <=> b
  BY Zenon
<1>6. QED
  BY <1>2, <1>3, <1>4, <1>5, Zenon

-----------------------------------------------------------------------------
(* Attention and the pre-norm block *)

(* What the rows that q hears depend on. *)
HeardSources(fmt, rows, bias, q) == UNION {rows[k].src : k \in Heard(fmt, bias, q)}

(* No row of scores is all -inf, so that softmax has a value. *)
SomeFinite(fmt, bias) == \A q \in DOMAIN bias : \E k \in DOMAIN bias : ~Infinite(fmt, bias, q, k)

Sound(rows) == \A q \in DOMAIN rows : ~rows[q].bad

(* No row is a NaN, or becomes one in a norm. *)
Survives(fmt, rows) ==
  \A q \in DOMAIN rows : ~rows[q].bad /\ ~(rows[q].src = {} /\ EpsilonVanishes(fmt))

LEMMA RecordParts == \A x, y : [src |-> x, bad |-> y].src = x /\ [src |-> x, bad |-> y].bad = y
BY Zenon

LEMMA AttendParts ==
  ASSUME NEW fmt, NEW D, NEW rows \in [D -> TokenRow], NEW bias, DOMAIN bias = D
  PROVE  /\ Attend(fmt, rows, bias) \in [D -> TokenRow]
         /\ \A q \in D : Attend(fmt, rows, bias)[q].src = HeardSources(fmt, rows, bias, q)
         /\ SomeFinite(fmt, bias) =>
              \A q \in D : Attend(fmt, rows, bias)[q].bad <=> ~Sound(rows)
<1> DEFINE S(q) == HeardSources(fmt, rows, bias, q)
           B(q) == \/ \E k \in DOMAIN rows : rows[k].bad
                   \/ \A k \in DOMAIN rows : Infinite(fmt, bias, q, k)
<1>1. Attend(fmt, rows, bias) = [q \in D |-> [src |-> S(q), bad |-> B(q)]]
  BY Zenon DEF Attend, HeardSources
<1>2. \A q \in D : S(q) \in SUBSET Nat
  BY DEF HeardSources, Heard, TokenRow
<1>3. \A q \in D : B(q) \in BOOLEAN
  BY Zenon
<1>4. SomeFinite(fmt, bias) => \A q \in D : B(q) <=> ~Sound(rows)
  BY Zenon DEF Sound, SomeFinite
<1> HIDE DEF S, B
<1>5. \A q \in D : [src |-> S(q), bad |-> B(q)] \in TokenRow
  BY <1>2, <1>3, Zenon DEF TokenRow
<1>6. Attend(fmt, rows, bias) \in [D -> TokenRow]
  BY <1>1, <1>5, Zenon
<1>7. \A q \in D : Attend(fmt, rows, bias)[q] = [src |-> S(q), bad |-> B(q)]
  BY <1>1, Zenon
<1>8. \A q \in D : Attend(fmt, rows, bias)[q].src = S(q) /\ Attend(fmt, rows, bias)[q].bad = B(q)
  <2>1. ASSUME NEW q \in D
        PROVE  Attend(fmt, rows, bias)[q].src = S(q) /\ Attend(fmt, rows, bias)[q].bad = B(q)
    <3>1. Attend(fmt, rows, bias)[q] = [src |-> S(q), bad |-> B(q)]
      BY <1>7, Zenon
    <3>2. [src |-> S(q), bad |-> B(q)].src = S(q) /\ [src |-> S(q), bad |-> B(q)].bad = B(q)
      BY RecordParts, Zenon
    <3>3. QED
      BY <3>1, <3>2, Zenon
  <2>2. QED
    BY <2>1, Zenon
<1>9. SomeFinite(fmt, bias) => \A q \in D : Attend(fmt, rows, bias)[q].bad <=> ~Sound(rows)
  BY <1>4, <1>8, Zenon
<1>10. QED
  BY <1>6, <1>8, <1>9, Zenon DEF S

(* A row of what comes after has heard, besides itself, what it could hear, *)
(* and nothing else; and the rows are all numbers, or all NaN.              *)
GathersHeard(fmt, D, rows, bias, after, numbers) ==
  /\ after \in [D -> TokenRow]
  /\ \A q \in D : after[q].src = HeardSources(fmt, rows, bias, q) \cup rows[q].src
  /\ SomeFinite(fmt, bias) => \A q \in D : after[q].bad <=> ~numbers

LEMMA AttentionParts ==
  ASSUME NEW fmt, NEW D, NEW rows \in [D -> TokenRow], NEW bias, DOMAIN bias = D
  PROVE  GathersHeard(fmt, D, rows, bias, Attention(fmt, rows, bias), Sound(rows))
<1> DEFINE mixed == Attend(fmt, rows, bias)
           out(q) == Join(mixed[q], rows[q])
           B(q) == out(q).bad \/ (fmt.half /\ ~ScoresFit)
<1>1. Attention(fmt, rows, bias) = [q \in D |-> [out(q) EXCEPT !.bad = B(q)]]
  BY Zenon DEF Attention
<1>2. /\ mixed \in [D -> TokenRow]
      /\ \A q \in D : mixed[q].src = HeardSources(fmt, rows, bias, q)
      /\ SomeFinite(fmt, bias) => \A q \in D : mixed[q].bad <=> ~Sound(rows)
  BY AttendParts
<1>3. \A q \in D : B(q) \in BOOLEAN
  BY Zenon
<1>4. \A q \in D : B(q) <=> out(q).bad
  BY InRange, Zenon
<1> HIDE DEF mixed
<1>5. \A q \in D : /\ out(q) \in TokenRow
                   /\ out(q).src = mixed[q].src \cup rows[q].src
                   /\ out(q).bad <=> mixed[q].bad \/ rows[q].bad
  BY <1>2, JoinParts, Zenon
<1> HIDE DEF out, B
<1>6. \A q \in D : /\ [out(q) EXCEPT !.bad = B(q)] \in TokenRow
                   /\ [out(q) EXCEPT !.bad = B(q)].src = out(q).src
                   /\ [out(q) EXCEPT !.bad = B(q)].bad = B(q)
  BY <1>3, <1>5 DEF TokenRow
<1>7. Attention(fmt, rows, bias) \in [D -> TokenRow]
  BY <1>1, <1>6, Zenon
<1>8. \A q \in D : /\ Attention(fmt, rows, bias)[q].src = out(q).src
                   /\ Attention(fmt, rows, bias)[q].bad = B(q)
  BY <1>1, <1>6, Zenon
<1>9. ASSUME SomeFinite(fmt, bias), NEW q \in D
      PROVE  Attention(fmt, rows, bias)[q].bad <=> ~Sound(rows)
  <2>1. rows[q].bad => ~Sound(rows)
    BY Zenon DEF Sound
  <2>2. QED
    BY <1>2, <1>4, <1>5, <1>8, <1>9, <2>1, Zenon
<1>10. QED
  BY <1>2, <1>5, <1>7, <1>8, <1>9, Zenon DEF GathersHeard

(* A block adds to a row what the row hears, and nothing else, and one row  *)
(* that does not survive its norm is a NaN in all of them.                  *)
LEMMA BlockParts ==
  ASSUME NEW fmt, NEW D, NEW rows \in [D -> TokenRow], NEW bias, DOMAIN bias = D
  PROVE  GathersHeard(fmt, D, rows, bias, PreNormBlock(fmt, rows, bias), Survives(fmt, rows))
<1> DEFINE normed == [q \in D |-> ZRmsNorm(fmt, rows[q])]
           attended == Attention(fmt, normed, bias)
           summed == [q \in D |-> Join(rows[q], attended[q])]
           after == [q \in D |-> Join(summed[q], ZRmsNorm(fmt, summed[q]))]
           ok == Survives(fmt, rows)
           void(row) == row.src = {} /\ EpsilonVanishes(fmt)
<1>1. PreNormBlock(fmt, rows, bias) = after
  BY Zenon DEF PreNormBlock
<1>2. /\ normed \in [D -> TokenRow]
      /\ \A q \in D : normed[q].src = rows[q].src
      /\ \A q \in D : normed[q].bad <=> rows[q].bad \/ void(rows[q])
  <2>1. \A q \in D : /\ ZRmsNorm(fmt, rows[q]) \in TokenRow
                     /\ ZRmsNorm(fmt, rows[q]).src = rows[q].src
                     /\ ZRmsNorm(fmt, rows[q]).bad <=> rows[q].bad \/ void(rows[q])
    BY NormParts, Zenon
  <2>2. normed \in [D -> TokenRow] /\ \A q \in D : normed[q] = ZRmsNorm(fmt, rows[q])
    BY <2>1, Zenon
  <2> HIDE DEF normed, void
  <2>3. QED
    BY <2>1, <2>2, Zenon
<1>3. /\ Sound(normed) <=> ok
      /\ \A q \in D : rows[q].bad \/ void(rows[q]) => ~ok
  <2>1. ok <=> \A q \in D : ~(rows[q].bad \/ void(rows[q]))
    BY Zenon DEF Survives
  <2> HIDE DEF normed, ok, void
  <2>2. DOMAIN normed = D
    BY <1>2, Zenon
  <2>3. Sound(normed) <=> \A q \in D : ~normed[q].bad
    BY <2>2, Zenon DEF Sound
  <2>4. (\A q \in D : ~normed[q].bad) <=> \A q \in D : ~(rows[q].bad \/ void(rows[q]))
    BY <1>2, Zenon
  <2>5. QED
    BY <2>1, <2>3, <2>4, Zenon
<1> HIDE DEF normed, ok
<1>4. \A q \in D : HeardSources(fmt, normed, bias, q) = HeardSources(fmt, rows, bias, q)
  <2>1. \A q : Heard(fmt, bias, q) \subseteq D
    BY DEF Heard
  <2>2. \A q \in D : normed[q].src = rows[q].src
    BY <1>2, Zenon
  <2>3. QED
    BY <2>1, <2>2 DEF HeardSources
<1>5. /\ attended \in [D -> TokenRow]
      /\ \A q \in D : attended[q].src = HeardSources(fmt, rows, bias, q) \cup rows[q].src
      /\ SomeFinite(fmt, bias) => \A q \in D : attended[q].bad <=> ~ok
  <2>1. GathersHeard(fmt, D, normed, bias, attended, Sound(normed))
    BY <1>2, AttentionParts
  <2>2. /\ attended \in [D -> TokenRow]
        /\ \A q \in D : attended[q].src = HeardSources(fmt, normed, bias, q) \cup normed[q].src
        /\ SomeFinite(fmt, bias) => \A q \in D : attended[q].bad <=> ~Sound(normed)
    BY <2>1, Zenon DEF GathersHeard
  <2> HIDE DEF attended
  <2>3. \A q \in D : attended[q].src = HeardSources(fmt, rows, bias, q) \cup rows[q].src
    BY <1>2, <1>4, <2>2, Zenon
  <2>4. SomeFinite(fmt, bias) => \A q \in D : attended[q].bad <=> ~ok
    BY <1>3, <2>2, Zenon
  <2>5. QED
    BY <2>2, <2>3, <2>4, Zenon
<1> HIDE DEF attended
<1>6. /\ summed \in [D -> TokenRow]
      /\ \A q \in D : summed[q].src = rows[q].src \cup attended[q].src
      /\ SomeFinite(fmt, bias) => \A q \in D : summed[q].bad <=> ~ok
  <2>1. \A q \in D : /\ Join(rows[q], attended[q]) \in TokenRow
                     /\ Join(rows[q], attended[q]).src = rows[q].src \cup attended[q].src
                     /\ Join(rows[q], attended[q]).bad <=> rows[q].bad \/ attended[q].bad
    BY <1>5, JoinParts, Zenon
  <2>2. summed \in [D -> TokenRow] /\ \A q \in D : summed[q] = Join(rows[q], attended[q])
    BY <2>1, Zenon
  <2> HIDE DEF summed
  <2>3. ASSUME SomeFinite(fmt, bias), NEW q \in D
        PROVE  summed[q].bad <=> ~ok
    BY <1>3, <1>5, <2>1, <2>2, <2>3, Zenon
  <2>4. QED
    BY <2>1, <2>2, <2>3, Zenon
<1> HIDE DEF summed
<1>7. \A q \in D : /\ ZRmsNorm(fmt, summed[q]) \in TokenRow
                   /\ ZRmsNorm(fmt, summed[q]).src = summed[q].src
                   /\ ZRmsNorm(fmt, summed[q]).bad <=> summed[q].bad \/ void(summed[q])
  BY <1>6, NormParts, Zenon
<1>8. \A q \in D : void(summed[q]) => ~ok
  <2>1. \A q \in D : summed[q].src = {} => rows[q].src = {}
    BY <1>6
  <2>2. QED
    BY <1>3, <2>1, Zenon
<1> HIDE DEF void
<1>9. \A q \in D : /\ Join(summed[q], ZRmsNorm(fmt, summed[q])) \in TokenRow
                   /\ Join(summed[q], ZRmsNorm(fmt, summed[q])).src = summed[q].src
                   /\ Join(summed[q], ZRmsNorm(fmt, summed[q])).bad
                        <=> summed[q].bad \/ void(summed[q])
  <2>1. ASSUME NEW q \in D
        PROVE  /\ Join(summed[q], ZRmsNorm(fmt, summed[q])) \in TokenRow
               /\ Join(summed[q], ZRmsNorm(fmt, summed[q])).src = summed[q].src
               /\ Join(summed[q], ZRmsNorm(fmt, summed[q])).bad
                    <=> summed[q].bad \/ void(summed[q])
    <3>1. PICK x \in TokenRow, y \in TokenRow : x = summed[q] /\ y = ZRmsNorm(fmt, summed[q])
      BY <1>6, <1>7, Zenon
    <3>2. x.src = y.src /\ (y.bad <=> x.bad \/ void(x))
      BY <1>7, <3>1, Zenon
    <3>3. /\ Join(x, y) \in TokenRow /\ Join(x, y).src = x.src \cup y.src
          /\ Join(x, y).bad <=> x.bad \/ y.bad
      BY JoinParts, Zenon
    <3>4. x.src \cup y.src = x.src
      BY <3>2
    <3>5. QED
      BY <3>1, <3>2, <3>3, <3>4, Zenon
  <2>2. QED
    BY <2>1, Zenon
<1>10. /\ after \in [D -> TokenRow]
       /\ \A q \in D : after[q] = Join(summed[q], ZRmsNorm(fmt, summed[q]))
  BY <1>9, Zenon
<1> HIDE DEF after
<1>11. \A q \in D : after[q].src = HeardSources(fmt, rows, bias, q) \cup rows[q].src
  <2>1. \A q \in D : after[q].src = summed[q].src
    BY <1>9, <1>10, Zenon
  <2>2. \A q \in D : attended[q].src = HeardSources(fmt, rows, bias, q) \cup rows[q].src
    BY <1>5, Zenon
  <2>3. \A q \in D : summed[q].src = rows[q].src \cup attended[q].src
    BY <1>6, Zenon
  <2>4. \A x, y : x \cup (y \cup x) = y \cup x
    OBVIOUS
  <2>5. QED
    BY <2>1, <2>2, <2>3, <2>4, Zenon
<1>12. ASSUME SomeFinite(fmt, bias), NEW q \in D
       PROVE  after[q].bad <=> ~ok
  <2>1. after[q].bad <=> summed[q].bad \/ void(summed[q])
    BY <1>9, <1>10, Zenon
  <2>2. QED
    BY <1>6, <1>8, <1>12, <2>1, Zenon
<1>13. QED
  BY <1>1, <1>10, <1>11, <1>12, Zenon DEF GathersHeard, ok

(* Rows that survive survive a block: they only grow. *)
LEMMA Survival ==
  ASSUME NEW fmt, NEW D, NEW rows \in [D -> TokenRow], NEW after \in [D -> TokenRow],
         \A q \in D : rows[q].src \subseteq after[q].src,
         \A q \in D : after[q].bad <=> ~Survives(fmt, rows)
  PROVE  /\ Survives(fmt, rows) => Sound(after) /\ Survives(fmt, after)
         /\ D # {} /\ Survives(fmt, after) => Survives(fmt, rows)
<1>1. \A q \in D : after[q].src = {} => rows[q].src = {}
  OBVIOUS
<1>2. Survives(fmt, rows) => Sound(after) /\ Survives(fmt, after)
  BY <1>1, Zenon DEF Sound, Survives
<1>3. D # {} /\ Survives(fmt, after) => Survives(fmt, rows)
  <2>1. ASSUME NEW q \in D, Survives(fmt, after)
        PROVE  Survives(fmt, rows)
    <3>1. ~after[q].bad
      BY <2>1, Zenon DEF Survives
    <3>2. QED
      BY <3>1, Zenon
  <2>2. QED
    BY <2>1, Zenon
<1>4. QED
  BY <1>2, <1>3, Zenon

-----------------------------------------------------------------------------
(* What the masks silence *)

Formats == {Float32, Float16, FlushingFloat16}

LEMMA FormatMagnitudes ==
  ASSUME NEW fmt \in Formats
  PROVE  /\ fmt.max \in Nat /\ fmt.gap \in Nat /\ MaskNeg \in Nat
         /\ 0 < fmt.gap /\ fmt.gap <= MaskNeg /\ MaskNeg <= fmt.max
BY DenoiserMagnitudes, DenoiserAssumption DEF Formats, FlushingFloat16, FloatFormats

(* Three facts about one row of scores, from which what it hears follows. *)
LEMMA SilentAbove ==
  ASSUME NEW fmt, NEW bias, NEW q, NEW k, NEW o \in DOMAIN bias,
         fmt.max \in Nat, fmt.gap \in Nat, bias[q][k] \in Nat,
         bias[q][o] = 0, bias[q][k] >= fmt.gap
  PROVE  k \notin Heard(fmt, bias, q)
<1>1. ~Infinite(fmt, bias, q, o)
  BY DEF Infinite
<1>2. bias[q][k] >= bias[q][o] + fmt.gap
  OBVIOUS
<1>3. QED
  BY <1>1, <1>2, Zenon DEF Heard, Silent

LEMMA HeardAtZero ==
  ASSUME NEW fmt, NEW bias, NEW q, NEW k \in DOMAIN bias,
         fmt.gap \in Nat, 0 < fmt.gap, bias[q][k] = 0,
         \A o \in DOMAIN bias : bias[q][o] \in Nat
  PROVE  k \in Heard(fmt, bias, q)
<1>1. \A o \in DOMAIN bias : ~(bias[q][k] >= bias[q][o] + fmt.gap)
  OBVIOUS
<1>2. QED
  BY <1>1, Zenon DEF Heard, Silent

(* A valid query hears the valid keys, all of them and no other. *)
LEMMA ValidHearsValid ==
  ASSUME NEW fmt \in Formats, NEW D, NEW mask \in [D -> {0, 1}], NEW q \in D, mask[q] = 1
  PROVE  Heard(fmt, AdditiveMask(mask), q) = {k \in D : mask[k] = 1}
<1> DEFINE bias == AdditiveMask(mask)
<1>1. /\ DOMAIN bias = D
      /\ \A k \in D : bias[q][k] = IF mask[k] = 1 THEN 0 ELSE MaskNeg
  <2>1. bias = [x \in D |-> [k \in D |-> IF mask[x] * mask[k] = 1 THEN 0 ELSE MaskNeg]]
    BY Zenon DEF AdditiveMask
  <2>2. \A k \in D : bias[q][k] = IF mask[q] * mask[k] = 1 THEN 0 ELSE MaskNeg
    BY <2>1
  <2>3. \A k \in D : mask[q] * mask[k] = 1 <=> mask[k] = 1
    OBVIOUS
  <2>4. QED
    BY <2>1, <2>2, <2>3
<1> HIDE DEF bias
<1>2. /\ \A k \in D : bias[q][k] \in Nat
      /\ \A k \in D : mask[k] # 1 => bias[q][k] >= fmt.gap
      /\ bias[q][q] = 0
  BY <1>1, FormatMagnitudes
<1>3. \A k \in D : mask[k] # 1 => k \notin Heard(fmt, bias, q)
  BY <1>1, <1>2, FormatMagnitudes, SilentAbove
<1>4. \A k \in D : mask[k] = 1 => k \in Heard(fmt, bias, q)
  BY <1>1, <1>2, FormatMagnitudes, HeardAtZero
<1>5. Heard(fmt, bias, q) \subseteq D
  BY <1>1, Zenon DEF Heard
<1>6. QED
  BY <1>3, <1>4, <1>5 DEF bias

(* A masked score is finite, so that a row of masked scores has a softmax. *)
LEMMA MaskIsFinite ==
  ASSUME NEW fmt \in Formats, NEW D, NEW mask \in [D -> {0, 1}]
  PROVE  SomeFinite(fmt, AdditiveMask(mask))
<1> DEFINE bias == AdditiveMask(mask)
<1>1. DOMAIN bias = D /\ \A q \in D : bias[q][q] \in {0, MaskNeg}
  BY DEF AdditiveMask
<1>2. \A q \in D : ~Infinite(fmt, bias, q, q)
  <2> HIDE DEF bias
  <2>1. QED
    BY <1>1, FormatMagnitudes DEF Infinite
<1>3. QED
  BY <1>1, <1>2, Zenon DEF SomeFinite

LEMMA UnmaskedHearsAll ==
  ASSUME NEW fmt \in Formats, NEW D, NEW rows \in [D -> TokenRow]
  PROVE  /\ DOMAIN Unmasked(rows) = D
         /\ \A q \in D : Heard(fmt, Unmasked(rows), q) = D
         /\ SomeFinite(fmt, Unmasked(rows))
<1> DEFINE bias == Unmasked(rows)
<1>1. DOMAIN bias = D /\ \A q, k \in D : bias[q][k] = 0
  BY DEF Unmasked
<1> HIDE DEF bias
<1>2. \A q, k \in D : k \in Heard(fmt, bias, q)
  BY <1>1, FormatMagnitudes, HeardAtZero
<1>3. \A q \in D : Heard(fmt, bias, q) \subseteq D
  BY <1>1, Zenon DEF Heard
<1>4. \A q \in D : ~Infinite(fmt, bias, q, q)
  BY <1>1, FormatMagnitudes DEF Infinite
<1>5. SomeFinite(fmt, bias)
  BY <1>1, <1>4, Zenon DEF SomeFinite
<1>6. QED
  BY <1>1, <1>2, <1>3, <1>5 DEF bias

(* In the encoder, a live query hears the live keys up to itself. *)
LEMMA LiveHearsLive ==
  ASSUME NEW mask \in [Prompt -> {0, 1}], NEW q \in Prompt, mask[q] = 1
  PROVE  Heard(Float32, AttentionMasks(mask), q) = {k \in Prompt : k <= q /\ mask[k] = 1}
<1> DEFINE bias == AttentionMasks(mask)
<1>0. Prompt \subseteq Nat
  BY DEF Prompt
<1>1. /\ DOMAIN bias = Prompt
      /\ \A k \in Prompt : bias[q][k] = (IF k > q THEN EncoderMaskNeg ELSE 0)
                                           + (IF mask[k] = 0 THEN EncoderMaskNeg ELSE 0)
  BY DEF AttentionMasks
<1> HIDE DEF bias
<1>2. \A k \in Prompt : /\ k <= q /\ mask[k] = 1 => bias[q][k] = 0
                        /\ ~(k <= q /\ mask[k] = 1) => bias[q][k] >= EncoderMaskNeg
                        /\ bias[q][k] \in Nat
  BY <1>0, <1>1, EncoderMagnitudes
<1>3. \A k \in Prompt : k <= q /\ mask[k] = 1 => k \in Heard(Float32, bias, q)
  BY <1>1, <1>2, EncoderMagnitudes, HeardAtZero
<1>4. ASSUME NEW k \in Prompt, ~(k <= q /\ mask[k] = 1)
      PROVE  k \notin Heard(Float32, bias, q)
  <2>1. bias[q][k] \in Nat /\ bias[q][k] >= Float32.gap /\ bias[q][q] = 0
    BY <1>0, <1>2, <1>4, EncoderMagnitudes
  <2>2. QED
    BY <1>1, <2>1, EncoderMagnitudes, SilentAbove
<1>5. Heard(Float32, bias, q) \subseteq Prompt
  BY <1>1, Zenon DEF Heard
<1>6. QED
  BY <1>3, <1>4, <1>5 DEF bias

LEMMA EncoderMaskIsFinite ==
  ASSUME NEW mask \in [Prompt -> {0, 1}], NEW o \in Prompt, mask[o] = 1, \A k \in Prompt : o <= k
  PROVE  SomeFinite(Float32, AttentionMasks(mask))
<1> DEFINE bias == AttentionMasks(mask)
<1>1. DOMAIN bias = Prompt /\ \A q \in Prompt : bias[q][o] = 0
  BY DEF AttentionMasks, Prompt
<1>2. \A q \in Prompt : ~Infinite(Float32, bias, q, o)
  <2> HIDE DEF bias
  <2>1. QED
    BY <1>1, EncoderMagnitudes DEF Infinite
<1>3. QED
  BY <1>1, <1>2, Zenon DEF SomeFinite

-----------------------------------------------------------------------------
(* The encoder *)

Depth == SelectLayers[Len(SelectLayers)]

LEMMA PromptShape ==
  /\ PromptLen = MaxLength + PrefixLen /\ PromptLen \in Nat \ {0}
  /\ BodyLen \in Nat /\ BodyLen >= PrefixLen /\ PromptLen = BodyLen + SuffixLen
  /\ Prompt = 1 .. PromptLen /\ Prompt \subseteq Nat
BY ConditionerAssumption DEF PromptLen, BodyLen, Prompt

LEMMA DepthIsNatural == Depth \in Nat \ {0}
BY ConditionerAssumption, ElementOfSeq DEF Depth

Embedding == [p \in Prompt |-> Row({p})]

(* f is the hidden states of the first n layers. *)
IsHidden(f, n, mask) ==
  f = [i \in 0 .. n |-> IF i = 0 THEN Embedding ELSE DecoderLayer(f[i - 1], AttentionMasks(mask))]

LEMMA OneMoreLayer ==
  ASSUME NEW mask, NEW n \in Nat, NEW f, IsHidden(f, n, mask)
  PROVE  \E g : IsHidden(g, n + 1, mask)
<1> DEFINE L(h) == DecoderLayer(h, AttentionMasks(mask))
           g == [i \in 0 .. n + 1 |-> IF i <= n THEN f[i] ELSE L(f[n])]
<1>1. \A i \in 0 .. n : g[i] = f[i]
  OBVIOUS
<1>2. g[n + 1] = L(f[n])
  OBVIOUS
<1>3. ASSUME NEW i \in 0 .. n + 1
      PROVE  g[i] = IF i = 0 THEN Embedding ELSE L(g[i - 1])
  <2>1. CASE i = n + 1
    <3>1. i # 0 /\ i - 1 = n /\ n \in 0 .. n
      BY <2>1
    <3>2. QED
      BY <1>1, <1>2, <2>1, <3>1, Zenon
  <2>2. CASE i # n + 1
    <3>1. i \in 0 .. n
      BY <2>2
    <3>2. f[i] = IF i = 0 THEN Embedding ELSE L(f[i - 1])
      BY <3>1, Zenon DEF IsHidden
    <3>3. i # 0 => i - 1 \in 0 .. n
      BY <3>1
    <3>4. QED
      BY <1>1, <3>1, <3>2, <3>3, Zenon
  <2>3. QED
    BY <2>1, <2>2
<1>4. g = [i \in 0 .. n + 1 |-> IF i = 0 THEN Embedding ELSE L(g[i - 1])]
  <2>1. g = [i \in 0 .. n + 1 |-> g[i]]
    BY Zenon
  <2> HIDE DEF g, L
  <2>2. QED
    BY <1>3, <2>1, Zenon
<1>5. QED
  BY <1>4, Zenon DEF IsHidden

LEMMA HiddenExists ==
  ASSUME NEW mask, NEW n \in Nat
  PROVE  \E f : IsHidden(f, n, mask)
<1> DEFINE T == {m \in Nat : \E f : IsHidden(f, m, mask)}
<1>1. 0 \in T
  <2> DEFINE f == [i \in 0 .. 0 |-> Embedding]
  <2>1. \A i \in 0 .. 0 : i = 0
    OBVIOUS
  <2>2. f = [i \in 0 .. 0 |-> IF i = 0 THEN Embedding ELSE DecoderLayer(f[i - 1], AttentionMasks(mask))]
    BY <2>1, Zenon
  <2>3. IsHidden(f, 0, mask)
    BY <2>2, Zenon DEF IsHidden
  <2> HIDE DEF f
  <2>4. QED
    BY <2>3, Zenon
<1>2. ASSUME NEW m \in T
      PROVE  m + 1 \in T
  BY OneMoreLayer
<1> HIDE DEF T
<1>3. Nat \subseteq T
  BY <1>1, <1>2, SetInduction
<1>4. QED
  BY <1>3 DEF T

(* The hidden states are what their recursive definition says. *)
LEMMA HiddenLayers ==
  ASSUME NEW mask
  PROVE  /\ HiddenStates(mask)[0] = Embedding
         /\ \A i \in 0 .. Depth - 1 :
              HiddenStates(mask)[i + 1] = DecoderLayer(HiddenStates(mask)[i], AttentionMasks(mask))
<1>1. HiddenStates(mask) = CHOOSE f : IsHidden(f, Depth, mask)
  BY Zenon DEF HiddenStates, IsHidden, Depth, Embedding
<1>2. IsHidden(HiddenStates(mask), Depth, mask)
  BY <1>1, HiddenExists, DepthIsNatural, Zenon
<1> DEFINE h == HiddenStates(mask)
           L(rows) == DecoderLayer(rows, AttentionMasks(mask))
<1>3. \A i \in 0 .. Depth : h[i] = IF i = 0 THEN Embedding ELSE L(h[i - 1])
  BY <1>2, Zenon DEF IsHidden
<1> HIDE DEF h, L
<1>4. h[0] = Embedding
  BY <1>3, DepthIsNatural
<1>5. ASSUME NEW i \in 0 .. Depth - 1
      PROVE  h[i + 1] = L(h[i])
  <2>1. i + 1 \in 0 .. Depth /\ i + 1 # 0 /\ (i + 1) - 1 = i
    BY DepthIsNatural
  <2>2. QED
    BY <1>3, <2>1
<1>6. QED
  BY <1>4, <1>5, Zenon DEF h, L

LiveUpTo(mask, p) == {k \in Prompt : k <= p /\ mask[k] = 1}

LEMMA LayerParts ==
  ASSUME NEW rows \in [Prompt -> TokenRow], NEW bias, DOMAIN bias = Prompt
  PROVE  /\ DecoderLayer(rows, bias) \in [Prompt -> TokenRow]
         /\ \A p \in Prompt : DecoderLayer(rows, bias)[p].src
                                = rows[p].src \cup HeardSources(Float32, rows, bias, p)
         /\ Sound(rows) /\ SomeFinite(Float32, bias) => Sound(DecoderLayer(rows, bias))
<1> DEFINE mixed == Attend(Float32, rows, bias)
           layer == [p \in Prompt |-> Join(rows[p], mixed[p])]
<1>1. DecoderLayer(rows, bias) = layer
  BY Zenon DEF DecoderLayer
<1>2. /\ mixed \in [Prompt -> TokenRow]
      /\ \A q \in Prompt : mixed[q].src = HeardSources(Float32, rows, bias, q)
      /\ SomeFinite(Float32, bias) => \A q \in Prompt : mixed[q].bad <=> ~Sound(rows)
  BY AttendParts
<1> HIDE DEF mixed
<1>3. \A p \in Prompt : /\ Join(rows[p], mixed[p]) \in TokenRow
                        /\ Join(rows[p], mixed[p]).src = rows[p].src \cup mixed[p].src
                        /\ Join(rows[p], mixed[p]).bad <=> rows[p].bad \/ mixed[p].bad
  BY <1>2, JoinParts, Zenon
<1>4. layer \in [Prompt -> TokenRow] /\ \A p \in Prompt : layer[p] = Join(rows[p], mixed[p])
  BY <1>3, Zenon
<1> HIDE DEF layer
<1>5. Sound(rows) /\ SomeFinite(Float32, bias) => Sound(layer)
  BY <1>2, <1>3, <1>4, Zenon DEF Sound
<1>6. QED
  BY <1>1, <1>2, <1>3, <1>4, <1>5, Zenon

(* After some layers a live position depends on live positions up to its    *)
(* own, and after one on all of them.                                       *)
HiddenFits(mask, n) ==
  LET rows == HiddenStates(mask)[n]
  IN /\ rows \in [Prompt -> TokenRow]
     /\ Sound(rows)
     /\ \A p \in Prompt : rows[p].src # {}
     /\ \A p \in Prompt : mask[p] = 1 => p \in rows[p].src /\ rows[p].src \subseteq LiveUpTo(mask, p)
     /\ n > 0 => \A p \in Prompt : mask[p] = 1 => rows[p].src = LiveUpTo(mask, p)

LEMMA LayerFits ==
  ASSUME NEW mask \in [Prompt -> {0, 1}], mask[1] = 1, NEW n \in 0 .. Depth - 1, HiddenFits(mask, n)
  PROVE  HiddenFits(mask, n + 1)
<1> DEFINE rows == HiddenStates(mask)[n]
           bias == AttentionMasks(mask)
           next == HiddenStates(mask)[n + 1]
<1>1. next = DecoderLayer(rows, bias)
  BY HiddenLayers
<1>2. /\ rows \in [Prompt -> TokenRow] /\ Sound(rows)
      /\ \A p \in Prompt : rows[p].src # {}
      /\ \A p \in Prompt : mask[p] = 1 => p \in rows[p].src /\ rows[p].src \subseteq LiveUpTo(mask, p)
  BY Zenon DEF HiddenFits
<1>3. SomeFinite(Float32, bias)
  <2>1. 1 \in Prompt /\ \A k \in Prompt : 1 <= k
    BY PromptShape
  <2>2. QED
    BY <2>1, EncoderMaskIsFinite, Zenon
<1>4. DOMAIN bias = Prompt
  BY Zenon DEF AttentionMasks
<1>5. \A p \in Prompt : mask[p] = 1 => Heard(Float32, bias, p) = LiveUpTo(mask, p)
  BY LiveHearsLive, Zenon DEF LiveUpTo
<1> HIDE DEF rows, bias, next
<1>6. /\ next \in [Prompt -> TokenRow] /\ Sound(next)
      /\ \A p \in Prompt : next[p].src = rows[p].src \cup HeardSources(Float32, rows, bias, p)
  BY <1>1, <1>2, <1>3, <1>4, LayerParts
<1>7. ASSUME NEW p \in Prompt, mask[p] = 1
      PROVE  p \in LiveUpTo(mask, p) /\ next[p].src = LiveUpTo(mask, p)
  <2>1. HeardSources(Float32, rows, bias, p) = UNION {rows[k].src : k \in LiveUpTo(mask, p)}
    BY <1>5, <1>7, Zenon DEF HeardSources
  <2>2. p \in LiveUpTo(mask, p)
    BY <1>7, PromptShape DEF LiveUpTo
  <2>3. ASSUME NEW k \in LiveUpTo(mask, p)
        PROVE  k \in rows[k].src /\ rows[k].src \subseteq LiveUpTo(mask, p)
    <3>1. k \in Prompt /\ mask[k] = 1 /\ k <= p
      BY <2>3, Zenon DEF LiveUpTo
    <3>2. LiveUpTo(mask, k) \subseteq LiveUpTo(mask, p)
      BY <3>1, PromptShape DEF LiveUpTo
    <3>3. QED
      BY <1>2, <3>1, <3>2, Zenon
  <2> HIDE DEF LiveUpTo
  <2>4. UNION {rows[k].src : k \in LiveUpTo(mask, p)} = LiveUpTo(mask, p)
    BY <2>3
  <2>5. rows[p].src \subseteq LiveUpTo(mask, p)
    BY <2>2, <2>3
  <2>6. QED
    BY <1>6, <2>1, <2>2, <2>4, <2>5
<1>8. \A p \in Prompt : next[p].src # {}
  BY <1>2, <1>6
<1>9. QED
  BY <1>6, <1>7, <1>8, Zenon DEF HiddenFits, next

LEMMA HiddenStatesFit ==
  ASSUME NEW mask \in [Prompt -> {0, 1}], mask[1] = 1
  PROVE  \A n \in 0 .. Depth : HiddenFits(mask, n)
<1> DEFINE T == {n \in Nat : n <= Depth => HiddenFits(mask, n)}
<1>1. 0 \in T
  <2>1. \A p \in Prompt : {p} \in SUBSET Nat
    BY PromptShape
  <2>2. /\ Embedding \in [Prompt -> TokenRow] /\ Sound(Embedding)
        /\ \A p \in Prompt : Embedding[p].src = {p}
    BY <2>1, RowParts, Zenon DEF Embedding, Sound
  <2>3. \A p \in Prompt : {p} # {} /\ (mask[p] = 1 => {p} \subseteq LiveUpTo(mask, p))
    BY PromptShape DEF LiveUpTo
  <2>4. HiddenStates(mask)[0] = Embedding
    BY HiddenLayers
  <2>5. ~(0 > 0)
    OBVIOUS
  <2>6. HiddenFits(mask, 0)
    BY <2>2, <2>3, <2>4, <2>5, Zenon DEF HiddenFits
  <2>7. QED
    BY <2>6
<1>2. ASSUME NEW n \in T, n \in Nat
      PROVE  n + 1 \in T
  <2>1. n + 1 <= Depth => n \in 0 .. Depth - 1 /\ n <= Depth
    BY <1>2, DepthIsNatural
  <2>2. n + 1 <= Depth => HiddenFits(mask, n + 1)
    BY <1>2, <2>1, LayerFits
  <2>3. QED
    BY <1>2, <2>2
<1> HIDE DEF T
<1>3. Nat \subseteq T
  BY <1>1, <1>2, SetInduction
<1>4. QED
  BY <1>3, DepthIsNatural DEF T

(* The selected layers are layers that run. *)
LEMMA SelectedExist == \A n \in 1 .. Len(SelectLayers) : SelectLayers[n] \in 1 .. Depth
<1> DEFINE len == Len(SelectLayers)
           T == {d \in Nat : d < len => SelectLayers[len - d] <= Depth}
<1>0. /\ len \in Nat \ {0} /\ \A n \in 1 .. len : SelectLayers[n] \in Nat \ {0}
      /\ \A i \in 1 .. len - 1 : SelectLayers[i] < SelectLayers[i + 1]
  BY ConditionerAssumption, ElementOfSeq
<1>00. len \in Nat \ {0}
  BY <1>0
<1>01. \A d \in Nat : d + 1 < len => len - (d + 1) \in 1 .. len - 1 /\ (len - (d + 1)) + 1 = len - d
  BY <1>00
<1>1. 0 \in T
  BY <1>0 DEF Depth
<1>2. ASSUME NEW d \in T, d \in Nat
      PROVE  d + 1 \in T
  <2>1. ASSUME d + 1 < len
        PROVE  SelectLayers[len - (d + 1)] <= Depth
    <3>0. len - (d + 1) \in 1 .. len - 1 /\ (len - (d + 1)) + 1 = len - d
      BY <1>01, <1>2, <2>1
    <3>1. PICK i \in 1 .. len - 1 : i = len - (d + 1) /\ i + 1 = len - d
      BY <3>0, Zenon
    <3>2. i \in 1 .. len /\ i + 1 \in 1 .. len
      BY <1>00
    <3>3. SelectLayers[i + 1] <= Depth
      <4>1. d < len
        BY <1>00, <1>2, <2>1
      <4>2. SelectLayers[len - d] <= Depth
        BY <1>2, <4>1
      <4>3. QED
        BY <3>1, <4>2, Zenon
    <3>4. SelectLayers[i] < SelectLayers[i + 1] /\ SelectLayers[i] \in Nat /\ SelectLayers[i + 1] \in Nat
      BY <1>0, <3>1, <3>2
    <3>5. QED
      BY <3>1, <3>3, <3>4, DepthIsNatural
  <2>2. QED
    BY <1>2, <2>1
<1> HIDE DEF T
<1>3. Nat \subseteq T
  BY <1>1, <1>2, SetInduction
<1>4. ASSUME NEW n \in 1 .. len
      PROVE  SelectLayers[n] <= Depth
  <2>1. len - n \in T /\ len - n < len /\ len - (len - n) = n
    BY <1>0, <1>3
  <2>2. QED
    BY <2>1 DEF T
<1>5. QED
  BY <1>0, <1>4, DepthIsNatural

(* The tokens of a prompt: the prefix and as much of the caption as fits,   *)
(* padding, and the suffix.                                                 *)
LEMMA TokenizeParts ==
  ASSUME NEW caption \in Nat
  PROVE  LET prompt == Tokenize(caption)
         IN /\ prompt.mask \in [Prompt -> {0, 1}]
            /\ prompt.mask[1] = 1 /\ prompt.mask[PromptLen] = 1
            /\ prompt.ids[PromptLen] = <<"suffix", SuffixLen>>
            /\ caption > 0 /\ MaxLength > SuffixLen => prompt.ids[PrefixLen + 1] = <<"caption", 1>>
<1> DEFINE live == Smaller(PrefixLen + caption, BodyLen)
           id(p) == IF p <= live
                      THEN IF p <= PrefixLen THEN <<"prefix", p>>
                                             ELSE <<"caption", p - PrefixLen>>
                      ELSE IF p <= BodyLen THEN <<"pad", 0>>
                                           ELSE <<"suffix", p - BodyLen>>
           bit(p) == IF p <= live \/ p > BodyLen THEN 1 ELSE 0
           prompt == Tokenize(caption)
<1>1. prompt.ids = [p \in Prompt |-> id(p)] /\ prompt.mask = [p \in Prompt |-> bit(p)]
  BY Zenon DEF Tokenize
<1>2. /\ live \in Nat /\ 1 <= live /\ live <= BodyLen
      /\ caption > 0 /\ MaxLength > SuffixLen => PrefixLen + 1 <= live
  BY PromptShape, ConditionerAssumption DEF Smaller, BodyLen
<1> HIDE DEF live
<1>3. 1 \in Prompt /\ PromptLen \in Prompt /\ PromptLen > BodyLen /\ ~(PromptLen <= live)
      /\ PromptLen - BodyLen = SuffixLen
  BY <1>2, PromptShape, ConditionerAssumption
<1>4. bit(1) = 1 /\ bit(PromptLen) = 1 /\ \A p \in Prompt : bit(p) \in {0, 1}
  BY <1>2, <1>3
<1>5. id(PromptLen) = <<"suffix", SuffixLen>>
  BY <1>2, <1>3, PromptShape
<1>6. ASSUME caption > 0, MaxLength > SuffixLen
      PROVE  PrefixLen + 1 \in Prompt /\ id(PrefixLen + 1) = <<"caption", 1>>
  <2>1. PrefixLen + 1 <= live /\ ~(PrefixLen + 1 <= PrefixLen) /\ (PrefixLen + 1) - PrefixLen = 1
    BY <1>2, <1>6, ConditionerAssumption
  <2>2. PrefixLen + 1 \in Prompt
    BY <1>2, <2>1, PromptShape, ConditionerAssumption
  <2>3. QED
    BY <2>1, <2>2
<1> HIDE DEF id, bit, prompt
<1>7. QED
  BY <1>1, <1>3, <1>4, <1>5, <1>6 DEF prompt

(* What the denoiser is given of a caption. *)
EncodedFits(text) ==
  /\ text.live \in SUBSET Nat
  /\ text.live \subseteq Prompt
  /\ Len(text.ids) = MaxLength
  /\ text.caption > 0 /\ MaxLength > SuffixLen => text.ids[1] = <<"caption", 1>>
  /\ text.ids[MaxLength] = <<"suffix", SuffixLen>>
  /\ text.mask \in [1 .. MaxLength -> {0, 1}]
  /\ text.mask[MaxLength] = 1
  /\ text.stack \in [1 .. MaxLength -> [1 .. Len(SelectLayers) -> TokenRow]]
  /\ \A k \in 1 .. MaxLength : Sound(text.stack[k])
  /\ \A k \in 1 .. MaxLength, n \in 1 .. Len(SelectLayers) : text.stack[k][n].src # {}
  /\ \A k \in 1 .. MaxLength, n \in 1 .. Len(SelectLayers) :
       text.mask[k] = 1 => text.stack[k][n].src \subseteq text.live
  /\ \A n \in 1 .. Len(SelectLayers) : text.stack[MaxLength][n].src = text.live

LEMMA CaptionEncoded ==
  ASSUME NEW caption \in Nat
  PROVE  EncodedFits(EncodeCaption(caption))
<1> DEFINE prompt == Tokenize(caption)
           mask == prompt.mask
           hidden == HiddenStates(mask)
           emitted == 1 .. PromptLen - PrefixLen
           text == EncodeCaption(caption)
           len == Len(SelectLayers)
<1>1. /\ text.caption = caption
      /\ text.live = {p \in Prompt : mask[p] = 1}
      /\ text.ids = [k \in emitted |-> prompt.ids[Past(k)]]
      /\ text.mask = [k \in emitted |-> mask[Past(k)]]
      /\ text.stack = [k \in emitted |-> [n \in 1 .. len |-> hidden[SelectLayers[n]][Past(k)]]]
  BY Zenon DEF EncodeCaption
<1>2. /\ mask \in [Prompt -> {0, 1}]
      /\ mask[1] = 1 /\ mask[PromptLen] = 1
      /\ prompt.ids[PromptLen] = <<"suffix", SuffixLen>>
      /\ caption > 0 /\ MaxLength > SuffixLen => prompt.ids[PrefixLen + 1] = <<"caption", 1>>
  BY TokenizeParts, Zenon
<1>3. /\ emitted = 1 .. MaxLength /\ MaxLength \in emitted /\ 1 \in emitted /\ MaxLength \in Nat
      /\ \A k \in emitted : Past(k) \in Prompt
      /\ Past(MaxLength) = PromptLen /\ Past(1) = PrefixLen + 1
  BY PromptShape, ConditionerAssumption DEF Past
<1>4. \A n \in 1 .. len : HiddenFits(mask, SelectLayers[n]) /\ SelectLayers[n] > 0
  <2>1. \A n \in 1 .. len : SelectLayers[n] \in 0 .. Depth /\ SelectLayers[n] > 0
    BY SelectedExist, DepthIsNatural
  <2>2. QED
    BY <1>2, <2>1, HiddenStatesFit
<1> HIDE DEF prompt, mask, hidden, emitted, text
<1>5. \A n \in 1 .. len, p \in Prompt :
        /\ hidden[SelectLayers[n]][p] \in TokenRow
        /\ ~hidden[SelectLayers[n]][p].bad
        /\ hidden[SelectLayers[n]][p].src # {}
        /\ mask[p] = 1 => hidden[SelectLayers[n]][p].src = LiveUpTo(mask, p)
  BY <1>4, Zenon DEF HiddenFits, hidden, Sound
<1>6. text.live \subseteq Prompt /\ text.live \in SUBSET Nat
  BY <1>1, PromptShape
<1>7. /\ \A p \in Prompt : LiveUpTo(mask, p) \subseteq text.live
      /\ LiveUpTo(mask, PromptLen) = text.live
  BY <1>1, PromptShape DEF LiveUpTo
<1>8. /\ Len(text.ids) = MaxLength
      /\ text.ids[1] = prompt.ids[PrefixLen + 1] /\ text.ids[MaxLength] = prompt.ids[PromptLen]
  BY <1>1, <1>3
<1>9. \A k \in emitted : text.mask[k] = mask[Past(k)] /\ mask[Past(k)] \in {0, 1}
  BY <1>1, <1>2, <1>3, Zenon
<1>10. text.mask \in [emitted -> {0, 1}] /\ text.mask[MaxLength] = 1
  BY <1>1, <1>2, <1>3, <1>9, Zenon
<1>11. \A k \in emitted : /\ text.stack[k] \in [1 .. len -> TokenRow]
                         /\ \A n \in 1 .. len : text.stack[k][n] = hidden[SelectLayers[n]][Past(k)]
  <2>1. ASSUME NEW k \in emitted
        PROVE  /\ text.stack[k] \in [1 .. len -> TokenRow]
               /\ \A n \in 1 .. len : text.stack[k][n] = hidden[SelectLayers[n]][Past(k)]
    <3>1. text.stack[k] = [n \in 1 .. len |-> hidden[SelectLayers[n]][Past(k)]]
      BY <1>1, Zenon
    <3>2. Past(k) \in Prompt
      BY <1>3
    <3>3. QED
      BY <1>5, <3>1, <3>2, Zenon
  <2>2. QED
    BY <2>1, Zenon
<1>12. text.stack \in [emitted -> [1 .. len -> TokenRow]]
  BY <1>1, <1>11, Zenon
<1>13. ASSUME NEW k \in emitted
       PROVE  /\ Sound(text.stack[k])
              /\ \A n \in 1 .. len : text.stack[k][n].src # {}
              /\ \A n \in 1 .. len : text.mask[k] = 1 => text.stack[k][n].src \subseteq text.live
  <2>1. Past(k) \in Prompt
    BY <1>3
  <2>2. \A n \in 1 .. len : ~text.stack[k][n].bad /\ text.stack[k][n].src # {}
    BY <1>5, <1>11, <2>1, Zenon
  <2>3. DOMAIN text.stack[k] = 1 .. len
    BY <1>11, Zenon
  <2>4. ASSUME NEW n \in 1 .. len, text.mask[k] = 1
        PROVE  text.stack[k][n].src \subseteq text.live
    <3>1. mask[Past(k)] = 1 /\ text.stack[k][n] = hidden[SelectLayers[n]][Past(k)]
      BY <1>9, <1>11, <2>4, Zenon
    <3>2. hidden[SelectLayers[n]][Past(k)].src = LiveUpTo(mask, Past(k))
      BY <1>5, <2>1, <3>1, Zenon
    <3>3. QED
      BY <1>7, <2>1, <3>1, <3>2, Zenon
  <2>5. QED
    BY <2>2, <2>3, <2>4, Zenon DEF Sound
<1>15. \A n \in 1 .. len : text.stack[MaxLength][n].src = text.live
  <2>1. \A n \in 1 .. len : text.stack[MaxLength][n] = hidden[SelectLayers[n]][PromptLen]
    BY <1>3, <1>11
  <2>2. PromptLen \in Prompt
    BY PromptShape
  <2>3. QED
    BY <1>2, <1>5, <1>7, <2>1, <2>2, Zenon
<1>16. QED
  BY <1>1, <1>2, <1>3, <1>6, <1>8, <1>10, <1>12, <1>13, <1>15, Zenon DEF EncodedFits, text

-----------------------------------------------------------------------------
(* Blocks under a mask *)

Valid(mask) == {k \in DOMAIN mask : mask[k] = 1}

(* Under the padding mask, a block gives each valid row what the valid rows *)
(* depend on together.                                                      *)
MixesValid(fmt, D, mask, rows, after) ==
  /\ after \in [D -> TokenRow]
  /\ \A q \in Valid(mask) : after[q].src = UNION {rows[k].src : k \in Valid(mask)}
  /\ \A q \in D : after[q].bad <=> ~Survives(fmt, rows)
  /\ Survives(fmt, rows) => Survives(fmt, after)
  /\ D # {} /\ Survives(fmt, after) => Survives(fmt, rows)

LEMMA MaskedBlock ==
  ASSUME NEW fmt \in Formats, NEW D, NEW mask \in [D -> {0, 1}], NEW rows \in [D -> TokenRow]
  PROVE  MixesValid(fmt, D, mask, rows, PreNormBlock(fmt, rows, AdditiveMask(mask)))
<1> DEFINE bias == AdditiveMask(mask)
           after == PreNormBlock(fmt, rows, bias)
<1>1. DOMAIN bias = D /\ SomeFinite(fmt, bias)
  BY MaskIsFinite DEF AdditiveMask
<1>2. \A q \in Valid(mask) : q \in D /\ Heard(fmt, bias, q) = Valid(mask)
  BY ValidHearsValid DEF Valid
<1> HIDE DEF bias
<1>3. /\ after \in [D -> TokenRow]
      /\ \A q \in D : after[q].src = HeardSources(fmt, rows, bias, q) \cup rows[q].src
      /\ \A q \in D : after[q].bad <=> ~Survives(fmt, rows)
  <2>1. GathersHeard(fmt, D, rows, bias, after, Survives(fmt, rows))
    <3>1. DOMAIN bias = D
      BY <1>1, Zenon
    <3>2. QED
      BY <3>1, BlockParts
  <2>2. QED
    BY <1>1, <2>1, Zenon DEF GathersHeard
<1>4. ASSUME NEW q \in Valid(mask)
      PROVE  after[q].src = UNION {rows[k].src : k \in Valid(mask)}
  <2>1. HeardSources(fmt, rows, bias, q) = UNION {rows[k].src : k \in Valid(mask)}
    BY <1>2, Zenon DEF HeardSources
  <2>2. rows[q].src \subseteq UNION {rows[k].src : k \in Valid(mask)}
    OBVIOUS
  <2>3. QED
    BY <1>2, <1>3, <2>1, <2>2
<1>5. /\ Survives(fmt, rows) => Survives(fmt, after)
      /\ D # {} /\ Survives(fmt, after) => Survives(fmt, rows)
  <2>1. \A q \in D : rows[q].src \subseteq after[q].src
    BY <1>3
  <2> HIDE DEF after
  <2>2. QED
    BY <1>3, <2>1, Survival
<1>6. QED
  BY <1>3, <1>4, <1>5, Zenon DEF bias, MixesValid

(* Across the layers of one token there is no mask. *)
LEMMA LayerwiseBlock ==
  ASSUME NEW fmt \in Formats, NEW D, NEW rows \in [D -> TokenRow]
  PROVE  LET after == PreNormBlock(fmt, rows, Unmasked(rows))
         IN /\ after \in [D -> TokenRow]
            /\ \A q \in D : after[q].src = UNION {rows[k].src : k \in D}
            /\ Survives(fmt, rows) => Sound(after) /\ Survives(fmt, after)
<1> DEFINE bias == Unmasked(rows)
           after == PreNormBlock(fmt, rows, bias)
<1>1. DOMAIN bias = D /\ SomeFinite(fmt, bias) /\ \A q \in D : Heard(fmt, bias, q) = D
  BY UnmaskedHearsAll
<1> HIDE DEF bias
<1>3. /\ after \in [D -> TokenRow]
      /\ \A q \in D : after[q].src = HeardSources(fmt, rows, bias, q) \cup rows[q].src
      /\ \A q \in D : after[q].bad <=> ~Survives(fmt, rows)
  <2>1. GathersHeard(fmt, D, rows, bias, after, Survives(fmt, rows))
    <3>1. DOMAIN bias = D
      BY <1>1, Zenon
    <3>2. QED
      BY <3>1, BlockParts
  <2>2. QED
    BY <1>1, <2>1, Zenon DEF GathersHeard
<1>4. \A q \in D : HeardSources(fmt, rows, bias, q) = UNION {rows[k].src : k \in D}
  BY <1>1, Zenon DEF HeardSources
<1>5. \A q \in D : rows[q].src \subseteq UNION {rows[k].src : k \in D}
  OBVIOUS
<1>6. \A q \in D : after[q].src = UNION {rows[k].src : k \in D}
  BY <1>3, <1>4, <1>5
<1>7. Survives(fmt, rows) => Sound(after) /\ Survives(fmt, after)
  <2>1. \A q \in D : rows[q].src \subseteq after[q].src
    BY <1>3
  <2> HIDE DEF after
  <2>2. QED
    BY <1>3, <2>1, Survival
<1>8. QED
  BY <1>3, <1>6, <1>7 DEF bias

(* The layers of one token, fused. *)
Fused(fmt, layers) ==
  LET Layerwise(rows) == PreNormBlock(fmt, rows, Unmasked(rows))
  IN JoinAll(Layerwise(Layerwise(layers)))

LEMMA FusedParts ==
  ASSUME NEW fmt \in Formats, NEW D, D # {}, NEW layers \in [D -> TokenRow]
  PROVE  /\ Fused(fmt, layers) \in TokenRow
         /\ Fused(fmt, layers).src = UNION {layers[n].src : n \in D}
         /\ Survives(fmt, layers) => ~Fused(fmt, layers).bad
<1> DEFINE all == UNION {layers[n].src : n \in D}
           one == PreNormBlock(fmt, layers, Unmasked(layers))
           two == PreNormBlock(fmt, one, Unmasked(one))
<1>1. /\ one \in [D -> TokenRow] /\ \A q \in D : one[q].src = all
      /\ Survives(fmt, layers) => Survives(fmt, one)
  BY LayerwiseBlock
<1> HIDE DEF one
<1>2. /\ two \in [D -> TokenRow] /\ \A q \in D : two[q].src = UNION {one[n].src : n \in D}
      /\ Survives(fmt, one) => Sound(two)
  BY <1>1, LayerwiseBlock
<1> HIDE DEF two
<1>3. UNION {one[n].src : n \in D} = all
  <2> HIDE DEF all
  <2>1. QED
    BY <1>1
<1>4. UNION {two[n].src : n \in DOMAIN two} = all
  <2> HIDE DEF all
  <2>1. QED
    BY <1>2, <1>3
<1>5. /\ JoinAll(two) \in TokenRow
      /\ JoinAll(two).src = all
      /\ Sound(two) => ~JoinAll(two).bad
  BY <1>2, <1>4, JoinAllParts, Zenon DEF Sound
<1>6. Fused(fmt, layers) = JoinAll(two)
  BY Zenon DEF Fused, two, one
<1>7. QED
  BY <1>1, <1>2, <1>5, <1>6, Zenon

LEMMA TextFusionParts ==
  ASSUME NEW fmt \in Formats, NEW text, EncodedFits(text)
  PROVE  LET fused == TextFusion(fmt, text.stack, AdditiveMask(text.mask))
         IN /\ fused \in [1 .. MaxLength -> TokenRow]
            /\ \A k \in Valid(text.mask) : fused[k].src = text.live
            /\ Survives(fmt, fused)
<1> DEFINE D == 1 .. MaxLength
           N == 1 .. Len(SelectLayers)
           mask == text.mask
           Refined(rows) == PreNormBlock(fmt, rows, AdditiveMask(mask))
           zero == [k \in D |-> Fused(fmt, text.stack[k])]
           one == Refined(zero)
           two == Refined(one)
<1>1. /\ text.stack \in [D -> [N -> TokenRow]] /\ mask \in [D -> {0, 1}]
      /\ MaxLength \in D /\ mask[MaxLength] = 1 /\ N # {}
      /\ \A k \in D : Sound(text.stack[k]) /\ \A n \in N : text.stack[k][n].src # {}
      /\ \A n \in N : text.stack[MaxLength][n].src = text.live
  <2>1. 1 \in N /\ MaxLength \in D
    BY ConditionerAssumption
  <2>2. QED
    BY <2>1, Zenon DEF EncodedFits
<1>2. \A k \in D : mask[k] = 1 => \A n \in N : text.stack[k][n].src \subseteq text.live
  BY Zenon DEF EncodedFits
<1>3. TextFusion(fmt, text.stack, AdditiveMask(mask)) = two
  <2>1. DOMAIN text.stack = D
    BY <1>1, Zenon
  <2>2. QED
    BY <2>1, Zenon DEF TextFusion, Fused
<1> HIDE DEF N, mask
<1>4. \A k \in D : /\ Fused(fmt, text.stack[k]) \in TokenRow
                   /\ Fused(fmt, text.stack[k]).src = UNION {text.stack[k][n].src : n \in N}
                   /\ ~Fused(fmt, text.stack[k]).bad
  <2>1. ASSUME NEW k \in D
        PROVE  /\ Fused(fmt, text.stack[k]) \in TokenRow
               /\ Fused(fmt, text.stack[k]).src = UNION {text.stack[k][n].src : n \in N}
               /\ ~Fused(fmt, text.stack[k]).bad
    <3>1. /\ text.stack[k] \in [N -> TokenRow] /\ Sound(text.stack[k]) /\ N # {}
          /\ \A n \in N : text.stack[k][n].src # {}
      BY <1>1, Zenon
    <3>2. Survives(fmt, text.stack[k])
      BY <3>1, Zenon DEF Survives, Sound
    <3>3. QED
      BY <3>1, <3>2, FusedParts, ZenonT(60)
  <2>2. QED
    BY <2>1, Zenon
<1>5. /\ zero \in [D -> TokenRow]
      /\ \A k \in D : zero[k].src = UNION {text.stack[k][n].src : n \in N}
      /\ Survives(fmt, zero)
  <2>1. /\ zero \in [D -> TokenRow]
        /\ \A k \in D : /\ zero[k].src = UNION {text.stack[k][n].src : n \in N}
                        /\ ~zero[k].bad
    BY <1>4, Zenon
  <2> HIDE DEF zero
  <2>2. \A k \in D : zero[k].src # {}
    <3>1. ASSUME NEW k \in D
          PROVE  UNION {text.stack[k][n].src : n \in N} # {}
      <4>1. PICK n \in N : text.stack[k][n].src # {}
        BY <1>1, Zenon
      <4>2. QED
        BY <4>1
    <3>2. QED
      BY <2>1, <3>1, Zenon
  <2>3. QED
    BY <2>1, <2>2, Zenon DEF Survives
<1> HIDE DEF zero, D
<1>6. Valid(mask) \subseteq D /\ MaxLength \in Valid(mask)
  BY <1>1 DEF Valid
<1>7. /\ \A k \in Valid(mask) : zero[k].src \subseteq text.live
      /\ zero[MaxLength].src = text.live
  <2>1. ASSUME NEW k \in Valid(mask)
        PROVE  zero[k].src \subseteq text.live
    <3>1. k \in D /\ mask[k] = 1
      BY <1>6 DEF Valid
    <3>2. QED
      BY <1>2, <1>5, <3>1
  <2>2. zero[MaxLength].src = text.live
    <3>1. zero[MaxLength].src = UNION {text.stack[MaxLength][n].src : n \in N}
      BY <1>1, <1>5
    <3>2. QED
      BY <1>1, <3>1
  <2>3. QED
    BY <2>1, <2>2
<1>8. UNION {zero[k].src : k \in Valid(mask)} = text.live
  BY <1>6, <1>7
<1>9. /\ one \in [D -> TokenRow]
      /\ \A k \in Valid(mask) : one[k].src = text.live
      /\ Survives(fmt, one)
  <2>1. /\ one \in [D -> TokenRow]
        /\ \A k \in Valid(mask) : one[k].src = UNION {zero[n].src : n \in Valid(mask)}
        /\ Survives(fmt, zero) => Survives(fmt, one)
    <3>1. MixesValid(fmt, D, mask, zero, Refined(zero))
      BY <1>1, <1>5, MaskedBlock
    <3>2. QED
      BY <3>1, Zenon DEF MixesValid
  <2>2. QED
    BY <1>5, <1>8, <2>1, Zenon
<1> HIDE DEF one
<1>10. UNION {one[k].src : k \in Valid(mask)} = text.live
  BY <1>6, <1>9
<1>11. /\ two \in [D -> TokenRow]
       /\ \A k \in Valid(mask) : two[k].src = text.live
       /\ Survives(fmt, two)
  <2>1. /\ two \in [D -> TokenRow]
        /\ \A k \in Valid(mask) : two[k].src = UNION {one[n].src : n \in Valid(mask)}
        /\ Survives(fmt, one) => Survives(fmt, two)
    <3>1. MixesValid(fmt, D, mask, one, Refined(one))
      BY <1>1, <1>9, MaskedBlock
    <3>2. QED
      BY <3>1, Zenon DEF MixesValid
  <2>2. QED
    BY <1>9, <1>10, <2>1, Zenon
<1>12. QED
  BY <1>3, <1>11 DEF mask, D

-----------------------------------------------------------------------------
(* The sequence *)

LEMMA FunctionIsSeq ==
  ASSUME NEW S, NEW n \in Nat, NEW f \in [1 .. n -> S]
  PROVE  f \in Seq(S) /\ Len(f) = n
OBVIOUS

(* s is f, of length a, and then g, of length b. *)
IsConcat(S, a, b, f, g, s) ==
  /\ s \in [1 .. a + b -> S]
  /\ \A i \in 1 .. a : s[i] = f[i]
  /\ \A i \in 1 .. b : s[a + i] = g[i]

LEMMA TwoParts ==
  ASSUME NEW S, NEW a \in Nat, NEW b \in Nat, NEW f \in [1 .. a -> S], NEW g \in [1 .. b -> S]
  PROVE  IsConcat(S, a, b, f, g, f \o g)
<1>1. f \in Seq(S) /\ g \in Seq(S) /\ Len(f) = a /\ Len(g) = b
  BY FunctionIsSeq
<1> DEFINE s == f \o g
<1>2. /\ s \in Seq(S) /\ Len(s) = a + b
      /\ \A i \in 1 .. a + b : s[i] = IF i <= a THEN f[i] ELSE g[i - a]
  BY <1>1, ConcatProperties
<1> HIDE DEF s
<1>3. s \in [1 .. a + b -> S]
  BY <1>2, LenProperties
<1>4. \A i \in 1 .. a : s[i] = f[i]
  BY <1>2
<1>5. ASSUME NEW i \in 1 .. b
      PROVE  s[a + i] = g[i]
  <2>1. a + i \in 1 .. a + b /\ ~(a + i <= a) /\ (a + i) - a = i
    OBVIOUS
  <2>2. QED
    BY <1>2, <2>1
<1>6. QED
  BY <1>3, <1>4, <1>5, Zenon DEF s, IsConcat

(* And of three: f, g and then h. *)
IsConcat3(S, a, b, c, f, g, h, s) ==
  /\ s \in [1 .. a + b + c -> S]
  /\ \A i \in 1 .. a : s[i] = f[i]
  /\ \A i \in 1 .. b : s[a + i] = g[i]
  /\ \A i \in 1 .. c : s[a + b + i] = h[i]

LEMMA ThreeParts ==
  ASSUME NEW S, NEW a \in Nat, NEW b \in Nat, NEW c \in Nat,
         NEW f \in [1 .. a -> S], NEW g \in [1 .. b -> S], NEW h \in [1 .. c -> S]
  PROVE  IsConcat3(S, a, b, c, f, g, h, f \o g \o h)
<1> DEFINE s == f \o g
           t == s \o h
<1>1. IsConcat(S, a, b, f, g, s)
  BY TwoParts
<1>2. a + b \in Nat /\ s \in [1 .. a + b -> S]
  BY <1>1 DEF IsConcat
<1>3. IsConcat(S, a + b, c, s, h, t)
  BY <1>2, TwoParts
<1> HIDE DEF s, t
<1>4. /\ \A i \in 1 .. a : i \in 1 .. a + b
      /\ \A i \in 1 .. b : a + i \in 1 .. a + b
  OBVIOUS
<1>5. QED
  BY <1>1, <1>3, <1>4, Zenon DEF t, s, IsConcat, IsConcat3

(* A place in a sequence of three parts is in one of them. *)
LEMMA WhichPart ==
  ASSUME NEW a \in Nat, NEW b \in Nat, NEW c \in Nat, NEW i \in 1 .. a + b + c
  PROVE  \/ i \in 1 .. a
         \/ \E k \in 1 .. b : i = a + k
         \/ \E k \in 1 .. c : i = a + b + k
<1>1. CASE i <= a
  BY <1>1
<1>2. CASE a < i /\ i <= a + b
  <2>1. i - a \in 1 .. b /\ i = a + (i - a)
    BY <1>2
  <2>2. QED
    BY <2>1
<1>3. CASE a + b < i
  <2>1. i - (a + b) \in 1 .. c /\ i = a + b + (i - (a + b))
    BY <1>3
  <2>2. QED
    BY <2>1
<1>4. QED
  BY <1>1, <1>2, <1>3

(* Rounding up to a unit. *)
LEMMA DivMod ==
  ASSUME NEW n \in Nat, NEW d \in Nat \ {0}
  PROVE  \E r \in 0 .. d - 1 : r = n % d /\ n \div d \in Nat /\ n = d * (n \div d) + r
<1>1. n % d = n - d * (n \div d)
  BY Z3
<1>2. n % d \in 0 .. d - 1
  OBVIOUS
<1>3. n \div d \in Nat
  OBVIOUS
<1>4. PICK r \in 0 .. d - 1 : r = n % d
  BY <1>2
<1>5. PICK q \in Nat : q = n \div d
  BY <1>3
<1>6. n = d * q + r
  BY <1>1, <1>4, <1>5
<1>7. QED
  BY <1>4, <1>5, <1>6

LEMMA RoundUpParts ==
  ASSUME NEW n \in Nat, NEW unit \in Nat \ {0}
  PROVE  RoundUp(n, unit) \in Nat /\ RoundUp(n, unit) >= n
<1> DEFINE m == n + unit - 1
           q == m \div unit
<1>1. m \in Nat
  OBVIOUS
<1> HIDE DEF m
<1>2. PICK r \in 0 .. unit - 1 : q \in Nat /\ m = unit * q + r
  BY <1>1, DivMod
<1> HIDE DEF q
<1>4. q * unit = unit * q /\ q * unit \in Nat
  BY <1>2
<1>5. PICK x \in Nat : x = q * unit
  BY <1>4
<1>6. x >= m - (unit - 1)
  BY <1>1, <1>2, <1>4, <1>5
<1>7. m - (unit - 1) = n
  BY DEF m
<1>8. QED
  BY <1>1, <1>5, <1>6, <1>7 DEF RoundUp, q, m

(* A grid has one place for each token, and the token's number gives it. *)
LEMMA OnePlace ==
  ASSUME NEW gw \in Nat \ {0}, NEW q \in Nat, NEW r \in 0 .. gw - 1,
         NEW a \in Nat, NEW b \in 0 .. gw - 1, q * gw + r = a * gw + b
  PROVE  a = q /\ b = r
<1>1. a * gw - q * gw = r - b
  OBVIOUS
<1>2. (a - q) * gw = r - b /\ (q - a) * gw = b - r /\ r - b < gw /\ b - r < gw
  BY <1>1
<1>3. ASSUME NEW d \in Nat, d >= 1
      PROVE  d * gw >= gw
  BY <1>3
<1>4. ~(a > q)
  <2>1. SUFFICES ASSUME a > q
                 PROVE  FALSE
    OBVIOUS
  <2>2. PICK d \in Nat : d = a - q /\ d >= 1
    BY <2>1
  <2>3. QED
    BY <1>2, <1>3, <2>2
<1>5. ~(a < q)
  <2>1. SUFFICES ASSUME a < q
                 PROVE  FALSE
    OBVIOUS
  <2>2. PICK d \in Nat : d = q - a /\ d >= 1
    BY <2>1
  <2>3. QED
    BY <1>2, <1>3, <2>2
<1>6. a = q
  BY <1>4, <1>5
<1>7. QED
  BY <1>1, <1>6

(* krea2_positions gives an image token the place of its own patch. *)
LEMMA PositionsArePatches ==
  ASSUME NEW txtLen \in Nat, NEW gh \in Nat \ {0}, NEW gw \in Nat \ {0}, NEW k \in 1 .. gh * gw
  PROVE  /\ txtLen + k \in 1 .. txtLen + gh * gw
         /\ Krea2Positions(txtLen, gh, gw)[txtLen + k] = <<0, (k - 1) \div gw, (k - 1) % gw>>
<1> DEFINE place == {0} \X (0 .. gh - 1) \X (0 .. gw - 1)
           Is(at) == txtLen + k = txtLen + at[2] * gw + at[3] + 1
<1>1. gh * gw \in Nat /\ k - 1 \in Nat
  OBVIOUS
<1>2. txtLen + k \in 1 .. txtLen + gh * gw /\ ~(txtLen + k <= txtLen)
  BY <1>1
<1>3. Krea2Positions(txtLen, gh, gw)[txtLen + k] = CHOOSE at \in place : Is(at)
  BY <1>2, Zenon DEF Krea2Positions
<1>4. PICK q \in Nat, r \in 0 .. gw - 1 : q = (k - 1) \div gw /\ r = (k - 1) % gw /\ k - 1 = q * gw + r
  <2>1. PICK r \in 0 .. gw - 1 : /\ r = (k - 1) % gw /\ (k - 1) \div gw \in Nat
                                 /\ k - 1 = gw * ((k - 1) \div gw) + r
    BY <1>1, DivMod
  <2>2. PICK q \in Nat : q = (k - 1) \div gw
    BY <2>1
  <2>3. k - 1 = q * gw + r
    BY <2>1, <2>2
  <2>4. QED
    BY <2>1, <2>2, <2>3
<1>5. q \in 0 .. gh - 1
  <2>1. SUFFICES ASSUME q >= gh
                 PROVE  FALSE
    OBVIOUS
  <2>2. PICK d \in Nat : q = gh + d
    BY <2>1
  <2>3. q * gw = gh * gw + d * gw /\ d * gw \in Nat
    BY <2>2
  <2>4. QED
    BY <1>1, <1>4, <2>3
<1>6. <<0, q, r>> \in place /\ Is(<<0, q, r>>)
  BY <1>4, <1>5
<1>7. ASSUME NEW at \in place, Is(at)
      PROVE  at = <<0, q, r>>
  <2>1. PICK a \in 0 .. gh - 1, b \in 0 .. gw - 1 : at = <<0, a, b>>
    OBVIOUS
  <2>2. a * gw \in Nat
    OBVIOUS
  <2>3. k - 1 = a * gw + b
    BY <1>7, <2>1, <2>2
  <2>4. a = q /\ b = r
    BY <1>4, <2>3, OnePlace
  <2>5. QED
    BY <2>1, <2>4
<1> HIDE DEF place, Is
<1>8. (CHOOSE at \in place : Is(at)) = <<0, q, r>>
  BY <1>6, <1>7, Zenon
<1>9. QED
  BY <1>2, <1>3, <1>4, <1>8

-----------------------------------------------------------------------------
(* What the trunk is given *)

Sources(b) == b.text.live \cup {ImageSource(k) : k \in 1 .. b.gh * b.gw}

BatchFits(b) ==
  /\ b.gh \in Nat \ {0}
  /\ b.gw \in Nat \ {0}
  /\ EncodedFits(b.text)

SequenceLen(b) == RoundUp(MaxLength + b.gh * b.gw, SequencePad)

TrunkFits(b, p) ==
  /\ p.txtLen = MaxLength
  /\ p.imgLen = b.gh * b.gw
  /\ p.mask \in [1 .. SequenceLen(b) -> {0, 1}]
  /\ p.bias = AdditiveMask(p.mask)
  /\ p.rows \in [1 .. SequenceLen(b) -> TokenRow]
  /\ Sound(p.rows)
  /\ \A q \in Valid(p.mask) : p.rows[q].src \subseteq Sources(b)
  /\ Sources(b) \subseteq UNION {p.rows[q].src : q \in Valid(p.mask)}
  /\ \A k \in 1 .. b.gh * b.gw :
       /\ MaxLength + k \in Valid(p.mask)
       /\ p.rows[MaxLength + k] = Row({ImageSource(k)})
       /\ p.pos[MaxLength + k] = <<0>> \o Patchify(b.gh, b.gw)[k]

(* The epsilon of the norm vanishes, and there are rows of zeros. *)
SpoiltBy(fmt, b) == EpsilonVanishes(fmt) /\ SequenceLen(b) > MaxLength + b.gh * b.gw

LEMMA SequenceLenParts ==
  ASSUME NEW b, BatchFits(b)
  PROVE  /\ b.gh * b.gw \in Nat \ {0}
         /\ SequenceLen(b) \in Nat
         /\ \E pad \in Nat : pad = SequenceLen(b) - (MaxLength + b.gh * b.gw)
<1>1. PICK gh \in Nat \ {0}, gw \in Nat \ {0} : gh = b.gh /\ gw = b.gw
  BY DEF BatchFits
<1>2. gh * gw \in Nat \ {0}
  OBVIOUS
<1>3. PICK n \in Nat : n = MaxLength + b.gh * b.gw
  BY <1>1, <1>2, ConditionerAssumption
<1>4. PICK s \in Nat : s = SequenceLen(b) /\ s >= n
  BY <1>3, RoundUpParts, DenoiserAssumption DEF SequenceLen
<1>5. s - n \in Nat
  BY <1>4
<1>6. QED
  BY <1>1, <1>2, <1>3, <1>4, <1>5

LEMMA ImageRows ==
  ASSUME NEW k \in Nat
  PROVE  /\ Row({ImageSource(k)}) \in TokenRow
         /\ Row({ImageSource(k)}).src = {ImageSource(k)}
         /\ ~Row({ImageSource(k)}).bad
<1>1. {ImageSource(k)} \in SUBSET Nat
  BY PromptShape DEF ImageSource
<1>2. QED
  BY <1>1, RowParts, Zenon

(* The mask: the text's, ones for the image, zeros for the padding. *)
MaskOf(textMask, img, pad) == textMask \o [k \in 1 .. img |-> 1] \o [k \in 1 .. pad |-> 0]

StartsWith(s, n, f) == SubSeq(s, 1, n) = f

LEMMA Prefix ==
  ASSUME NEW S, NEW a \in Nat, NEW b \in Nat, NEW f \in [1 .. a -> S], NEW g \in [1 .. b -> S]
  PROVE  StartsWith(f \o g, a, f)
<1> DEFINE s == f \o g
<1>1. IsConcat(S, a, b, f, g, s)
  BY TwoParts
<1> HIDE DEF s
<1>2. s \in [1 .. a + b -> S] /\ \A i \in 1 .. a : s[i] = f[i]
  BY <1>1 DEF IsConcat
<1>3. f \in Seq(S) /\ Len(f) = a
  BY FunctionIsSeq
<1>4. \A i \in 1 .. a : s[i] \in S
  BY <1>2
<1>5. /\ SubSeq(s, 1, a) \in Seq(S)
      /\ Len(SubSeq(s, 1, a)) = a
      /\ \A i \in 1 .. a : SubSeq(s, 1, a)[i] = s[i]
  BY <1>4, SubSeqProperties
<1>6. SubSeq(s, 1, a) = f
  BY <1>2, <1>3, <1>5, SeqEqual
<1>7. QED
  BY <1>6 DEF StartsWith, s

IsMask(txt, img, pad, textMask, mask) ==
  /\ mask \in [1 .. txt + img + pad -> {0, 1}]
  /\ \A i \in 1 .. txt : mask[i] = textMask[i]
  /\ \A i \in 1 .. img : mask[txt + i] = 1
  /\ \A i \in 1 .. pad : mask[txt + img + i] = 0

LEMMA MaskParts ==
  ASSUME NEW txt \in Nat, NEW img \in Nat, NEW pad \in Nat, NEW textMask \in [1 .. txt -> {0, 1}]
  PROVE  IsMask(txt, img, pad, textMask, MaskOf(textMask, img, pad))
<1> DEFINE ones == [k \in 1 .. img |-> 1]
           zeros == [k \in 1 .. pad |-> 0]
           mask == MaskOf(textMask, img, pad)
<1>1. /\ ones \in [1 .. img -> {0, 1}] /\ zeros \in [1 .. pad -> {0, 1}]
      /\ \A i \in 1 .. img : ones[i] = 1
      /\ \A i \in 1 .. pad : zeros[i] = 0
  OBVIOUS
<1>2. mask = textMask \o ones \o zeros
  BY Zenon DEF MaskOf
<1> HIDE DEF ones, zeros, mask
<1>3. /\ mask \in [1 .. txt + img + pad -> {0, 1}]
      /\ \A i \in 1 .. txt : mask[i] = textMask[i]
      /\ \A i \in 1 .. img : mask[txt + i] = ones[i]
      /\ \A i \in 1 .. pad : mask[txt + img + i] = zeros[i]
  <2>1. IsConcat3({0, 1}, txt, img, pad, textMask, ones, zeros, textMask \o ones \o zeros)
    BY <1>1, ThreeParts
  <2>2. QED
    BY <1>2, <2>1, Zenon DEF IsConcat3
<1>4. QED
  BY <1>1, <1>3, Zenon DEF mask, IsMask

(* What valid rows depend on, by the part of the sequence they are in. *)
ValidAre(txt, img, textMask, mask) ==
  Valid(mask) = Valid(textMask) \cup {txt + k : k \in 1 .. img}

LEMMA ValidParts ==
  ASSUME NEW txt \in Nat, NEW img \in Nat, NEW pad \in Nat,
         NEW textMask \in [1 .. txt -> {0, 1}], NEW mask,
         IsMask(txt, img, pad, textMask, mask)
  PROVE  ValidAre(txt, img, textMask, mask)
<1>0. /\ mask \in [1 .. txt + img + pad -> {0, 1}]
      /\ \A i \in 1 .. txt : mask[i] = textMask[i]
      /\ \A i \in 1 .. img : mask[txt + i] = 1
      /\ \A i \in 1 .. pad : mask[txt + img + i] = 0
  BY Zenon DEF IsMask
<1>1. /\ 1 .. txt \subseteq 1 .. txt + img + pad
      /\ \A k \in 1 .. img : txt + k \in 1 .. txt + img + pad
  OBVIOUS
<1>2. /\ Valid(mask) = {k \in 1 .. txt + img + pad : mask[k] = 1}
      /\ Valid(textMask) = {k \in 1 .. txt : textMask[k] = 1}
  BY <1>0, Zenon DEF Valid
<1>3. ASSUME NEW q \in 1 .. txt + img + pad, mask[q] = 1
      PROVE  (q \in 1 .. txt /\ textMask[q] = 1) \/ \E k \in 1 .. img : q = txt + k
  <2>1. CASE q \in 1 .. txt
    BY <1>0, <1>3, <2>1, Zenon
  <2>2. CASE \E k \in 1 .. img : q = txt + k
    BY <2>2, Zenon
  <2>3. ~\E k \in 1 .. pad : q = txt + img + k
    <3>1. SUFFICES ASSUME NEW k \in 1 .. pad, q = txt + img + k
                   PROVE  FALSE
      BY Zenon
    <3>2. mask[q] = 0
      BY <1>0, <3>1, Zenon
    <3>3. QED
      BY <1>3, <3>2
  <2>4. \/ q \in 1 .. txt
        \/ \E k \in 1 .. img : q = txt + k
        \/ \E k \in 1 .. pad : q = txt + img + k
    BY WhichPart
  <2>5. QED
    BY <2>1, <2>2, <2>3, <2>4, Zenon
<1>4. ASSUME NEW q \in Valid(textMask)
      PROVE  q \in Valid(mask)
  <2>1. q \in 1 .. txt /\ textMask[q] = 1
    BY <1>2, Zenon
  <2>2. mask[q] = 1 /\ q \in 1 .. txt + img + pad
    BY <1>0, <1>1, <2>1, Zenon
  <2>3. QED
    BY <1>2, <2>2, Zenon
<1>5. ASSUME NEW k \in 1 .. img
      PROVE  txt + k \in Valid(mask)
  <2>1. txt + k \in 1 .. txt + img + pad /\ mask[txt + k] = 1
    BY <1>0, <1>1, Zenon
  <2>2. QED
    BY <1>2, <2>1, Zenon
<1>6. ASSUME NEW q \in Valid(mask)
      PROVE  q \in Valid(textMask) \/ \E k \in 1 .. img : q = txt + k
  <2>1. q \in 1 .. txt + img + pad /\ mask[q] = 1
    BY <1>2, Zenon
  <2>2. QED
    BY <1>2, <1>3, <2>1, Zenon

<1>7. Valid(mask) = Valid(textMask) \cup {txt + k : k \in 1 .. img}
  BY <1>4, <1>5, <1>6, Zenon
<1>8. QED
  BY <1>7, Zenon DEF ValidAre

(* The text, the image, the padding. *)
RowsOf(fused, img, pad) ==
  fused \o [k \in 1 .. img |-> Row({ImageSource(k)})] \o [k \in 1 .. pad |-> Row({})]

AreRows(fmt, txt, img, pad, fused, rows) ==
  /\ rows \in [1 .. txt + img + pad -> TokenRow]
  /\ \A i \in 1 .. txt : rows[i] = fused[i]
  /\ \A i \in 1 .. img : rows[txt + i] = Row({ImageSource(i)})
  /\ Sound(rows)
  /\ Survives(fmt, rows) <=> ~(EpsilonVanishes(fmt) /\ pad > 0)

LEMMA RowsParts ==
  ASSUME NEW fmt, NEW txt \in Nat, NEW img \in Nat, NEW pad \in Nat,
         NEW fused \in [1 .. txt -> TokenRow], Survives(fmt, fused)
  PROVE  AreRows(fmt, txt, img, pad, fused, RowsOf(fused, img, pad))
<1> DEFINE image == [k \in 1 .. img |-> Row({ImageSource(k)})]
           empty == [k \in 1 .. pad |-> Row({})]
           rows == RowsOf(fused, img, pad)
<1>1. /\ image \in [1 .. img -> TokenRow] /\ empty \in [1 .. pad -> TokenRow]
      /\ \A i \in 1 .. img : /\ image[i] = Row({ImageSource(i)}) /\ ~image[i].bad
                             /\ image[i].src # {}
      /\ \A i \in 1 .. pad : ~empty[i].bad /\ empty[i].src = {}
  <2>1. \A k \in 1 .. img : /\ Row({ImageSource(k)}) \in TokenRow
                            /\ ~Row({ImageSource(k)}).bad
                            /\ Row({ImageSource(k)}).src # {}
    <3>1. ASSUME NEW k \in 1 .. img
          PROVE  /\ Row({ImageSource(k)}) \in TokenRow
                 /\ ~Row({ImageSource(k)}).bad
                 /\ Row({ImageSource(k)}).src = {ImageSource(k)}
      <4>1. k \in Nat
        OBVIOUS
      <4>2. QED
        BY <4>1, ImageRows, Zenon
    <3>2. \A x : {x} # {}
      OBVIOUS
    <3>3. QED
      BY <3>1, <3>2, Zenon
  <2>2. Row({}) \in TokenRow /\ ~Row({}).bad /\ Row({}).src = {}
    BY RowParts
  <2>3. QED
    BY <2>1, <2>2, Zenon
<1>2. rows = fused \o image \o empty
  BY Zenon DEF RowsOf
<1> HIDE DEF image, empty, rows
<1>3. /\ rows \in [1 .. txt + img + pad -> TokenRow]
      /\ \A i \in 1 .. txt : rows[i] = fused[i]
      /\ \A i \in 1 .. img : rows[txt + i] = image[i]
      /\ \A i \in 1 .. pad : rows[txt + img + i] = empty[i]
  <2>1. IsConcat3(TokenRow, txt, img, pad, fused, image, empty, fused \o image \o empty)
    BY <1>1, ThreeParts
  <2>2. QED
    BY <1>2, <2>1, Zenon DEF IsConcat3
<1> DEFINE Void(row) == row.src = {} /\ EpsilonVanishes(fmt)
<1>4. ASSUME NEW q \in 1 .. txt + img + pad
      PROVE  ~rows[q].bad /\ (Void(rows[q]) => EpsilonVanishes(fmt) /\ pad > 0)
  <2>1. CASE q \in 1 .. txt
    BY <1>3, <2>1, Zenon DEF Survives
  <2>2. CASE \E k \in 1 .. img : q = txt + k
    <3>1. PICK k \in 1 .. img : rows[q] = image[k]
      BY <1>3, <2>2, Zenon
    <3>2. ~image[k].bad /\ image[k].src # {}
      BY <1>1, Zenon
    <3>3. QED
      BY <3>1, <3>2, Zenon
  <2>3. CASE \E k \in 1 .. pad : q = txt + img + k
    <3>1. pad > 0
      BY <2>3
    <3>2. PICK k \in 1 .. pad : rows[q] = empty[k]
      BY <1>3, <2>3, Zenon
    <3>3. ~empty[k].bad
      BY <1>1, Zenon
    <3>4. QED
      BY <3>1, <3>2, <3>3, Zenon
  <2>4. QED
    BY <2>1, <2>2, <2>3, WhichPart
<1>5. Sound(rows)
  BY <1>3, <1>4, Zenon DEF Sound
<1>6. ASSUME EpsilonVanishes(fmt), pad > 0
      PROVE  ~Survives(fmt, rows)
  <2>1. 1 \in 1 .. pad /\ txt + img + 1 \in 1 .. txt + img + pad
    BY <1>6
  <2>2. rows[txt + img + 1].src = {}
    BY <1>1, <1>3, <2>1, Zenon
  <2>3. QED
    BY <1>3, <1>6, <2>1, <2>2, Zenon DEF Survives
<1>7. ~(EpsilonVanishes(fmt) /\ pad > 0) => Survives(fmt, rows)
  BY <1>3, <1>4, Zenon DEF Survives
<1>8. QED
  BY <1>1, <1>3, <1>5, <1>6, <1>7, Zenon DEF rows, AreRows

(* prepare_trunk, part by part. *)
TrunkIs(p, fmt, text, gh, gw, img, pad) ==
  /\ p.txtLen = MaxLength /\ p.imgLen = img
  /\ p.mask = MaskOf(text.mask, img, pad)
  /\ p.bias = AdditiveMask(p.mask)
  /\ p.rows = RowsOf(TextFusion(fmt, text.stack, AdditiveMask(text.mask)), img, pad)
  /\ p.pos = Krea2Positions(MaxLength, gh, gw) \o [k \in 1 .. pad |-> <<0, 0, 0>>]

LEMMA TrunkParts ==
  ASSUME NEW fmt \in Formats, NEW text, EncodedFits(text),
         NEW gh \in Nat \ {0}, NEW gw \in Nat \ {0}, NEW img, img = gh * gw,
         NEW pad \in Nat, pad = RoundUp(MaxLength + img, SequencePad) - (MaxLength + img)
  PROVE  TrunkIs(PrepareTrunk(fmt, Batch(text, gh, gw)), fmt, text, gh, gw, img, pad)
<1> DEFINE b == Batch(text, gh, gw)
           p == PrepareTrunk(fmt, b)
           image == [k \in 1 .. img |-> Row({ImageSource(k)})]
           ones == [k \in 1 .. img |-> 1]
<1>1. /\ b.text = text /\ b.gh = gh /\ b.gw = gw /\ b.context = text.stack
      /\ b.img = image /\ b.mask = text.mask \o ones
  BY Zenon DEF Batch
<1>2. img \in Nat
  OBVIOUS
<1>3. text.stack \in [1 .. MaxLength -> [1 .. Len(SelectLayers) -> TokenRow]]
      /\ text.mask \in [1 .. MaxLength -> {0, 1}] /\ MaxLength \in Nat
  BY ConditionerAssumption, Zenon DEF EncodedFits
<1>4. Len(b.context) = MaxLength /\ Len(b.img) = img
  <2>1. Len(text.stack) = MaxLength
    BY <1>3, FunctionIsSeq
  <2>2. Len(image) = img
    BY <1>2
  <2>3. QED
    BY <1>1, <2>1, <2>2, Zenon
<1>5. SubSeq(b.mask, 1, MaxLength) = text.mask
  <2>1. ones \in [1 .. img -> {0, 1}]
    OBVIOUS
  <2> HIDE DEF ones
  <2>2. StartsWith(text.mask \o ones, MaxLength, text.mask)
    BY <1>2, <1>3, <2>1, Prefix
  <2>3. QED
    BY <1>1, <2>2, Zenon DEF StartsWith
<1>6. [k \in 1 .. img |-> b.img[k]] = image
  BY <1>1, Zenon
<1> HIDE DEF b
<1>7. /\ p.txtLen = MaxLength /\ p.imgLen = img
      /\ p.mask = b.mask \o [k \in 1 .. pad |-> 0]
      /\ p.bias = AdditiveMask(p.mask)
      /\ p.rows = TextFusion(fmt, b.context, AdditiveMask(SubSeq(b.mask, 1, MaxLength)))
                    \o [k \in 1 .. img |-> b.img[k]] \o [k \in 1 .. pad |-> Row({})]
      /\ p.pos = Krea2Positions(MaxLength, b.gh, b.gw) \o [k \in 1 .. pad |-> <<0, 0, 0>>]
  BY <1>4, Zenon DEF PrepareTrunk
<1> HIDE DEF p
<1>8. p.mask = MaskOf(text.mask, img, pad)
  BY <1>1, <1>7, Zenon DEF MaskOf
<1>9. p.rows = RowsOf(TextFusion(fmt, text.stack, AdditiveMask(text.mask)), img, pad)
  BY <1>1, <1>5, <1>6, <1>7, Zenon DEF RowsOf
<1>10. p.pos = Krea2Positions(MaxLength, gh, gw) \o [k \in 1 .. pad |-> <<0, 0, 0>>]
  BY <1>1, <1>7, Zenon
<1>11. TrunkIs(p, fmt, text, gh, gw, img, pad)
  BY <1>7, <1>8, <1>9, <1>10, Zenon DEF TrunkIs
<1>12. QED
  BY <1>11 DEF p, b

-----------------------------------------------------------------------------
LEMMA BatchParts ==
  ASSUME NEW text, EncodedFits(text), NEW gh \in Nat \ {0}, NEW gw \in Nat \ {0}
  PROVE  LET b == Batch(text, gh, gw)
         IN b.text = text /\ b.gh = gh /\ b.gw = gw /\ BatchFits(b)
<1> DEFINE b == Batch(text, gh, gw)
<1>1. b.text = text /\ b.gh = gh /\ b.gw = gw
  BY Zenon DEF Batch
<1> HIDE DEF b
<1>2. BatchFits(b)
  BY <1>1, Zenon DEF BatchFits
<1>3. QED
  BY <1>1, <1>2 DEF b

(* Krea2Positions and then the origin. *)
LEMMA AtOrigin ==
  ASSUME NEW x \in Int, NEW y \in Int
  PROVE  <<0>> \o <<x, y>> = <<0, x, y>>
<1>1. <<0>> \in Seq(Int) /\ <<x, y>> \in Seq(Int) /\ <<0, x, y>> \in Seq(Int)
  OBVIOUS
<1>2. Len(<<0>>) = 1 /\ Len(<<x, y>>) = 2 /\ Len(<<0, x, y>>) = 3
  OBVIOUS
<1> DEFINE s == <<0>> \o <<x, y>>
<1>3. /\ s \in Seq(Int) /\ Len(s) = 3
      /\ \A i \in 1 .. 3 : s[i] = IF i <= 1 THEN <<0>>[i] ELSE <<x, y>>[i - 1]
  BY <1>1, <1>2, ConcatProperties
<1> HIDE DEF s
<1>4. s[1] = 0 /\ s[2] = x /\ s[3] = y
  BY <1>3
<1>5. \A i \in 1 .. 3 : s[i] = <<0, x, y>>[i]
  BY <1>4
<1>6. s = <<0, x, y>>
  BY <1>1, <1>2, <1>3, <1>5, SeqEqual
<1>7. QED
  BY <1>6 DEF s

LEMMA PositionsParts ==
  ASSUME NEW gh \in Nat \ {0}, NEW gw \in Nat \ {0}, NEW pad \in Nat, NEW k \in 1 .. gh * gw
  PROVE  (Krea2Positions(MaxLength, gh, gw) \o [i \in 1 .. pad |-> <<0, 0, 0>>])[MaxLength + k]
           = <<0>> \o Patchify(gh, gw)[k]
<1> DEFINE S == {<<0, 0, 0>>} \cup {Krea2Positions(MaxLength, gh, gw)[t] : t \in 1 .. MaxLength + gh * gw}
           f == Krea2Positions(MaxLength, gh, gw)
           g == [i \in 1 .. pad |-> <<0, 0, 0>>]
<1>0. MaxLength \in Nat /\ gh * gw \in Nat
  BY ConditionerAssumption
<1>1. PICK n \in Nat : n = MaxLength + gh * gw
  BY <1>0
<1>2. MaxLength + k \in 1 .. n /\ f[MaxLength + k] = <<0, (k - 1) \div gw, (k - 1) % gw>>
  <2>1. /\ MaxLength + k \in 1 .. MaxLength + gh * gw
        /\ Krea2Positions(MaxLength, gh, gw)[MaxLength + k] = <<0, (k - 1) \div gw, (k - 1) % gw>>
    <3> HIDE DEF f
    <3>1. QED
      BY <1>0, PositionsArePatches, ZenonT(60)
  <2>2. MaxLength + k \in 1 .. n
    BY <1>1, <2>1, Zenon
  <2>3. f[MaxLength + k] = <<0, (k - 1) \div gw, (k - 1) % gw>>
    BY <2>1, Zenon
  <2>4. QED
    BY <2>2, <2>3, Zenon
<1>3. f \in [1 .. n -> S] /\ g \in [1 .. pad -> S]
  <2>1. \A t \in 1 .. MaxLength + gh * gw : Krea2Positions(MaxLength, gh, gw)[t] \in S
    BY Zenon
  <2>2. Krea2Positions(MaxLength, gh, gw) \in [1 .. MaxLength + gh * gw -> S]
    <3> HIDE DEF S
    <3>1. QED
      BY <2>1, Zenon DEF Krea2Positions
  <2>3. g \in [1 .. pad -> S]
    BY Zenon
  <2>4. QED
    BY <1>1, <2>2, <2>3, Zenon
<1> HIDE DEF f, g, S
<1>4. IsConcat(S, n, pad, f, g, f \o g)
  BY <1>1, <1>3, TwoParts
<1>5. (f \o g)[MaxLength + k] = f[MaxLength + k]
  BY <1>2, <1>4, Zenon DEF IsConcat
<1>6. <<0>> \o Patchify(gh, gw)[k] = <<0, (k - 1) \div gw, (k - 1) % gw>>
  <2>1. Patchify(gh, gw)[k] = <<(k - 1) \div gw, (k - 1) % gw>>
    BY Zenon DEF Patchify
  <2>2. PICK x \in Int, y \in Int : x = (k - 1) \div gw /\ y = (k - 1) % gw
    <3>1. k - 1 \in Nat
      OBVIOUS
    <3>2. PICK r \in 0 .. gw - 1 : r = (k - 1) % gw /\ (k - 1) \div gw \in Nat
      BY <3>1, DivMod
    <3>3. QED
      BY <3>2
  <2>3. <<0>> \o <<x, y>> = <<0, x, y>>
    BY AtOrigin
  <2>4. QED
    BY <2>1, <2>2, <2>3, Zenon
<1>7. QED
  BY <1>2, <1>5, <1>6, Zenon DEF f, g

LEMMA TrunkPrepared ==
  ASSUME NEW fmt \in Formats, NEW text, EncodedFits(text),
         NEW gh \in Nat \ {0}, NEW gw \in Nat \ {0}
  PROVE  LET b == Batch(text, gh, gw)
             p == PrepareTrunk(fmt, b)
         IN TrunkFits(b, p) /\ (Survives(fmt, p.rows) <=> ~SpoiltBy(fmt, b))
<1> DEFINE b == Batch(text, gh, gw)
           p == PrepareTrunk(fmt, b)
           fused == TextFusion(fmt, text.stack, AdditiveMask(text.mask))
<1>1. b.text = text /\ b.gh = gh /\ b.gw = gw /\ BatchFits(b)
  BY BatchParts
<1>2. PICK img \in Nat \ {0} : img = gh * gw
  OBVIOUS
<1>3. PICK pad \in Nat : pad = SequenceLen(b) - (MaxLength + img)
  <2> HIDE DEF b
  <2>1. QED
    BY <1>1, <1>2, SequenceLenParts
<1>4. /\ SequenceLen(b) = RoundUp(MaxLength + img, SequencePad)
      /\ SequenceLen(b) \in Nat
  <2> HIDE DEF b
  <2>1. SequenceLen(b) \in Nat
    BY <1>1, SequenceLenParts
  <2>2. QED
    BY <1>1, <1>2, <2>1, Zenon DEF SequenceLen
<1>5. TrunkIs(p, fmt, text, gh, gw, img, pad)
  BY <1>2, <1>3, <1>4, TrunkParts
<1>6. /\ fused \in [1 .. MaxLength -> TokenRow]
      /\ \A k \in Valid(text.mask) : fused[k].src = text.live
      /\ Survives(fmt, fused)
  BY TextFusionParts
<1> HIDE DEF b, p
<1>5a. /\ p.txtLen = MaxLength /\ p.imgLen = img
       /\ p.mask = MaskOf(text.mask, img, pad)
       /\ p.bias = AdditiveMask(p.mask)
       /\ p.rows = RowsOf(fused, img, pad)
       /\ p.pos = Krea2Positions(MaxLength, gh, gw) \o [k \in 1 .. pad |-> <<0, 0, 0>>]
  BY <1>5, Zenon DEF TrunkIs
<1> HIDE DEF fused
<1>7. /\ text.live \in SUBSET Nat
      /\ text.mask \in [1 .. MaxLength -> {0, 1}] /\ text.mask[MaxLength] = 1
  BY Zenon DEF EncodedFits
<1>8. MaxLength \in 1 .. MaxLength /\ MaxLength \in Nat
  BY ConditionerAssumption
<1>9. MaxLength + img + pad = SequenceLen(b)
  BY <1>3, <1>4, <1>8
<1>10. IsMask(MaxLength, img, pad, text.mask, p.mask)
  <2>1. IsMask(MaxLength, img, pad, text.mask, MaskOf(text.mask, img, pad))
    BY <1>7, <1>8, MaskParts
  <2>2. QED
    BY <1>5a, <2>1, Zenon
<1>11. Valid(p.mask) = Valid(text.mask) \cup {MaxLength + k : k \in 1 .. img}
  <2>1. img \in Nat
    OBVIOUS
  <2>2. ValidAre(MaxLength, img, text.mask, p.mask)
    BY <1>7, <1>8, <1>10, <2>1, ValidParts
  <2>3. QED
    BY <2>2, Zenon DEF ValidAre
<1>12. /\ p.rows \in [1 .. SequenceLen(b) -> TokenRow]
       /\ \A i \in 1 .. MaxLength : p.rows[i] = fused[i]
       /\ \A i \in 1 .. img : p.rows[MaxLength + i] = Row({ImageSource(i)})
       /\ Sound(p.rows)
       /\ Survives(fmt, p.rows) <=> ~(EpsilonVanishes(fmt) /\ pad > 0)
  <2>1. AreRows(fmt, MaxLength, img, pad, fused, RowsOf(fused, img, pad))
    BY <1>6, <1>8, RowsParts
  <2>2. QED
    BY <1>5a, <1>9, <2>1, Zenon DEF AreRows
<1>13. 1 .. b.gh * b.gw = 1 .. img /\ Sources(b) = text.live \cup {ImageSource(k) : k \in 1 .. img}
  BY <1>1, <1>2, Zenon DEF Sources
<1>14. Valid(text.mask) \subseteq 1 .. MaxLength /\ MaxLength \in Valid(text.mask)
  BY <1>7, <1>8, Zenon DEF Valid
<1>15. \A k \in Valid(text.mask) : p.rows[k].src = text.live
  BY <1>6, <1>12, <1>14, Zenon
<1>16. \A k \in 1 .. img : p.rows[MaxLength + k].src = {ImageSource(k)}
  <2>1. ASSUME NEW k \in 1 .. img
        PROVE  p.rows[MaxLength + k].src = {ImageSource(k)}
    <3>1. k \in Nat
      OBVIOUS
    <3>2. Row({ImageSource(k)}).src = {ImageSource(k)}
      BY <3>1, ImageRows
    <3>3. QED
      BY <1>12, <3>2, Zenon
  <2>2. QED
    BY <2>1
<1>17. ASSUME NEW q \in Valid(p.mask)
       PROVE  p.rows[q].src \subseteq Sources(b)
  <2>1. CASE q \in Valid(text.mask)
    BY <1>13, <1>15, <2>1
  <2>2. CASE \E k \in 1 .. img : q = MaxLength + k
    <3>1. PICK k \in 1 .. img : q = MaxLength + k
      BY <2>2, Zenon
    <3>2. p.rows[q].src = {ImageSource(k)}
      BY <1>16, <3>1, Zenon
    <3>3. QED
      BY <1>13, <3>2
  <2>3. QED
    BY <1>11, <2>1, <2>2, Zenon
<1>18. ASSUME NEW x \in Sources(b)
       PROVE  \E q \in Valid(p.mask) : x \in p.rows[q].src
  <2>1. CASE x \in text.live
    BY <1>11, <1>14, <1>15, <2>1, Zenon
  <2>2. CASE \E k \in 1 .. img : x = ImageSource(k)
    <3>1. PICK k \in 1 .. img : x = ImageSource(k)
      BY <2>2, Zenon
    <3>2. x \in p.rows[MaxLength + k].src
      BY <1>16, <3>1, Zenon
    <3>3. MaxLength + k \in Valid(p.mask)
      BY <1>11, Zenon
    <3>4. QED
      BY <3>2, <3>3, Zenon
  <2>3. QED
    BY <1>13, <2>1, <2>2, Zenon
<1>19. Sources(b) \subseteq UNION {p.rows[q].src : q \in Valid(p.mask)}
  BY <1>18
<1>20. ASSUME NEW k \in 1 .. img
       PROVE  /\ MaxLength + k \in Valid(p.mask)
              /\ p.rows[MaxLength + k] = Row({ImageSource(k)})
              /\ p.pos[MaxLength + k] = <<0>> \o Patchify(b.gh, b.gw)[k]
  <2>1. MaxLength + k \in Valid(p.mask)
    BY <1>11, Zenon
  <2>2. k \in 1 .. gh * gw
    BY <1>2
  <2>3. p.pos[MaxLength + k] = <<0>> \o Patchify(gh, gw)[k]
    <3>1. (Krea2Positions(MaxLength, gh, gw) \o [i \in 1 .. pad |-> <<0, 0, 0>>])[MaxLength + k]
            = <<0>> \o Patchify(gh, gw)[k]
      BY <2>2, PositionsParts
    <3>2. QED
      BY <1>5a, <3>1, Zenon
  <2>4. QED
    BY <1>1, <1>12, <2>1, <2>3, Zenon
<1>21. p.mask \in [1 .. SequenceLen(b) -> {0, 1}]
  BY <1>9, <1>10, Zenon DEF IsMask
<1>22. TrunkFits(b, p)
  BY <1>1, <1>2, <1>5a, <1>6, <1>12, <1>13, <1>17, <1>19, <1>20, <1>21, Zenon DEF TrunkFits
<1>23. Survives(fmt, p.rows) <=> ~SpoiltBy(fmt, b)
  <2>1. pad > 0 <=> SequenceLen(b) > MaxLength + img
    BY <1>3, <1>4, <1>8
  <2>2. QED
    BY <1>1, <1>2, <1>12, <2>1, Zenon DEF SpoiltBy
<1>24. QED
  BY <1>22, <1>23 DEF b, p

-----------------------------------------------------------------------------
(* The invariant of the forward *)

(* What the rows of a stream depend on, and whether they survive a block. *)
StreamFits(fmt, b, p, rows) ==
  /\ rows \in [1 .. SequenceLen(b) -> TokenRow]
  /\ \A q \in Valid(p.mask) : rows[q].src \subseteq Sources(b)
  /\ Sources(b) \subseteq UNION {rows[q].src : q \in Valid(p.mask)}
  /\ Survives(fmt, rows) <=> ~SpoiltBy(fmt, b)

(* After a block, every valid row depends on all that is valid, and a zero  *)
(* row whose norm was a NaN has made one of every row.                      *)
Mixed(fmt, b, p, rows) ==
  /\ \A q \in Valid(p.mask) : rows[q].src = Sources(b)
  /\ \A q \in DOMAIN rows : rows[q].bad <=> SpoiltBy(fmt, b)

PredictionFits(fmt, b, p, prediction) ==
  \E img \in Nat \ {0} :
    /\ img = b.gh * b.gw
    /\ DOMAIN prediction = 1 .. img
    /\ \A k \in 1 .. img :
         /\ prediction[k].token = MaxLength + k
         /\ prediction[k].row.src = Sources(b)
         /\ prediction[k].row.bad <=> SpoiltBy(fmt, b)

Unpredicted == {"start", "batch", "trunk", "refused", "done"}

RowsInv ==
  /\ format \in Formats
  /\ pc = "trunk" => block \in Nat
  /\ InForward => /\ BatchFits(batch)
                  /\ TrunkFits(batch, pre)
                  /\ StreamFits(format, batch, pre, stream.rows)
                  /\ ~FirstBlockRan => Sound(stream.rows)
                  /\ FirstBlockRan => Mixed(format, batch, pre, stream.rows)
  /\ pc \in Unpredicted => pred = <<>>
  /\ pred # <<>> => /\ BatchFits(batch)
                    /\ TrunkFits(batch, pre)
                    /\ PredictionFits(format, batch, pre, pred)

LEMMA RowsInvInit == Init => RowsInv
BY Zenon DEF Init, RowsInv, Formats, InForward, Unpredicted

LEMMA RowsKept ==
  ASSUME RowsInv, UNCHANGED <<format, batch, pre, stream, pred>>,
         pc' \in {"trunk", "sweep"} => pc \in {"trunk", "sweep"},
         pc' = "trunk" => pc = "trunk" /\ block' = block,
         pc' = "sweep" => pc = "sweep",
         pc' \in Unpredicted => pc \in Unpredicted
  PROVE  RowsInv'
BY Zenon DEF RowsInv, InForward, FirstBlockRan

LEMMA StartKeepsRows == RowsInv /\ Start => RowsInv'
<1> SUFFICES ASSUME RowsInv, Start
             PROVE  RowsInv'
  OBVIOUS
<1>1. UNCHANGED <<format, batch, pre, stream, pred>> /\ pc = "start"
      /\ pc' \in {"refused", "batch"}
  BY DEF Start, config, forward
<1>2. pc \in Unpredicted /\ pc' # "trunk" /\ pc' # "sweep"
  BY <1>1 DEF Unpredicted
<1>3. QED
  BY <1>1, <1>2, RowsKept, Zenon

LEMMA LoadBatchFits == RowsInv /\ LoadBatch => RowsInv'
<1> SUFFICES ASSUME RowsInv, LoadBatch
             PROVE  RowsInv'
  OBVIOUS
<1>1. PICK caption \in Captions, grid \in Grids :
        /\ batch' = Batch(Encoded[caption], grid[1], grid[2])
        /\ pre' = PrepareTrunk(format, batch')
        /\ stream' = [rows |-> pre'.rows, via |-> {}]
  BY Zenon DEF LoadBatch
<1>2. pc = "batch" /\ pc' = "trunk" /\ format' = format /\ pred' = pred /\ block' = 0
  BY DEF LoadBatch, config
<1>3. PICK gh \in Nat \ {0}, gw \in Nat \ {0} : gh = grid[1] /\ gw = grid[2]
  BY DataAssumption
<1>4. PICK text : text = EncodeCaption(caption) /\ EncodedFits(text)
  <2>1. caption \in Nat
    BY DataAssumption
  <2>2. QED
    BY <2>1, CaptionEncoded, Zenon
<1>5. batch' = Batch(text, gh, gw)
  BY <1>1, <1>3, <1>4, Zenon DEF Encoded
<1>6. PICK b : b = batch'
  BY Zenon
<1>7. PICK p : p = pre' /\ p = PrepareTrunk(format, b)
  BY <1>1, <1>6, Zenon
<1>8. format \in Formats
  BY DEF RowsInv
<1>9. BatchFits(b)
  BY <1>3, <1>4, <1>5, <1>6, BatchParts
<1>10. TrunkFits(b, p) /\ (Survives(format, p.rows) <=> ~SpoiltBy(format, b))
  <2>1. PICK fmt \in Formats : fmt = format
    BY <1>8, Zenon
  <2>2. /\ TrunkFits(Batch(text, gh, gw), PrepareTrunk(fmt, Batch(text, gh, gw)))
        /\ Survives(fmt, PrepareTrunk(fmt, Batch(text, gh, gw)).rows)
             <=> ~SpoiltBy(fmt, Batch(text, gh, gw))
    BY <1>4, TrunkPrepared
  <2>3. QED
    BY <1>5, <1>6, <1>7, <2>1, <2>2, Zenon
<1>11. stream'.rows = p.rows
  BY <1>1, <1>7, Zenon
<1>12. StreamFits(format, b, p, p.rows) /\ Sound(p.rows)
  BY <1>10, Zenon DEF TrunkFits, StreamFits
<1>13. /\ BatchFits(batch)' /\ TrunkFits(batch, pre)'
       /\ StreamFits(format, batch, pre, stream.rows)' /\ Sound(stream.rows)'
  <2>1. /\ BatchFits(batch') /\ TrunkFits(batch', pre')
        /\ StreamFits(format', batch', pre', stream'.rows) /\ Sound(stream'.rows)
    BY <1>2, <1>6, <1>7, <1>9, <1>10, <1>11, <1>12, Zenon
  <2>2. QED
    BY <2>1, Zenon DEF BatchFits, TrunkFits, StreamFits, SequenceLen, Sources, Sound, Survives,
                       SpoiltBy, EpsilonVanishes
<1>14. pred = <<>>
  BY <1>2 DEF RowsInv, Unpredicted
<1>15. ~FirstBlockRan' /\ block' \in Nat
  BY <1>2 DEF FirstBlockRan
<1>16. QED
  BY <1>2, <1>8, <1>13, <1>14, <1>15, Zenon DEF RowsInv

(* One block more. *)
LEMMA BlockFits ==
  ASSUME NEW fmt \in Formats, NEW b, NEW p, BatchFits(b), TrunkFits(b, p),
         NEW rows, StreamFits(fmt, b, p, rows)
  PROVE  LET after == PreNormBlock(fmt, rows, p.bias)
         IN StreamFits(fmt, b, p, after) /\ Mixed(fmt, b, p, after)
<1> DEFINE after == PreNormBlock(fmt, rows, p.bias)
           D == 1 .. SequenceLen(b)
<1>1. /\ p.mask \in [D -> {0, 1}] /\ p.bias = AdditiveMask(p.mask)
      /\ rows \in [D -> TokenRow]
      /\ Survives(fmt, rows) <=> ~SpoiltBy(fmt, b)
  BY Zenon DEF TrunkFits, StreamFits
<1>2. UNION {rows[k].src : k \in Valid(p.mask)} = Sources(b)
  BY Zenon DEF StreamFits
<1>3. /\ after \in [D -> TokenRow]
      /\ \A q \in Valid(p.mask) : after[q].src = Sources(b)
      /\ \A q \in D : after[q].bad <=> ~Survives(fmt, rows)
      /\ Survives(fmt, rows) => Survives(fmt, after)
      /\ D # {} /\ Survives(fmt, after) => Survives(fmt, rows)
  <2>1. PICK mask : mask = p.mask /\ mask \in [D -> {0, 1}]
    BY <1>1, Zenon
  <2> HIDE DEF D
  <2>2. MixesValid(fmt, D, mask, rows, PreNormBlock(fmt, rows, AdditiveMask(mask)))
    BY <1>1, <2>1, MaskedBlock
  <2>3. MixesValid(fmt, D, p.mask, rows, after)
    BY <1>1, <2>1, <2>2, Zenon
  <2>4. QED
    BY <1>1, <1>2, <2>3, Zenon DEF MixesValid
<1> HIDE DEF after
<1>4. Valid(p.mask) # {}
  <2>1. PICK k \in 1 .. b.gh * b.gw : TRUE
    BY SequenceLenParts
  <2>2. QED
    BY <2>1, Zenon DEF TrunkFits
<1>5. Sources(b) \subseteq UNION {after[q].src : q \in Valid(p.mask)}
  BY <1>3, <1>4, Zenon
<1>5a. D # {}
  BY <1>1, <1>4, Zenon DEF Valid
<1>5b. /\ Survives(fmt, after) <=> ~SpoiltBy(fmt, b)
       /\ \A q \in D : after[q].bad <=> SpoiltBy(fmt, b)
  BY <1>1, <1>3, <1>5a, Zenon
<1>6. StreamFits(fmt, b, p, after) /\ Mixed(fmt, b, p, after)
  BY <1>3, <1>5, <1>5b, Zenon DEF StreamFits, Mixed
<1>7. QED
  BY <1>6 DEF after

LEMMA ForwardBlockFits == RowsInv /\ ForwardBlock => RowsInv'
<1> SUFFICES ASSUME RowsInv, ForwardBlock
             PROVE  RowsInv'
  OBVIOUS
<1>1. /\ UNCHANGED <<format, batch, pre, pred, pc>> /\ pc = "trunk" /\ block' = block + 1
      /\ stream' = RunBlock(stream, block, adapters, dropout /\ ~checkpointed)
  BY Zenon DEF ForwardBlock, config
<1>2. stream'.rows = PreNormBlock(format, stream.rows, pre.bias)
  BY <1>1, Zenon DEF RunBlock
<1>3. BatchFits(batch) /\ TrunkFits(batch, pre) /\ StreamFits(format, batch, pre, stream.rows) /\ format \in Formats
  BY <1>1 DEF RowsInv, InForward
<1>4. StreamFits(format, batch, pre, stream'.rows) /\ Mixed(format, batch, pre, stream'.rows)
  BY <1>2, <1>3, BlockFits, Zenon
<1>5. StreamFits(format, batch, pre, stream.rows)' /\ Mixed(format, batch, pre, stream.rows)'
  <2>1. StreamFits(format', batch', pre', stream'.rows) /\ Mixed(format', batch', pre', stream'.rows)
    BY <1>1, <1>4, Zenon
  <2>2. QED
    BY <2>1, Zenon DEF StreamFits, Mixed, SequenceLen, Sources, Survives, SpoiltBy, EpsilonVanishes
<1>6. BatchFits(batch)' /\ TrunkFits(batch, pre)'
  BY <1>1, <1>3, ZenonT(60) DEF BatchFits, TrunkFits, SequenceLen, Sources
<1>7. pred' = <<>> /\ format' \in Formats
  BY <1>1 DEF RowsInv, Unpredicted
<1>8. FirstBlockRan' /\ block' \in Nat
  <2>1. block \in Nat
    BY <1>1 DEF RowsInv
  <2>2. QED
    BY <1>1, <2>1 DEF FirstBlockRan
<1>9. QED
  BY <1>5, <1>6, <1>7, <1>8, Zenon DEF RowsInv

-----------------------------------------------------------------------------
(* The prediction *)

LEMMA PredictionIs ==
  ASSUME NEW fmt \in Formats, NEW b, NEW p, BatchFits(b), TrunkFits(b, p),
         NEW rows, StreamFits(fmt, b, p, rows), Mixed(fmt, b, p, rows)
  PROVE  PredictionFits(fmt, b, p, LastLayer(fmt, rows, p.txtLen, p.imgLen))
<1> DEFINE made == LastLayer(fmt, rows, p.txtLen, p.imgLen)
<1>1. PICK img \in Nat \ {0} : img = b.gh * b.gw
  BY SequenceLenParts
<1>2. p.txtLen = MaxLength /\ p.imgLen = img
  BY <1>1, Zenon DEF TrunkFits
<1>3. made = [k \in 1 .. img |-> [token |-> MaxLength + k, row |-> ZRmsNorm(fmt, rows[MaxLength + k])]]
  BY <1>2, Zenon DEF LastLayer
<1> HIDE DEF made
<1>4. ASSUME NEW k \in 1 .. img
      PROVE  /\ made[k].token = MaxLength + k
             /\ made[k].row.src = Sources(b)
             /\ made[k].row.bad <=> SpoiltBy(fmt, b)
  <2>1. made[k].token = MaxLength + k /\ made[k].row = ZRmsNorm(fmt, rows[MaxLength + k])
    BY <1>3, Zenon
  <2>2. MaxLength + k \in Valid(p.mask)
    BY <1>1, Zenon DEF TrunkFits
  <2>3. MaxLength + k \in 1 .. SequenceLen(b)
    BY <2>2, Zenon DEF TrunkFits, Valid
  <2>4. PICK row \in TokenRow : row = rows[MaxLength + k]
    BY <2>3, Zenon DEF StreamFits
  <2>5. row.src = Sources(b)
    BY <2>2, <2>4, Zenon DEF Mixed
  <2>6. row.bad <=> SpoiltBy(fmt, b)
    BY <2>3, <2>4, Zenon DEF StreamFits, Mixed
  <2>7. Sources(b) # {}
    BY <1>1 DEF Sources
  <2>8. /\ ZRmsNorm(fmt, row).src = row.src
        /\ ZRmsNorm(fmt, row).bad <=> row.bad \/ (row.src = {} /\ EpsilonVanishes(fmt))
    BY NormParts
  <2>9. QED
    BY <2>1, <2>4, <2>5, <2>6, <2>7, <2>8, Zenon
<1>5. DOMAIN made = 1 .. img
  BY <1>3, Zenon
<1>6. PredictionFits(fmt, b, p, made)
  BY <1>1, <1>4, <1>5, Zenon DEF PredictionFits
<1>7. QED
  BY <1>6 DEF made

LEMMA PredictFits == RowsInv /\ (LossAndBackward \/ HeadGraph) => RowsInv'
<1> SUFFICES ASSUME RowsInv, LossAndBackward \/ HeadGraph
             PROVE  RowsInv'
  OBVIOUS
<1>1. /\ UNCHANGED <<format, batch, pre, stream>>
      /\ pc = "trunk" /\ block = Layers
      /\ pc' \in {"update", "failed", "sweep"}
      /\ pred' = LastLayer(format, stream.rows, pre.txtLen, pre.imgLen)
  BY DEF LossAndBackward, HeadGraph, Predict, config, forward
<1>2. FirstBlockRan /\ (pc' = "sweep" => FirstBlockRan')
  BY <1>1, DenoiserAssumption DEF FirstBlockRan
<1>3. /\ BatchFits(batch) /\ TrunkFits(batch, pre) /\ StreamFits(format, batch, pre, stream.rows)
      /\ Mixed(format, batch, pre, stream.rows) /\ format \in Formats
  BY <1>1, <1>2, Zenon DEF RowsInv, InForward
<1>4. PredictionFits(format, batch, pre, pred')
  <2>1. PredictionFits(format, batch, pre, LastLayer(format, stream.rows, pre.txtLen, pre.imgLen))
    BY <1>3, PredictionIs, Zenon
  <2>2. QED
    BY <1>1, <2>1, Zenon
<1>5. /\ PredictionFits(format, batch, pre, pred)' /\ BatchFits(batch)' /\ TrunkFits(batch, pre)'
      /\ StreamFits(format, batch, pre, stream.rows)' /\ Mixed(format, batch, pre, stream.rows)'
      /\ format' \in Formats
  <2>1. /\ PredictionFits(format', batch', pre', pred') /\ BatchFits(batch') /\ TrunkFits(batch', pre')
        /\ StreamFits(format', batch', pre', stream'.rows) /\ Mixed(format', batch', pre', stream'.rows)
        /\ format' \in Formats
    BY <1>1, <1>3, <1>4, Zenon
  <2>2. QED
    BY <2>1, ZenonT(60) DEF PredictionFits, BatchFits, TrunkFits, StreamFits, Mixed, SequenceLen,
                            Sources, Survives, SpoiltBy, EpsilonVanishes
<1>6. pc' # "trunk" /\ pc' \notin Unpredicted
  BY <1>1 DEF Unpredicted
<1>7. QED
  BY <1>1, <1>2, <1>5, <1>6, Zenon DEF RowsInv, InForward

(* The rest of a step *)

LEMMA SweepKeepsRows == RowsInv /\ (ReplayBlock \/ CheckLoss) => RowsInv'
<1> SUFFICES ASSUME RowsInv, ReplayBlock \/ CheckLoss
             PROVE  RowsInv'
  OBVIOUS
<1>1. /\ UNCHANGED <<format, batch, pre, stream, pred>>
      /\ pc = "sweep"
      /\ pc' \in {"sweep", "panicked", "update", "failed"}
  <2>1. CASE ReplayBlock
    BY <2>1, Zenon DEF ReplayBlock, config, forward
  <2>2. CASE CheckLoss
    BY <2>2 DEF CheckLoss, config, forward
  <2>3. QED
    BY <2>1, <2>2
<1>2. pc \in {"trunk", "sweep"} /\ pc' # "trunk" /\ pc' \notin Unpredicted
  BY <1>1 DEF Unpredicted
<1>3. QED
  BY <1>1, <1>2, RowsKept, Zenon

LEMMA EndClearsRows == RowsInv /\ (Update \/ SkipUpdate) => RowsInv'
<1> SUFFICES ASSUME RowsInv, Update \/ SkipUpdate
             PROVE  RowsInv'
  OBVIOUS
<1>1. format' = format /\ pc' = "batch" /\ pred' = <<>>
  BY DEF Update, SkipUpdate, EndStep, config
<1>2. QED
  BY <1>1, Zenon DEF RowsInv, InForward

LEMMA FinishKeepsRows == RowsInv /\ Finish => RowsInv'
<1> SUFFICES ASSUME RowsInv, Finish
             PROVE  RowsInv'
  OBVIOUS
<1>1. UNCHANGED <<format, batch, pre, stream, pred>> /\ pc = "batch" /\ pc' = "done"
  BY DEF Finish, config, forward
<1>2. pc \in Unpredicted /\ pc' # "trunk" /\ pc' # "sweep"
  BY <1>1 DEF Unpredicted
<1>3. QED
  BY <1>1, <1>2, RowsKept, Zenon

LEMMA RowsStep == RowsInv /\ [Next]_vars => RowsInv'
<1> SUFFICES ASSUME RowsInv, [Next]_vars
             PROVE  RowsInv'
  OBVIOUS
<1>1. CASE UNCHANGED vars
  <2>1. UNCHANGED <<format, batch, pre, stream, pred, pc, block>>
    BY <1>1 DEF vars, config, forward
  <2>2. QED
    BY <2>1, RowsKept, Zenon
<1>2. CASE Ended
  <2>1. UNCHANGED <<format, batch, pre, stream, pred, pc, block>>
    BY <1>2 DEF Ended, vars, config, forward
  <2>2. QED
    BY <2>1, RowsKept, Zenon
<1>3. QED
  BY <1>1, <1>2, StartKeepsRows, LoadBatchFits, ForwardBlockFits, PredictFits, SweepKeepsRows,
     EndClearsRows, FinishKeepsRows, Zenon DEF Next

LEMMA RowsInvariant == Spec => []RowsInv
BY RowsInvInit, RowsStep, PTL DEF Spec

-----------------------------------------------------------------------------
(* What is promised of the forward *)

LEMMA SourcesAreValid == ValidSources = Sources(batch)
BY Zenon DEF ValidSources, Sources

(* Masked and padding positions never reach a valid one, at any block of any *)
(* depth (additive_mask, prepare_trunk, AdditiveMask under attention).       *)
THEOREM PaddingStaysOut == Spec => []GarbageStaysOut
<1>1. RowsInv => GarbageStaysOut
  <2> SUFFICES ASSUME RowsInv, InForward, NEW q \in DOMAIN stream.rows, pre.mask[q] = 1
               PROVE  stream.rows[q].src \subseteq ValidSources
    BY Zenon DEF GarbageStaysOut
  <2>1. TrunkFits(batch, pre) /\ StreamFits(format, batch, pre, stream.rows)
    BY Zenon DEF RowsInv
  <2>2. q \in Valid(pre.mask)
    BY <2>1, Zenon DEF TrunkFits, StreamFits, Valid
  <2>3. QED
    BY <2>1, <2>2, SourcesAreValid, Zenon DEF StreamFits
<1>2. QED
  BY RowsInvariant, <1>1, PTL

(* The conditioning of every caption is max_length positions, from its first *)
(* token to the suffix, and no live one has seen padding (encode_captions).  *)
THEOREM ConditioningIsCaption == Spec => []ConditioningIsTheCaption
<1>1. RowsInv => ConditioningIsTheCaption
  <2> SUFFICES ASSUME RowsInv, InForward
               PROVE  ConditioningIsTheCaption
    BY Zenon DEF ConditioningIsTheCaption
  <2>1. EncodedFits(batch.text)
    BY Zenon DEF RowsInv, BatchFits
  <2>2. QED
    BY <2>1, Zenon DEF EncodedFits, ConditioningIsTheCaption
<1>2. QED
  BY RowsInvariant, <1>1, PTL

(* A loss that counts as finite was computed from numbers. *)
LossIsSound ==
  pc = "update" \/ (pc = "sweep" /\ lossFinite) => \A k \in DOMAIN pred : ~pred[k].row.bad

LEMMA LossStep == LossIsSound /\ [Next]_vars => LossIsSound'
<1> SUFFICES ASSUME LossIsSound, [Next]_vars
             PROVE  LossIsSound'
  OBVIOUS
<1>1. CASE LossAndBackward \/ HeadGraph
  <2>1. lossFinite' => \A k \in DOMAIN pred' : ~pred'[k].row.bad
    BY <1>1, Zenon DEF LossAndBackward, HeadGraph, Predict
  <2>2. pc' = "update" => lossFinite'
    BY <1>1, Zenon DEF LossAndBackward, HeadGraph
  <2>3. QED
    BY <2>1, <2>2, Zenon DEF LossIsSound
<1>2. CASE ReplayBlock \/ CheckLoss \/ Ended \/ UNCHANGED vars
  <2>1. UNCHANGED <<pred, lossFinite>>
    BY <1>2, Zenon DEF ReplayBlock, CheckLoss, Ended, vars
  <2>2. \/ pc' \in {"panicked", "failed"} \/ pc' = pc
        \/ pc' = "update" /\ pc = "sweep" /\ lossFinite
    BY <1>2, Zenon DEF ReplayBlock, CheckLoss, Ended, vars
  <2>3. QED
    BY <2>1, <2>2 DEF LossIsSound
<1>3. CASE Start \/ LoadBatch \/ ForwardBlock \/ Update \/ SkipUpdate \/ Finish
  <2>1. pc' \in {"refused", "batch", "trunk", "done"}
    BY <1>3 DEF Start, LoadBatch, ForwardBlock, Update, SkipUpdate, EndStep, Finish
  <2>2. QED
    BY <2>1 DEF LossIsSound
<1>4. QED
  BY <1>1, <1>2, <1>3, Zenon DEF Next

LEMMA LossInvariant == Spec => []LossIsSound
<1>1. Init => LossIsSound
  BY DEF Init, LossIsSound
<1>2. QED
  BY <1>1, LossStep, PTL DEF Spec

(* The sequence is padded exactly where it is longer than its tokens. *)
LEMMA PaddedIs ==
  ASSUME BatchFits(batch), TrunkFits(batch, pre)
  PROVE  Spoilt <=> SpoiltBy(format, batch)
<1>1. PICK n \in Nat : n = SequenceLen(batch)
  BY SequenceLenParts, Zenon
<1>2. PICK rows : rows = pre.rows
  BY Zenon
<1>3. rows \in [1 .. n -> TokenRow]
  BY <1>1, <1>2, Zenon DEF TrunkFits
<1>4. Len(pre.rows) = n
  BY <1>2, <1>3, FunctionIsSeq
<1>5. pre.txtLen = MaxLength /\ pre.imgLen = batch.gh * batch.gw
  BY Zenon DEF TrunkFits
<1>6. QED
  BY <1>1, <1>4, <1>5, Zenon DEF Spoilt, Padded, SpoiltBy

(* For magnitudes that are in range, no mask and no outlier ever makes a NaN *)
(* of a row, in f32 or f16, at any depth; the epsilon of the f16 norm does,  *)
(* of all rows, exactly where it is flushed and the sequence has padding;    *)
(* and no update follows from such a prediction (MASK_NEG, ZRmsNorm,         *)
(* MmditAttention, the finite-loss checks).                                  *)
THEOREM NanComesFromEpsilon == Spec => []NanOnlyFromEpsilon
<1>1. ASSUME RowsInv, InForward, NEW q \in DOMAIN stream.rows
      PROVE  stream.rows[q].bad <=> Spoilt /\ FirstBlockRan
  <2>1. /\ BatchFits(batch) /\ TrunkFits(batch, pre)
        /\ ~FirstBlockRan => Sound(stream.rows)
        /\ FirstBlockRan => Mixed(format, batch, pre, stream.rows)
    BY <1>1, Zenon DEF RowsInv
  <2>2. CASE FirstBlockRan
    BY <1>1, <2>1, <2>2, PaddedIs, Zenon DEF Mixed
  <2>3. CASE ~FirstBlockRan
    BY <1>1, <2>1, <2>3, Zenon DEF Sound
  <2>4. QED
    BY <2>2, <2>3
<1>2. ASSUME RowsInv, NEW k \in DOMAIN pred
      PROVE  pred[k].row.bad <=> Spoilt
  <2>1. pred # <<>>
    BY <1>2
  <2>2. BatchFits(batch) /\ TrunkFits(batch, pre) /\ PredictionFits(format, batch, pre, pred)
    BY <1>2, <2>1, Zenon DEF RowsInv
  <2>3. pred[k].row.bad <=> SpoiltBy(format, batch)
    BY <1>2, <2>2, Zenon DEF PredictionFits
  <2>4. QED
    BY <2>2, <2>3, PaddedIs, Zenon
<1>3. RowsInv /\ LossIsSound => NanOnlyFromEpsilon
  BY <1>1, <1>2, Zenon DEF LossIsSound, NanOnlyFromEpsilon
<1>4. QED
  BY RowsInvariant, LossInvariant, <1>3, PTL

(* The configuration's length of the sequence is the one attended over. *)
LEMMA Exact == RowsInv => GeometryIsExact
<1> SUFFICES ASSUME RowsInv, InForward, batch.gh = batch.gw
             PROVE  TokenGeometry(batch.gh * Patch * Compression, MaxLength).sequence_len = Len(stream.rows)
  BY Zenon DEF GeometryIsExact
<1>1. BatchFits(batch) /\ StreamFits(format, batch, pre, stream.rows)
  BY Zenon DEF RowsInv
<1>2. PICK g \in Nat \ {0} : g = batch.gh /\ g = batch.gw
  BY <1>1 DEF BatchFits
<1>3. Len(stream.rows) = SequenceLen(batch)
  <2>1. SequenceLen(batch) \in Nat
    BY <1>1, SequenceLenParts
  <2>2. PICK rows : rows = stream.rows
    BY Zenon
  <2>3. PICK n \in Nat : n = SequenceLen(batch)
    BY <2>1, Zenon
  <2>4. rows \in [1 .. n -> TokenRow]
    BY <1>1, <2>2, <2>3, Zenon DEF StreamFits
  <2>5. QED
    BY <2>2, <2>3, <2>4, FunctionIsSeq
<1>4. (g * Patch * Compression) \div Compression = g * Patch /\ (g * Patch) \div Patch = g
  <2>1. ASSUME NEW a \in Nat, NEW d \in Nat \ {0}
        PROVE  (a * d) \div d = a
    BY Z3
  <2>2. g * Patch \in Nat /\ g \in Nat
    BY DenoiserAssumption
  <2>3. QED
    BY <2>1, <2>2, DenoiserAssumption
<1>5. TokenGeometry(g * Patch * Compression, MaxLength).sequence_len = RoundUp(g * g + MaxLength, SequencePad)
  BY <1>4, Zenon DEF TokenGeometry
<1>6. g * g + MaxLength = MaxLength + batch.gh * batch.gw
  BY <1>2, ConditionerAssumption
<1>7. QED
  BY <1>2, <1>3, <1>5, <1>6, Zenon DEF SequenceLen

(* Row k of the prediction has seen the whole live prompt and the whole      *)
(* image, stands for patch k, and the sequence is as long as the   *)
(* configuration says (LastLayer, patchify, krea2_positions, token_geometry).*)
THEOREM PredictionMatches == Spec => []PredictionMatchesTarget
<1>1. ASSUME RowsInv, pred # <<>>
      PROVE  /\ Len(pred) = batch.gh * batch.gw
             /\ \A k \in DOMAIN pred :
                  /\ pred[k].row.src = ValidSources
                  /\ pre.rows[pred[k].token] = Row({ImageSource(k)})
                  /\ pre.pos[pred[k].token] = <<0>> \o Patchify(batch.gh, batch.gw)[k]
  <2>1. TrunkFits(batch, pre) /\ PredictionFits(format, batch, pre, pred)
    BY <1>1, Zenon DEF RowsInv
  <2>2. PICK img \in Nat \ {0} :
          /\ img = batch.gh * batch.gw
          /\ DOMAIN pred = 1 .. img
          /\ \A k \in 1 .. img :
               /\ pred[k].token = MaxLength + k
               /\ pred[k].row.src = Sources(batch)
    BY <2>1, Zenon DEF PredictionFits
  <2>3. Len(pred) = img
    BY <2>2, LenProperties
  <2>4. \A k \in 1 .. img :
          /\ pre.rows[MaxLength + k] = Row({ImageSource(k)})
          /\ pre.pos[MaxLength + k] = <<0>> \o Patchify(batch.gh, batch.gw)[k]
    BY <2>1, <2>2, Zenon DEF TrunkFits
  <2>5. QED
    BY <2>2, <2>3, <2>4, SourcesAreValid, Zenon
<1>2. RowsInv => PredictionMatchesTarget
  BY <1>1, Exact, Zenon DEF PredictionMatchesTarget
<1>3. QED
  BY RowsInvariant, <1>2, PTL
=============================================================================
