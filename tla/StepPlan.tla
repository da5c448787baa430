------------------------------ MODULE StepPlan ------------------------------
(***************************************************************************)
(* What each step of a diffusion run consumes (dataset.rs, schedule.rs,    *)
(* the step loop of diffusion_trainer.rs): a run scans its folder into     *)
(* buckets and batches, and step s trains on a batch, at a rate and with   *)
(* the captions dropped that follow from s alone.  A run may be stopped    *)
(* anywhere and launched again from its last checkpoint, over a directory  *)
(* listing in another order.                                               *)
(*                                                                         *)
(* An image is a number, in the order of the file names.  How a checkpoint *)
(* is written and found again is DiffusionRun's; here it is a step.        *)
(***************************************************************************)
EXTENDS Buckets, LrSchedule, FiniteSets

CONSTANTS
  Size,          \* Size[i]: the pixel dimensions of image i
  Folders,       \* the folders the operator may name: sets of images
  Configs,       \* the configurations of the run
  BaseLr,        \* optim.lr
  Steps,         \* steps, a total
  Every,         \* output.checkpoint_every, clamped to 1
  Drawn,         \* the <<step, row>> whose hash falls below the dropout rate
  MaxLaunches    \* bound: launches of the run

ASSUME StepPlanAssumption ==
  /\ Size \in Seq([width : Nat \ {0}, height : Nat \ {0}])
  /\ Folders \subseteq SUBSET DOMAIN Size
  /\ Configs \subseteq
       [resolution : Nat, grid : BOOLEAN, min : Nat, noUpscale : BOOLEAN,
        batchSize : Nat, dropout : {"none", "some", "all"},
        schedule : [kind : Kinds, warmup : Nat, minLr : Nat,
                    gammaInverse : Nat, stepSize : Nat]]
  /\ {BaseLr, Steps, MaxLaunches} \subseteq Nat
  /\ Every \in Nat \ {0}

\* A rate's unit is fine enough to tell the steps of a warm-up apart.
ASSUME FineUnits == \A c \in Configs : c.schedule.warmup <= BaseLr

VARIABLES
  config,
  folder,
  pc,
  launches,
  saved,       \* the step of the newest checkpoint, 0 for none
  buckets,     \* PreparedDataset.buckets
  entries,     \* PreparedDataset.entries: an image and a bucket each
  plans,       \* PreparedDataset::batches
  step,        \* the step to run next
  seen         \* history: seen[s] is what step s has consumed, in any launch

process == <<buckets, entries, plans, step>>
vars == <<config, folder, pc, launches, saved, process, seen>>

Images == DOMAIN Size

-----------------------------------------------------------------------------
(* The dataset *)

\* The set each configuration generates.
Generated == [c \in {c \in Configs : ~BucketSetRefused(c)} |-> BucketSet(c)]

\* The numbers of a finite set, in their order.
Ascending(S) ==
  [n \in 1 .. Cardinality(S) |->
     CHOOSE i \in S : Cardinality({j \in S : j <= i}) = n]

\* Mutant: the entries stay in the order they were read.
AsRead(listing) == listing

\* scan_dataset sorts by path before it assigns a bucket.
Sorted(listing) == Ascending(ToSet(listing))

PositionOf(boxes, box) == {i \in DOMAIN boxes : boxes[i] = box}

\* The bucket of one image and the set it leaves: the nearest of the generated
\* ones or, under no_upscale, what that one fits the image to, appended unless
\* it is there.
Assign(cfg, scan, image) ==
  LET nearest == AssignBucket(Generated[cfg], Size[image])
      fitted == IF cfg.noUpscale
                  THEN FitBucket(scan.buckets[nearest], Size[image])
                  ELSE scan.buckets[nearest]
      known == PositionOf(scan.buckets, fitted)
      found == CHOOSE i \in known : \A j \in known : i <= j
  IN CASE ~cfg.noUpscale ->
            [scan EXCEPT !.entries = Append(@, [image |-> image, bucket |-> nearest])]
       [] cfg.noUpscale /\ known # {} ->
            [scan EXCEPT !.entries = Append(@, [image |-> image, bucket |-> found])]
       [] OTHER ->
            [buckets |-> Append(scan.buckets, fitted),
             entries |-> Append(scan.entries,
                           [image |-> image, bucket |-> Len(scan.buckets) + 1])]

Scan(cfg, images) ==
  LET first[n \in 0 .. Len(images)] ==
        IF n = 0 THEN [buckets |-> Generated[cfg], entries |-> <<>>]
        ELSE Assign(cfg, first[n - 1], images[n])
  IN first[Len(images)]

ScanDataset(listing) == Scan(config, Sorted(listing))

\* Mutant: chunks_exact, which leaves the short chunk out.
WholeChunks(items, size) ==
  [c \in 1 .. Len(items) \div size |->
     SubSeq(items, (c - 1) * size + 1, c * size)]

Chunks(items, size) ==
  [c \in 1 .. CeilDiv(Len(items), size) |->
     SubSeq(items, (c - 1) * size + 1,
            IF c * size < Len(items) THEN c * size ELSE Len(items))]

\* batches: the items of each bucket, in scan order, in chunks.  The trainer
\* clamps a batch size of zero.
Batches(scan, batchSize) ==
  LET size == Larger(batchSize, 1)
      Of(bucket) == Ascending({i \in DOMAIN scan.entries : scan.entries[i].bucket = bucket})
      first[n \in 0 .. Len(scan.buckets)] ==
        IF n = 0 THEN <<>> ELSE first[n - 1] \o Chunks(Of(n), size)
  IN first[Len(scan.buckets)]

-----------------------------------------------------------------------------
(* What a step consumes *)

\* CaptionDropout::choose, for a rate of none, some or all.  A hash of the seed,
\* the step and the row decides, and nothing is drawn otherwise.
Dropped(s, row) ==
  \/ config.dropout = "all"
  \/ config.dropout = "some" /\ <<s, row>> \in Drawn

Cursor(s) == ((s - 1) % Len(plans)) + 1

\* assemble_batch: the latents of the plan's items, in their order, and their
\* conditioning or the shared empty one; and the rate of the step.
Consumed(s) ==
  LET plan == plans[Cursor(s)]
  IN [rows |-> [row \in DOMAIN plan |->
                  [image   |-> entries[plan[row]].image,
                   box     |-> buckets[entries[plan[row]].bucket],
                   caption |-> IF Dropped(s, row) THEN "empty" ELSE "own"]],
      rate |-> LrAt(config.schedule, BaseLr, s, Steps)]

-----------------------------------------------------------------------------
(* The run *)

Init ==
  /\ config \in Configs
  /\ folder \in Folders
  /\ pc = "idle"
  /\ launches = 0
  /\ saved = 0
  /\ buckets = <<>>
  /\ entries = <<>>
  /\ plans = <<>>
  /\ step = 0
  /\ seen = [s \in 1 .. Steps |-> {}]

\* train, prepare_dataset and run_training, up to the step loop.
Refused == \/ InvalidSchedule(config.schedule, BaseLr, Steps)
           \/ BucketSetRefused(config)
           \/ folder = {}

Refuse ==
  /\ pc = "idle"
  /\ Refused
  /\ pc' = "refused"
  /\ UNCHANGED <<config, folder, launches, saved, process, seen>>

\* read_dir lists the folder in any order.
Launch ==
  /\ pc = "idle"
  /\ launches < MaxLaunches
  /\ ~Refused
  /\ \E listing \in SetToSeqs(folder) :
       LET scan == ScanDataset(listing)
       IN /\ buckets' = scan.buckets
          /\ entries' = scan.entries
          /\ plans' = Batches(scan, config.batchSize)
  /\ step' = saved + 1
  /\ launches' = launches + 1
  /\ pc' = "stepping"
  /\ UNCHANGED <<config, folder, saved, seen>>

\* One iteration of the loop; a checkpoint when it is due, and at the end.
Step ==
  /\ pc = "stepping"
  /\ step <= Steps
  /\ seen' = [seen EXCEPT ![step] = @ \cup {Consumed(step)}]
  /\ saved' = IF step % Every = 0 \/ step = Steps THEN step ELSE saved
  /\ step' = step + 1
  /\ UNCHANGED <<config, folder, pc, launches, buckets, entries, plans>>

Forget == buckets' = <<>> /\ entries' = <<>> /\ plans' = <<>> /\ step' = 0

\* The process is killed, or fails; the next one resumes from `saved`.
Stop ==
  /\ pc = "stepping"
  /\ pc' = "idle"
  /\ Forget
  /\ UNCHANGED <<config, folder, launches, saved, seen>>

Finish ==
  /\ pc = "stepping"
  /\ step > Steps
  /\ pc' = "done"
  /\ Forget
  /\ UNCHANGED <<config, folder, launches, saved, seen>>

Next == Refuse \/ Launch \/ Step \/ Stop \/ Finish

Spec == Init /\ [][Next]_vars

-----------------------------------------------------------------------------
(* Properties *)

\* A resumed run trains on what an uninterrupted one would have: whatever the
\* launches, and the order the folder was listed in, a step has one batch, one
\* rate and one choice of captions (scan_dataset, choose, lr_at).
ResumeIsUnsplit == \A s \in 1 .. Steps : Cardinality(seen[s]) <= 1

\* Over each pass of the plans, across restarts too, every image is trained on
\* exactly once, and there is something to train on, whatever the sizes of its bucket and of the batch (batches).
EveryImageOncePerPass ==
  pc = "stepping" =>
    /\ plans # <<>>
    /\ \A pass \in 0 .. Steps \div Len(plans) :
         LET during == pass * Len(plans) + 1 .. (pass + 1) * Len(plans)
             trained(image) ==
               {at \in during \X (1 .. Len(entries)) :
                  \E c \in seen[at[1]] :
                    at[2] \in DOMAIN c.rows /\ c.rows[at[2]].image = image}
         IN during \subseteq DOMAIN seen /\ (\A s \in during : seen[s] # {}) =>
              \A image \in folder : Cardinality(trained(image)) = 1

\* Every generated set holds the square of the resolution (one grid step for a
\* resolution of zero, which is not refused), serves portraits as it serves
\* landscapes, and stays on the grid; a grid set stays within the square's area
\* (generate_buckets, generate_grid_buckets).
BucketsServeEverySource ==
  LET boxes == {buckets[i] : i \in 1 .. Len(Generated[config])}
      side == Larger(config.resolution, Align)
  IN pc = "stepping" =>
       /\ Box(side, side) \in boxes
       /\ \A b \in boxes :
            /\ Box(b.height, b.width) \in boxes
            /\ b.width % Align = 0 /\ b.height % Align = 0
            /\ config.grid =>
                 /\ b.width * b.height <= config.resolution * config.resolution
                 /\ b.width >= MinSide(config)

\* An image's frame covers its box, so that the crop is inside it; and under
\* no_upscale an image with a grid step a side is never enlarged (fit_bucket,
\* decode_image_for_bucket, and scan_dataset between them).
FramesFit == BucketsServeEverySource /\
  \A e \in ToSet(entries) :
    LET box == buckets[e.bucket]
        image == Size[e.image]
        frame == Resized(box, image)
        origin == CropOrigin(box, image)
    IN /\ box.width <= frame.width /\ box.height <= frame.height
       /\ origin[1] + box.width <= frame.width
       /\ origin[2] + box.height <= frame.height
       /\ config.noUpscale /\ image.width >= Align /\ image.height >= Align =>
            box.width <= image.width /\ box.height <= image.height

\* Across the run the rate climbs to the peak over the warm-up, holds it for
\* one more step, and from there never climbs, and never leaves the range of
\* its floor and its peak (lr_at under validate).
CurveIsFollowed ==
  LET W == config.schedule.warmup
      at(s) == (CHOOSE c \in seen[s] : TRUE).rate
  IN \A s \in 1 .. Steps : seen[s] # {} =>
       /\ s \in {W, W + 1} => at(s) = BaseLr
       /\ at(s) <= BaseLr
       /\ s > W => at(s) >= config.schedule.minLr
       /\ s < Steps /\ seen[s + 1] # {} =>
            IF s < W THEN at(s) < at(s + 1) ELSE at(s) >= at(s + 1)
=============================================================================
