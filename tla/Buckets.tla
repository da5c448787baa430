------------------------------- MODULE Buckets -------------------------------
(***************************************************************************)
(* Resolution buckets (dataset.rs): the boxes a run trains at, the box an  *)
(* image is assigned, and the window its pixels are cropped from.  All of  *)
(* it is done in f64 on small integers, and a division that is undone by a *)
(* multiplication, or by another division, does not always give the        *)
(* integer back: which way it misses decides a floor or a ceiling, so the  *)
(* rounding is modelled, exactly.                                          *)
(***************************************************************************)
EXTENDS Integers, Sequences, SequencesExt

Align == 16                                                \* BUCKET_ALIGN

Box(w, h) == [width |-> w, height |-> h]

Larger(a, b) == IF a > b THEN a ELSE b

CeilDiv(a, b) == (a + b - 1) \div b

-----------------------------------------------------------------------------
(* f64 *)

\* The e with 2^e <= n < 2^(e + 1).
Log2(n) == CHOOSE e \in 0 .. 30 : 2 ^ e <= n /\ n < 2 ^ (e + 1)

\* The same for the fraction a / b.
Exponent(a, b) ==
  IF a >= b THEN CHOOSE e \in 0 .. 30 : b * 2 ^ e <= a /\ a < b * 2 ^ (e + 1)
            ELSE -(CHOOSE e \in 1 .. 30 : a * 2 ^ (e - 1) < b /\ b <= a * 2 ^ e)

\* The f64 quotient a / b is a * 2^k / b rounded to an integer, over 2^k, for
\* the k that gives it 53 bits.  It is exact / (1 + Residue / (a * 2^k)).
Residue(a, b) ==
  LET shifted[k \in Nat] == IF k = 0 THEN a % b ELSE (2 * shifted[k - 1]) % b
      rest == shifted[52 - Exponent(a, b)]
  IN IF 2 * rest > b THEN b - rest ELSE -rest

\* An integer v is computed as an exact value times (1 + r / (a * 2^k)), with r
\* the residue of the quotient a / b: -1, 0 or 1 as the f64 is below, equal to
\* or above v.  The f64 numbers just below a power of two are twice as dense.
Drift(v, a, b, r) ==
  LET e == Exponent(a, b) + 1
      powerOfTwo == v = 2 ^ Log2(v)
      error == v * (IF r < 0 THEN -r ELSE r)
                 * (IF r < 0 /\ powerOfTwo THEN 2 ELSE 1)
                 * (IF e > 0 THEN 2 ^ e ELSE 1)
      half == a * 2 ^ Log2(v) * (IF e < 0 THEN 2 ^ (-e) ELSE 1)
  IN IF error <= half THEN 0 ELSE IF r > 0 THEN 1 ELSE -1

\* floor(side / (a / b)) and ceil(side * (a / b)), as f64 computes them.
FloorOver(side, a, b) ==
  LET exact == (side * b) \div a
  IN IF (side * b) % a = 0 /\ exact > 0 /\ Drift(exact, a, b, -Residue(a, b)) < 0
       THEN exact - 1 ELSE exact

\* Mutant: rounds to the integer at or below.
FloorTimes(side, a, b) ==
  LET exact == (side * a) \div b
  IN IF (side * a) % b = 0 /\ Drift(exact, a, b, Residue(a, b)) < 0
       THEN exact - 1 ELSE exact

CeilTimes(side, a, b) ==
  LET exact == CeilDiv(side * a, b)
  IN IF (side * a) % b = 0 /\ Drift(exact, a, b, Residue(a, b)) > 0
       THEN exact + 1 ELSE exact

-----------------------------------------------------------------------------
(* The bucket set *)

\* align_down, of a value whose floor is v.
AlignDown(v) == Larger((v \div Align) * Align, Align)

Aspects == <<<<1, 1>>, <<4, 3>>, <<3, 4>>, <<3, 2>>, <<2, 3>>, <<16, 9>>, <<9, 16>>>>

\* resolution * sqrt(p / q), rounded to the nearest multiple of Align.
AlignRoot(resolution, p, q) ==
  LET cells == resolution \div Align
      n == CHOOSE n \in 0 .. 2 * cells + 1 :
             /\ n > 0 => (2 * n - 1) * (2 * n - 1) * q <= 4 * cells * cells * p
             /\ 4 * cells * cells * p < (2 * n + 1) * (2 * n + 1) * q
  IN Larger(n, 1) * Align

AppendNew(boxes, box) == IF Contains(boxes, box) THEN boxes ELSE Append(boxes, box)

GenerateBuckets(resolution) ==
  LET Of(aspect) == Box(AlignRoot(resolution, aspect[1], aspect[2]),
                        AlignRoot(resolution, aspect[2], aspect[1]))
      first[n \in 0 .. Len(Aspects)] ==
        IF n = 0 THEN <<>> ELSE AppendNew(first[n - 1], Of(Aspects[n]))
  IN first[Len(Aspects)]

\* generate_grid_buckets: a width per grid step, and each box's transpose.
GridRefused(resolution, minSide) ==
  \/ resolution % Align # 0
  \/ minSide = 0 \/ minSide % Align # 0
  \/ minSide >= resolution
  \/ minSide * 4 < resolution

\* The box of one width and its transpose, unless it is too flat.
\* Mutant: no transpose.
OneWay(boxes, width, resolution, minSide) ==
  LET height == AlignDown((resolution * resolution) \div width)
  IN IF height < minSide THEN boxes ELSE AppendNew(boxes, Box(width, height))

BothWays(boxes, width, resolution, minSide) ==
  LET height == AlignDown((resolution * resolution) \div width)
  IN IF height < minSide THEN boxes
     ELSE AppendNew(AppendNew(boxes, Box(width, height)), Box(height, width))

GenerateGridBuckets(resolution, minSide) ==
  LET maxSide == AlignDown((resolution * resolution) \div minSide)
      widths == (maxSide - minSide) \div Align + 1
      first[n \in 0 .. widths] ==
        IF n = 0 THEN <<>>
        ELSE BothWays(first[n - 1], minSide + (n - 1) * Align, resolution, minSide)
  IN first[widths]

\* bucket_set: an aspects run that names a shortest side is refused, a grid run
\* that names none takes half the resolution.  min is 0 for unset.
MinSide(config) ==
  IF config.min = 0 THEN AlignDown(config.resolution \div 2) ELSE config.min

BucketSetRefused(config) ==
  IF config.grid THEN GridRefused(config.resolution, MinSide(config))
                 ELSE config.min # 0 \/ config.resolution % Align # 0

BucketSet(config) ==
  IF config.grid THEN GenerateGridBuckets(config.resolution, MinSide(config))
                 ELSE GenerateBuckets(config.resolution)

-----------------------------------------------------------------------------
(* One image, a box of pixels *)

\* How far, as a fraction above one, a's aspect is from b's: the larger of the
\* two ratios, in place of the distance between logarithms.
Apart(a, b) ==
  <<Larger(a.width * b.height, b.width * a.height),
    IF a.width * b.height > b.width * a.height THEN b.width * a.height
                                               ELSE a.width * b.height>>

\* assign_bucket: the first of the nearest aspects.
AssignBucket(buckets, image) ==
  LET apart == [i \in DOMAIN buckets |-> Apart(buckets[i], image)]
      Nearer(i, j) == apart[i][1] * apart[j][2] < apart[j][1] * apart[i][2]
  IN CHOOSE i \in DOMAIN buckets :
       /\ \A j \in DOMAIN buckets : ~Nearer(j, i)
       /\ \A j \in 1 .. i - 1 : Nearer(i, j)

\* The larger of the two ratios box : image, as <<a, b>>.
CoverScale(box, image) ==
  IF box.width * image.height >= box.height * image.width
    THEN <<box.width, image.width>>
    ELSE <<box.height, image.height>>

FitBucket(box, image) ==
  LET scale == CoverScale(box, image)
  IN IF scale[1] <= scale[2] THEN box
     ELSE Box(AlignDown(FloorOver(box.width, scale[1], scale[2])),
              AlignDown(FloorOver(box.height, scale[1], scale[2])))

\* decode_image_for_bucket: the resized frame, and the crop's origin in it.
Resized(box, image) ==
  LET scale == CoverScale(box, image)
  IN Box(CeilTimes(image.width, scale[1], scale[2]),
         CeilTimes(image.height, scale[1], scale[2]))

CropOrigin(box, image) ==
  <<(Resized(box, image).width - box.width) \div 2,
    (Resized(box, image).height - box.height) \div 2>>

=============================================================================
