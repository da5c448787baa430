SPECIFICATION Spec
CONSTANTS
  PrefixLen = 2
  SuffixLen = 1
  MaxLength = 4
  SelectLayers <- MCSelectLayers
  EncoderMaskNeg = 100000000
  Float32 <- MCFloat32
  SequencePad = 3
  Patch = 2
  Compression = 8
  Layers = 11
  MaskNeg = 30000
  Outlier = 600
  NormScale = 16
  ScoreScale = 32
  Float16 <- MCFloat16
  TargetLists <- MCTargetLists
  Captions = {0, 2, 6}
  Grids <- MCGrids
  Steps = 2
INVARIANTS
  GarbageStaysOut
  NanOnlyFromEpsilon
  PredictionMatchesTarget
  ConditioningIsTheCaption
  SweepIsBackprop
PROPERTIES
  AdaptersMoveTogether
