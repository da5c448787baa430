SPECIFICATION Spec
CONSTANTS
  r1 = r1
  r2 = r2
  p1 = p1
  p2 = p2
  Runs = {r1, r2}
  Pids = {p1, p2}
  QuantBlock = 2
  TrunkBlocks <- Trunk
  FusionBlocks <- Fusion
  AttnFields <- Attn
  MlpFields <- Mlp
  Projections <- Fc1
  Dims <- SiteDims
  Params <- OtherParams
  EncoderParams <- Encoder
  Linears <- Transposed
  Features <- Built
  Requests <- RequestsOf
  MiB = 8
  Checkpoints <- CheckpointsOf
  EncoderFiles <- TextEncoders
  AdapterFiles <- Adapters
SYMMETRY PidSymmetry
INVARIANT OnlyWiredRunsLoad
INVARIANT BaseIsTheFile
INVARIANT ChunksFit
INVARIANT TrainsOnThePin
PROPERTY CacheStaysGood
CHECK_DEADLOCK FALSE
