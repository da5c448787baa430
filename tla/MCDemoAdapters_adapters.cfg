SPECIFICATION Spec
CONSTANTS
  r1 = r1
  r2 = r2
  Runs = {r1, r2}
  Configs <- MCConfigs
  Features = {"wgpu", "mnist"}
  Batches = 1
CHECK_DEADLOCK FALSE
INVARIANTS
  AnnouncedIsTheRun
  VelocityNeverClassified
  RunsReproduce
