SPECIFICATION FairSpec
CONSTANTS
  r1 = r1
  r2 = r2
  r3 = r3
  p1 = p1
  p2 = p2
  Runs = {r1, r2}
  Pids = {p1, p2}
  Pid <- TwoProcesses
  SharedProcess = FALSE
  Entries = 3
  Stem <- TwoStems
  Window = 2
  Dropout <- OneWithDropout
  Length <- SameBuild
  MaxPurges = 0
INVARIANT PublishedIsWhole
INVARIANT RunsDoNotDisturb
PROPERTY StartedRunTrains
CHECK_DEADLOCK FALSE
