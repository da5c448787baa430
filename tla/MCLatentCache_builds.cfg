SPECIFICATION Spec
CONSTANTS
  r1 = r1
  r2 = r2
  r3 = r3
  p1 = p1
  p2 = p2
  Runs = {r1, r2, r3}
  Pids = {p1, p2}
  Pid <- PidReused
  SharedProcess = FALSE
  Entries = 1
  Stem <- OneStem
  Window = 1
  Dropout <- OneWithDropout
  Length <- TwoBuilds
  MaxPurges = 1
INVARIANT TrainsOnItsOwnLength
CHECK_DEADLOCK FALSE
