SPECIFICATION Spec
CONSTANTS
  r1 = r1
  r2 = r2
  r3 = r3
  p1 = p1
  p2 = p2
  Runs = {r1, r2}
  Pids = {p1, p2}
  Pid <- OneServer
  SharedProcess = TRUE
  Entries = 1
  Stem <- OneStem
  Window = 1
  Dropout <- NoDropout
  Length <- SameBuild
  MaxPurges = 0
INVARIANT PublishedIsWhole
CHECK_DEADLOCK FALSE
