\* Two subscribers on a run that is evicted at once, so that streams outlive
\* their run's registry entry, while the next run is produced.
CONSTANTS
  MaxConcurrent = 1
  Retention = 0
  Clients = {c1, c2}
  Progress = {"phase", "step"}
  Unserializable = {}
  MaxRuns = 2
  MaxEvents = 1
SPECIFICATION Spec
SYMMETRY ClientSymmetry
INVARIANTS
  StreamIsPrefix
  ClosedIsComplete
  ExactlyOneTerminal
PROPERTIES
  LogsOnlyGrow
CHECK_DEADLOCK FALSE
