SPECIFICATION Spec
CONSTANTS
  MaxTotal = 2
  MaxRuns = 3
  MaxCopies = 0
  MaxSkips = 0
  Everys = {1}
  Embeds = {TRUE}
  NoJob = NoJob
  InitialScale = 2
  MaxScale = 4
  GrowthInterval = 2
INVARIANT MomentsBelong
CHECK_DEADLOCK FALSE
