SPECIFICATION Spec
CONSTANTS
  MaxTotal = 3
  MaxRuns = 3
  MaxCopies = 1
  MaxSkips = 1
  Everys = {1, 2}
  Embeds = {TRUE}
  NoJob = NoJob
  InitialScale = 1
  MaxScale = 2
  GrowthInterval = 2
INVARIANT AnnouncedIsDurable
INVARIANT StepIsPosition
INVARIANT HeaderIsHonest
PROPERTY MomentsMatchStep
CHECK_DEADLOCK FALSE
