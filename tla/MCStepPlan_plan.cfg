SPECIFICATION Spec
CONSTANTS
  Size <- MCSize
  Folders <- MCFolders
  Configs <- MCConfigs
  BaseLr = 60
  Steps = 7
  Every = 3
  Drawn <- MCDrawn
  MaxLaunches = 2
CHECK_DEADLOCK FALSE
INVARIANTS
  ResumeIsUnsplit
  EveryImageOncePerPass
  FramesFit
  CurveIsFollowed
