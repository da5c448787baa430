SPECIFICATION Spec
CONSTANTS
  Diffusions <- MCDiffusions
  Demos <- MCDemos
INVARIANT WorkClosesBeforeSteps
INVARIANT ReportsAreFew
INVARIANT LogKeepsUp
INVARIANT WindowIsOneStep
PROPERTY CountersAdvance
CHECK_DEADLOCK FALSE
