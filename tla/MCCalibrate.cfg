SPECIFICATION Spec
CONSTANTS
  SplineOrder = 2
  NumKnots   <- MCNumKnots
  MinSpacing <- MCMinSpacing
  Clocks     <- MCClocks
  Jobs       <- MCJobs
  None       = None
  Errors     <- MCErrors
INVARIANTS
  CalibrateTypeOK
  ServedAsFitted
  MeasuredIsCovered
  EveryPointAccounted
  OutcomeHonest
CHECK_DEADLOCK FALSE
