SPECIFICATION Spec
CONSTANTS
  SplineOrder = 2
  NumKnots   <- MCNumKnots
  MinSpacing <- MCMinSpacing
  Clocks     <- FullTurn
  Jobs       <- MCJobs
  None       = None
  Errors     <- MCErrors
INVARIANT
  MeasuredIsServed
CHECK_DEADLOCK FALSE
