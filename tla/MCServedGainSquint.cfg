SPECIFICATION Spec
CONSTANTS
  FocalLength = 4000
  EdgeAngle = 53
  NullsScale = 412266000
  Unconverged <- MCUnconverged
  Artifacts <- MCArtifacts
  Requests <- BehindSquint
  Capacity = 2
INVARIANT RearIsTold
