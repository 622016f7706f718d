SPECIFICATION Spec
CONSTANTS
  PhiMin = 64
  PhiMax = 2048
  ModeMax = 254
  RadialMax = 65537
  MaxRefinements = 4
  Stride = 1024
  CycleCap = 8
  MinRho = 32
  RelTol = 10
  AbsTol = 1
  Geometries <- MCGeometries
  Totals = {0, 1000, 1010, 1100}
  Tops = {0, 4, 10}
INVARIANTS
  TypeOK
  EstimateIsMeasured
  VerdictIsEarned
  WorkBounded
CHECK_DEADLOCK FALSE
