SPECIFICATION Spec
CONSTANTS
  a1 = a1
  a2 = a2
  a3 = a3
  x = x
  s = s
  NoId = NoId
  Ids = {a1, a2, a3}
  FeedIds = {x, s}
  Lists <- MCLists
INVARIANTS
  TypeOK
  LayersSurvive
  AntennasWhole
  AllOrNothing
PROPERTIES
  ImplementsLoad
CHECK_DEADLOCK FALSE
