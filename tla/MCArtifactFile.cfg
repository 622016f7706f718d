SPECIFICATION Spec
CONSTANTS
  Writers = {w1, w2}
  Names <- MCNames
  MaxParts = 2
  Nobody = Nobody
  Written <- MCWritten
INVARIANTS
  TypeOK
  AcceptedIsWhole
  QuietReadIsFaithful
