SPECIFICATION Spec
CONSTANTS
  near = near
  next = next
  far = far
  beyond = beyond
  Threads = {t1, t2}
  Feeds = {f1}
  Directions <- MCDirections
  Keys <- MCKeys
  KeyOf <- MCKeyOf
  Failed = Failed
  MaxEntries = 2
  MaxEpoch = 1
INVARIANTS
  TypeOK
  LruWellFormed
  EntriesBelong
PROPERTIES
  ImplementsMemo
