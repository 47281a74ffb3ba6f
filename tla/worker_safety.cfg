CONSTANTS
  w1 = w1
  w2 = w2
  w3 = w3
  i1 = i1
  i2 = i2
  i3 = i3
  None = None
  Workers = {w1, w2, w3}
  Procs = {w1, w2, w3}
  Inodes = {i1, i2, i3}
  Signalled = {w1, w2, w3}
  Abandoned = {w1, w2, w3}
  Faulty = {w1, w2, w3}
SYMMETRY Symmetry
SPECIFICATION Spec
INVARIANTS
  TypeOK
  RecordedPidIsHolder
  ExclusionUntilRelease
  OwnDataUntilRelease
  CleanAtQuiescence
PROPERTIES
  UnsafeSlotRefused
