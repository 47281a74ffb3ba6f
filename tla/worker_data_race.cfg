CONSTANTS
  w1 = w1
  w2 = w2
  i1 = i1
  i2 = i2
  None = None
  Workers = {w1, w2}
  Procs = {w1, w2}
  Inodes = {i1, i2}
  Signalled = {}
  Abandoned = {}
  Faulty = {}
SYMMETRY Symmetry
SPECIFICATION Spec
INVARIANTS
  ServingDataKept
