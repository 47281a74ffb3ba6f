CONSTANTS
  w1 = w1
  w2 = w2
  i1 = i1
  i2 = i2
  s1 = s1
  None = None
  Workers = {w1, w2}
  Stops = {s1}
  Statuses = {}
  Teardowns = {}
  Procs = {w1, w2, s1}
  Inodes = {i1, i2}
  Signalled = {w1, w2}
  Abandoned = {w1, w2}
  Faulty = {w1, w2}
  Recyclable = {w1, w2}
  ChildOf <- MCChildOf
SYMMETRY FullSymmetry
SPECIFICATION CliSpec
INVARIANTS
  NoDaemonMissed
  StopLeavesNothing
  BystandersSpared
