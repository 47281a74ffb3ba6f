CONSTANTS
  w1 = w1
  i1 = i1
  s1 = s1
  t1 = t1
  c1 = c1
  None = None
  Workers = {w1}
  Stops = {s1}
  Statuses = {t1}
  Teardowns = {c1}
  Procs = {w1, s1, t1, c1}
  Inodes = {i1}
  Signalled = {w1}
  Abandoned = {w1}
  Faulty = {w1}
  Recyclable = {w1}
  ChildOf <- MCChildOf
  Inputs <- RunInputs
  ChildCodes = {0}
  MaxPort = 770
  MaxName = 3
  MaxEntries = 2
SPECIFICATION RunFairSpec
INVARIANTS
  RunTypeOK
  RunTearsDown
  FailureLeavesNoDaemon
PROPERTIES
  TeardownEnds
