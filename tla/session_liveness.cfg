CONSTANTS
  w1 = w1
  w2 = w2
  w3 = w3
  i1 = i1
  i2 = i2
  s1 = s1
  None = None
  Workers = {w1, w2, w3}
  Stops = {s1}
  Statuses = {}
  Teardowns = {}
  Procs = {w1, w2, w3, s1}
  Inodes = {i1, i2}
  Signalled = {}
  Abandoned = {}
  Faulty = {w1}
  Recyclable = {}
  ChildOf <- MCChildOf
SPECIFICATION LiveSpec
PROPERTIES
  OnlyRemoteWaits
  StopEndsDaemon
  CommandEnds
