CONSTANTS
  c1 = c1
  c2 = c2
  k1 = k1
  TimeoutSeconds = 2
  Lag = 1
  Conns = {c1, c2}
  KubeConns = {k1}
SPECIFICATION FairSpec
INVARIANTS
  TypeOK
  CountIsOpen
  StopsInTime
PROPERTIES
  NeverStopsBusy
  AbandonedStops
