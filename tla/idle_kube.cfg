CONSTANTS
  c1 = c1
  k1 = k1
  TimeoutSeconds = 5
  Lag = 0
  Conns = {c1}
  KubeConns = {k1}
SPECIFICATION Spec
PROPERTIES
  KubeKeepsAlive
