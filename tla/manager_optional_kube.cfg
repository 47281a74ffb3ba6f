CONSTANTS
  n1 = n1
  n2 = n2
  n3 = n3
  k1 = k1
  k2 = k2
  Other = Other
  Nodes = {n1, n2, n3}
  Required = {n1, n3}
  Fetching = {n2}
  Kube <- MCKube
  RequiredKube = {k1}
  Materializing = TRUE
  Absent = Absent
  Odd = Odd
  Malformed = Malformed
  Cap = 2
SPECIFICATION Spec
INVARIANTS
  OptionalKubeHarmless
