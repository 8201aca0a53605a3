CONSTANTS
  s = s
  a = a
  b = b
  j1 = j1
  j2 = j2
  u = u
  Nodes = {s, a, b, j1, j2, u}
  Inputs <- Crossed
  Stage = {j1, j2, u}
  Computed = {}
  Workers = 2
SPECIFICATION Spec
INVARIANT NoDeadlock
