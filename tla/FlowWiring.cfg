CONSTANTS
  None = None
  f = f
  j = j
  u = u
  f2 = f2
  IdOf <- Ids
  NodeIds = {f, j, u, f2}
  Sources = {}
  Multi = {u}
  Ports <- Handles
  MaxLeads = 4
SYMMETRY Objects
SPECIFICATION WiringSpec
CHECK_DEADLOCK FALSE
INVARIANTS LeadsAcyclic InputsHaveLeads
