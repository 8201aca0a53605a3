SPECIFICATION Spec
CONSTANTS
  c1 = c1
  c2 = c2
  r1 = r1
  r2 = r2
  Half = Half
  Contents = {c1, c2}
  Requests = {r1, r2}
  MaxStack = 2
  Kinds <- EveryKind
SYMMETRY Symmetry
INVARIANTS QuietFlowRecords
PROPERTIES OneTimeline UndoGivesBack
