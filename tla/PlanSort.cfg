CONSTANTS
  NodeIds = {1, 2, 3, 4}
  Dag = {1, 2, 3, 4}
  Cyclic = {1, 2, 3}
  Graphs <- MCGraphs
SPECIFICATION Spec
INVARIANTS StagesAreLevels CorrectFlowIsPlanned
PROPERTY SortEnds
