CONSTANTS
  NodeIds = {1, 2, 3, 4}
  Graphs <- MCGraphs
  WorkerCounts = {1, 2}
  Sources = {1, 2}
  MaxRuns = 2
SPECIFICATION Spec
INVARIANTS CommitOnlyComplete SuccessIsComplete
PROPERTIES NothingStartsAfterFailure RunEnds ImplementsDataflow
