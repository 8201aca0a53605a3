SPECIFICATION WorkerSpec
CHECK_DEADLOCK FALSE
CONSTANTS
    NumFetchers = 2
    None = None
    Setups <- MCSetups
INVARIANTS DataIsEarned WholeFile LiveChildrenAreManaged
PROPERTY EveryFetchReturns
