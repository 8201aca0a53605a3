SPECIFICATION WorkerSpec
CHECK_DEADLOCK FALSE
CONSTANTS
    NumFetchers = 2
    None = None
    Setups <- Undisturbed
INVARIANT MinusOneMeansDied
