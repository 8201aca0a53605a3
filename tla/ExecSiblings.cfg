SPECIFICATION Spec
CONSTANTS
    Setups <- LosingForks
PROPERTY CleanRunSucceeds
