SPECIFICATION Spec
CONSTANTS
    Setups <- LosingChains
PROPERTY CleanRunSucceeds
