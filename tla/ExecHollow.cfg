SPECIFICATION Spec
CONSTANTS
    Setups <- Fetched
PROPERTY NothingHollow
