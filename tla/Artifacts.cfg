SPECIFICATION Spec
CONSTANTS
    x = x
    y = y
    Names = {x, y}
    Setups <- MCSetups
INVARIANTS ScriptsFindArtifacts MapTellsStore AvailableTellsStore
CHECK_DEADLOCK FALSE
