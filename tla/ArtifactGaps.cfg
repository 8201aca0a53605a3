SPECIFICATION Spec
CONSTANTS
    x = x
    y = y
    Names = {x, y}
    Setups <- FailedAfterDelete
INVARIANTS RunsRepeat AvailableFollowsFlow
CHECK_DEADLOCK FALSE
