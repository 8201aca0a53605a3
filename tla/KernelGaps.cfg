SPECIFICATION Spec
CHECK_DEADLOCK FALSE
CONSTANTS
    k1 = k1
    k2 = k2
    r1 = r1
    r2 = r2
    r3 = r3
    Kernels = {k1, k2}
    Requests = {r1, r2, r3}
    Ports = {1, 2}
    None = None
    Setups <- Gaps
INVARIANTS PortsUnique StartsOnDemand TimedOutEnds DownCanRestart
