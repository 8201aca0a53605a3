SPECIFICATION Spec
CONSTANTS
    Setups <- Failing
PROPERTY FailuresAreReported
