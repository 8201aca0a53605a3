SPECIFICATION Spec
CONSTANTS
    Setups <- Touched
PROPERTY SourceReachesOutput
