SPECIFICATION Spec
CONSTANTS
    Setups <- MCSetups
INVARIANT CacheMatchesSettings
PROPERTY EditsReachOutput
PROPERTY RunRecovers
PROPERTY EveryRunEnds
