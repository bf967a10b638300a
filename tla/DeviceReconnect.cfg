SPECIFICATION FairSpec
CONSTANTS
    Endpoints = 3
    StableSeconds = 30
    MaxShortRounds = 7
CHECK_DEADLOCK FALSE
INVARIANTS
    
    PausesAfterAllFailed
PROPERTIES
    EveryEndpointRetried
    StopReturns
