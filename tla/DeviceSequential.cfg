SPECIFICATION FairSpec
CONSTANTS
    d1 = d1
    d2 = d2
    d3 = d3
    None = None
    Deliveries = {d1, d2, d3}
    Envelopes <- SequentialEnvelopes
    ActionIDs <- MCActionIDs
    Tasks <- MCTasks
    Keys <- MCKeys
    CompletedLimit = 1
    Sequential = TRUE
    MaxConnections = 2
    MaxRestarts = 0
CHECK_DEADLOCK FALSE
INVARIANTS
    RefusedOnlyIfStarted

    
