SPECIFICATION Spec
CONSTANTS
    d1 = d1
    d2 = d2
    d3 = d3
    None = None
    Deliveries = {d1, d2, d3}
    Envelopes <- RetryEnvelopes
    ActionIDs <- MCActionIDs
    Tasks <- MCTasks
    Keys <- MCKeys
    CompletedLimit = 1
    Sequential = FALSE
    MaxConnections = 1
    MaxRestarts = 0
SYMMETRY Symmetry
CHECK_DEADLOCK FALSE
INVARIANTS
    TypeOK
    AtMostOncePerStep
    OneRunPerActionID
    AnswersAgree
    OutcomesKept
