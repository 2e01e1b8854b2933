SPECIFICATION Spec
CONSTANTS
    Workers = {w1, w2}
    w1 = w1
    w2 = w2
    Nodes = {n1}
    n1 = n1
    None = None
    MaxAttempts = 2
    MaxResults = 1
    MayRepeat = TRUE
    ReadsFail = FALSE
SYMMETRY MCSymmetry
INVARIANTS
    StoredFirst
    OneResultPerReservation
    OneExtractor
    LeavesQueueSettled
    RecommendedIsQueued
PROPERTIES
    ExhaustedStaysOut
CHECK_DEADLOCK FALSE
