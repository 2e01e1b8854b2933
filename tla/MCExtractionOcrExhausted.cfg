SPECIFICATION Spec
CONSTANTS
    Workers = {w1}
    w1 = w1
    Nodes = {n1}
    n1 = n1
    None = None
    MaxAttempts = 2
    MaxResults = 2
    MayRepeat = FALSE
    ReadsFail = FALSE
INVARIANTS
    ExhaustedIsDropped
CHECK_DEADLOCK FALSE
