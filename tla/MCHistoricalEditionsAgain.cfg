\* The tokens are reissued twice in the life of one process.
SPECIFICATION HSpec
CONSTANTS
    First = first
    Second = second
    Workers = {w1, w2}
    w1 = w1
    w2 = w2
    Tokens = {t1, t2}
    t1 = t1
    t2 = t2
    Jobs <- MCJobs
    Editions <- MCJobs
    MaxFailures = 1
    MaxGeneration = 2
    ErrorsHappen = FALSE
    MayRestart = FALSE
    NoToken = NoToken
    NoJob = NoJob
    Nobody = Nobody
SYMMETRY MCSymmetry
INVARIANTS
    StaleIsOffTheList
