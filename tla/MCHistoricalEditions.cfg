\* The tokens are reissued twice; requests fail and the process restarts.
SPECIFICATION HSpec
CONSTANTS
    First = first
    Second = second
    Workers = {w1, w2}
    w1 = w1
    w2 = w2
    Tokens = {t1, t2}
    t1 = t1
    t2 = t2
    Jobs <- MCJobs
    Editions <- MCJobs
    MaxFailures = 1
    MaxGeneration = 2
    ErrorsHappen = TRUE
    MayRestart = TRUE
    NoToken = NoToken
    NoJob = NoJob
    Nobody = Nobody
SYMMETRY MCSymmetry
INVARIANTS
    OneReloadServesAll
    OneHolder
    OneScraper
PROPERTIES
    QueueSpec
    LeaseSpec
