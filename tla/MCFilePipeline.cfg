\* One download worker: what several do to each other is in MCDownloadQueue.
\* No deadlock check: once the file is read and the purchase described nothing
\* is left to do.
SPECIFICATION PFairSpec
CONSTANTS
    Workers = {w}
    Describers = {d1, d2}
    MaxAttempts = 1
INVARIANT OneDescriber
PROPERTIES ReadyMeansRead DescribedInTheEnd
CHECK_DEADLOCK FALSE
