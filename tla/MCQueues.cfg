\* No deadlock check: a downloaded file is not asked for again.
SPECIFICATION QueuesSpec
CONSTANTS
    Workers = {d1, d2}
    Extractors = {x}
    Nodes = {n}
    None = None
    Attempts = 2
    Results = 1
    Scrapers = {s}
    Job = job
    Tokens = {t1, t2, t3}
    NoToken = NoToken
    NoJob = NoJob
    Nobody = Nobody
INVARIANTS
    DownloadedIsServable
    OneDownload
PROPERTIES
    RequestOutlivesTheWork
    TriedAgain
    ExtractionEnds
    OcrEnds
    PendingEnds
CHECK_DEADLOCK FALSE
