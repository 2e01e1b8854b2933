\* One S3 node: a process of two workers, restarted, over two files.
SPECIFICATION FairSpec
CONSTANTS
    Md5s <- Two
    Big <- OneMd5
    Nodes = {n}
    Workers = {w1, w2}
    MaxRetries = 2
    BatchSize = 1
    FlushRows = 2
    MaxClears = 1
INVARIANTS OneHolder RecordedUnlessShared
PROPERTIES DoneMeansDone StopEnds GetsThrough
