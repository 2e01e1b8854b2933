\* Are the uploads to two nodes independent?  One big file is enough.
SPECIFICATION FairSpec
CONSTANTS
    Md5s <- OneMd5
    Big <- OneMd5
    Nodes = {n, o}
    Workers = {w}
    MaxRetries = 1
    BatchSize = 1
    FlushRows = 1
    MaxClears = 0
INVARIANT RecordedIsStored
