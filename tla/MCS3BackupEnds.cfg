\* Does a process end by itself?  One file is enough.
SPECIFICATION FairSpec
CONSTANTS
    Md5s <- Two
    Big <- OneMd5
    Nodes = {n}
    Workers = {w1, w2}
    MaxRetries = 1
    BatchSize = 1
    FlushRows = 2
    MaxClears = 0
PROPERTY Ends
