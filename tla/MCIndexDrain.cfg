SPECIFICATION Spec
CONSTANTS
    a = a
    b = b
    w1 = w1
    w2 = w2
    Keys = {a, b}
    Returning = {b}
    Workers = {w1, w2}
    Mine <- Sharded
    ShardSize = 1
    MaxVersion = 3
    MaxShards = 2
INVARIANTS
    Mirrored
    DeadNotNegative
    WaitedForGoesOn
PROPERTIES
    SearchSpec
\* The queue may be empty and no more changes come: nothing is left to do.
CHECK_DEADLOCK FALSE
