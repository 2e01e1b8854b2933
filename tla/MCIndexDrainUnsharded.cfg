\* What the code does of itself: two workers of one task, each of which may
\* claim every key.
SPECIFICATION Spec
CONSTANTS
    a = a
    b = b
    w1 = w1
    w2 = w2
    Keys = {a, b}
    Returning = {b}
    Workers = {w1, w2}
    Mine <- Unsharded
    ShardSize = 1
    MaxVersion = 3
    MaxShards = 2
INVARIANT Mirrored
CHECK_DEADLOCK FALSE
