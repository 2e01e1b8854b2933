---------------------------- MODULE MCIndexDrain ----------------------------
\* Instances of IndexDrain for TLC: two drains, sharded or not.
EXTENDS IndexDrain, TLC

CONSTANTS a, b, w1, w2

Sharded   == (w1 :> {a}) @@ (w2 :> {b})
Unsharded == [w \in Workers |-> Keys]
=============================================================================
