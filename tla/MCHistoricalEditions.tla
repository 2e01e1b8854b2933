------------------------ MODULE MCHistoricalEditions ------------------------
\* Instances of HistoricalEditions for TLC: two editions of one act, one in
\* its first list and one that comes with the first reissue.  Both are stale
\* after the second; what is listed then is not stale any more and left out.
EXTENDS HistoricalEditions, TLC

CONSTANTS First, Second

MCJobs == {<<First, 0>>, <<Second, 1>>}

MCSymmetry == Permutations(Workers) \union Permutations(Tokens)
=============================================================================
