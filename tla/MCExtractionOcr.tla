-------------------------- MODULE MCExtractionOcr --------------------------
\* Instances of ExtractionOcr for TLC.  Workers and nodes are interchangeable
\* where no liveness is checked.
EXTENDS ExtractionOcr, TLC

MCSymmetry == Permutations(Workers) \union Permutations(Nodes)
=============================================================================
