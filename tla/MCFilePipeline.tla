--------------------------- MODULE MCFilePipeline ---------------------------
\* Instances of FilePipeline for TLC.
EXTENDS FilePipeline
=============================================================================
