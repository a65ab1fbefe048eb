--------------------------- MODULE MCChunkedUpload ---------------------------
EXTENDS ChunkedUpload, TLC

\* Chunks are interchangeable: nothing depends on their order.
Symmetric == Permutations(Chunks)
=============================================================================
