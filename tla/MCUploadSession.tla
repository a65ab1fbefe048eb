--------------------------- MODULE MCUploadSession ---------------------------
EXTENDS UploadSession, TLC

\* Requests are interchangeable, and so are chunks.
Symmetric == Permutations(Requests) \union Permutations(Chunks)
=============================================================================
