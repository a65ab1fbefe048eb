---------------------------- MODULE MCObjectStore ----------------------------
EXTENDS ObjectStore, TLC

\* Requests are interchangeable.
Symmetric == Permutations(Requests)
=============================================================================
