---------------------------- MODULE MCReplication ----------------------------
EXTENDS Replication, TLC

\* Nodes and jobs are interchangeable: no formula names one of them.
Symmetric == Permutations(Nodes) \union Permutations(Procs)
=============================================================================
