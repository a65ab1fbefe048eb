---------------------------- MODULE MCNodeRegistry ----------------------------
EXTENDS NodeRegistry

\* One node: others only delay the end of a round.
MCLoad == [n \in Nodes |-> [id |-> 1, used |-> 0, capacity |-> 1, primaries |-> 0]]

\* Three nodes, each empty to full, of up to three units, with a primary or not.
Loads == {l \in [used: 0..3, capacity: 1..3, primaries: 0..1] : l.used <= l.capacity}
MCClusters ==
    {{[id |-> i, used |-> c[i].used, capacity |-> c[i].capacity,
       primaries |-> c[i].primaries] : i \in 1..3} : c \in [1..3 -> Loads]}
=============================================================================
