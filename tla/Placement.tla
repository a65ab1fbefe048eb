------------------------------ MODULE Placement ------------------------------
(***************************************************************************)
(* chooseReplicaNodes (placement.ts): which of the candidate nodes get the *)
(* copies of a new file. A candidate is a record of what the registry      *)
(* knows of a node: its id, used and capacity, and in primaries how many   *)
(* PRIMARY replicas it already has.                                        *)
(***************************************************************************)
EXTENDS Integers, FiniteSets, SequencesExt

\* The comparison of the sort: utilisation as a cross product, then the
\* number of primaries, then the identifier.
PrecedesByUse(a, b) ==   \* mistake: bytes are compared, not utilisation
    \/ a.used < b.used
    \/ a.used = b.used /\ a.id < b.id
Precedes(a, b) ==
    LET left == a.used * b.capacity
        right == b.used * a.capacity
    IN  \/ left < right
        \/ left = right /\ a.primaries < b.primaries
        \/ left = right /\ a.primaries = b.primaries /\ a.id < b.id

HasRoom(c) == c.capacity > c.used

\* What the sort makes of the candidates: all of them, each before those that
\* it precedes. Identifiers differ, so there is one such order.
Sorted(candidates) ==
    CHOOSE s \in [1..Cardinality(candidates) -> candidates] :
        \A i, j \in DOMAIN s : i < j => Precedes(s[i], s[j])

ChooseReplicaNodes(candidates, count) ==
    LET sorted == Sorted({c \in candidates : HasRoom(c)})
    IN  SubSeq(sorted, 1, IF count < Len(sorted) THEN count ELSE Len(sorted))

-----------------------------------------------------------------------------
\* The reference: utilisation in parts of Whole, which every capacity divides.
Utilisation(c, Whole) == c.used * (Whole \div c.capacity)

\* chosen is what placement may give a file: candidates with room, as many as
\* asked for or there are, none more utilised than one before it or left
\* out, and among equally utilised ones those with fewer primaries first.
LeastUtilised(chosen, candidates, count, Whole) ==
    LET room == {c \in candidates : c.capacity > c.used}
        comesBefore(a, b) ==
            \/ Utilisation(a, Whole) < Utilisation(b, Whole)
            \/ /\ Utilisation(a, Whole) = Utilisation(b, Whole)
               /\ a.primaries <= b.primaries
    IN  /\ ToSet(chosen) \subseteq room
        /\ Len(chosen) = IF count < Cardinality(room) THEN count ELSE Cardinality(room)
        /\ \A i \in DOMAIN chosen : \A c \in room :
              (\A j \in 1..i : chosen[j] # c) => comesBefore(chosen[i], c)

\* What the registry may know of some nodes: their utilisation in parts of
\* Whole, and no two with one identifier.
Candidate(Whole) ==
    {c \in [id: Nat, used: Nat, capacity: Nat \ {0}, primaries: Nat] :
        \E parts \in 1..Whole : parts * c.capacity = Whole}
IsCluster(candidates, Whole) ==
    /\ IsFiniteSet(candidates)
    /\ candidates \subseteq Candidate(Whole)
    /\ \A a, b \in candidates : a.id = b.id => a = b
=============================================================================
