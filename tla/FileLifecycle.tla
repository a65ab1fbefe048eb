--------------------------- MODULE FileLifecycle ---------------------------
(***************************************************************************)
(* What the coordinator promises the owner of a stored file, whatever jobs *)
(* and faults it takes: the file is visible only once two storage nodes    *)
(* acknowledged a copy, and an accepted deletion is never taken back.      *)
(* Replication implements it (RefinesLifecycle).                           *)
(***************************************************************************)
CONSTANT Nodes

VARIABLES
    status,  \* of the file, as its owner would see it
    copies   \* the nodes that acknowledged their first copy

vars == <<status, copies>>

AtLeastTwo(S) == \E a, b \in S : a # b

Init == status = "NONE" /\ copies = {}

Accept == status = "NONE" /\ status' = "PENDING" /\ UNCHANGED copies

\* Copies are acknowledged before publication; each of them once.
Acknowledge(n) ==
    /\ status = "PENDING" /\ n \notin copies
    /\ copies' = copies \union {n}
    /\ UNCHANGED status

Publish ==
    /\ status = "PENDING" /\ AtLeastTwo(copies)
    /\ status' = "AVAILABLE"
    /\ UNCHANGED copies

RequestDeletion ==
    status = "AVAILABLE" /\ status' = "DELETING" /\ UNCHANGED copies

\* The rows go, and with them what is known of the copies.
Remove == status = "DELETING" /\ status' = "GONE" /\ copies' = {}

Next ==
    \/ Accept \/ Publish \/ RequestDeletion \/ Remove
    \/ \E n \in Nodes : Acknowledge(n)

Spec == Init /\ [][Next]_vars
=============================================================================
