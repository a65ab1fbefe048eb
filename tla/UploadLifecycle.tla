--------------------------- MODULE UploadLifecycle ---------------------------
(***************************************************************************)
(* What the coordinator promises a client that uploads a file in chunks,   *)
(* whatever else is requested of the session at the same time: a chunk it  *)
(* acknowledged is not asked for again nor replaced, the file is made once *)
(* and only when it has every chunk, a session that has its file takes no  *)
(* chunk any more, and one that is gone does not come back.                *)
(* UploadSession implements it (RefinesUpload).                            *)
(***************************************************************************)
CONSTANT Chunks

VARIABLES
    phase,  \* of the session: it takes chunks while OPEN
    held,   \* what the client was told of each chunk: its checksum, or "none"
    file    \* what became of the file

vars == <<phase, held, file>>

Nothing == [c \in Chunks |-> "none"]

Init == phase = "NONE" /\ held = Nothing /\ file = "NONE"

Open == phase = "NONE" /\ phase' = "OPEN" /\ UNCHANGED <<held, file>>

\* One of the clients is told that its chunk was accepted.
Accept(c, checksum) ==
    /\ phase = "OPEN" /\ held[c] = "none"
    /\ held' = [held EXCEPT ![c] = checksum]
    /\ UNCHANGED <<phase, file>>

Finalize ==
    /\ phase = "OPEN" /\ \A c \in Chunks : held[c] # "none"
    /\ phase' = "FINALIZING"
    /\ UNCHANGED <<held, file>>

\* The chunks do not make the announced file, or there is nowhere to put it.
GiveUp ==
    /\ phase = "FINALIZING" /\ file = "NONE"
    /\ phase' = "OPEN"
    /\ UNCHANGED <<held, file>>

Make ==
    /\ phase = "FINALIZING" /\ file = "NONE"
    /\ file' = "PENDING"
    /\ UNCHANGED <<phase, held>>

Publish == file = "PENDING" /\ file' = "AVAILABLE" /\ UNCHANGED <<phase, held>>

\* The session goes, with what was acknowledged: its file is published, or it
\* was cancelled or has expired.
Close ==
    /\ phase \in {"OPEN", "FINALIZING"}
    /\ phase' = "CLOSED" /\ held' = Nothing
    /\ UNCHANGED file

Next ==
    \/ Open \/ Finalize \/ GiveUp \/ Make \/ Publish \/ Close
    \/ \E c \in Chunks, checksum \in {"right", "wrong"} : Accept(c, checksum)

Spec == Init /\ [][Next]_vars
=============================================================================
