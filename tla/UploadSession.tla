---------------------------- MODULE UploadSession ----------------------------
(***************************************************************************)
(* A chunked upload on the coordinator (apps/api): the rows of its session *)
(* and chunks in the database, the chunk files and the assembled file in   *)
(* the staging area, and the requests on it: saving chunks, completing,    *)
(* cancelling, and the cleanup of expired sessions. The clients may run    *)
(* any of them at the same time, and send different bytes for one chunk.   *)
(* A request is one asynchronous call chain of a Node.js process: a step   *)
(* below is the code between two awaits.                                   *)
(***************************************************************************)
EXTENDS Integers

CONSTANTS
    Chunks,    \* the chunk indexes of the file
    Requests,  \* concurrent requests
    Bodies,    \* what clients send for a chunk: "right", or also "wrong"
    MaxFaults  \* bound on crashes and failing preparations

ASSUME BodiesAssumption == Bodies \subseteq {"right", "wrong"}
ASSUME FaultsAssumption == MaxFaults \in Nat

VARIABLES
    session,  \* UploadSession.status, "NONE" before and "GONE" after the row
    expired,  \* expiresAt has passed
    rows,     \* UploadChunk.checksum by index, "none" where there is no row
    disk,     \* the chunk files of the session's directory
    file,     \* the file made of it: status, and the bytes it was given
    wiped,    \* the session's directory has been deleted once
    faults,   \* faults so far
    request   \* the state of each request

vars == <<session, expired, rows, disk, file, wiped, faults, request>>
store == <<session, expired, rows, disk, file, wiped>>

Stored == {"none", "right", "wrong"}
Kinds == {"save", "complete", "cancel", "cleanup", "renew"}
Labels == {"idle", "link", "row", "exist", "claim", "assemble", "prepare",
           "revert", "publish", "unsession", "undisk", "rmdir", "rmrow"}
RequestState ==
    [pc: Labels, kind: Kinds \union {"none"},
     chunk: SUBSET Chunks,   \* the chunk being saved
     body: Stored]           \* its bytes, or the bytes assembled

Idle == [pc |-> "idle", kind |-> "none", chunk |-> {}, body |-> "none"]
Empty == [c \in Chunks |-> "none"]

At(r, label) == request[r].pc = label
Step(r, state) == request' = [request EXCEPT ![r] = state]
Goto(r, label) == Step(r, [request[r] EXCEPT !.pc = label])
Carry(r, label, body) == Step(r, [request[r] EXCEPT !.pc = label, !.body = body])
Finish(r) == Step(r, Idle)
Start(r, kind, label) ==
    At(r, "idle") /\ Step(r, [Idle EXCEPT !.pc = label, !.kind = kind])
Fault == faults < MaxFaults /\ faults' = faults + 1
Exists == session \in {"ACTIVE", "COMPLETING"}

Init ==
    /\ session = "NONE"
    /\ expired = FALSE
    /\ rows = Empty
    /\ disk = Empty
    /\ file = [status |-> "NONE", bytes |-> "none"]
    /\ wiped = FALSE
    /\ faults = 0
    /\ request = [r \in Requests |-> Idle]

\* One identity is followed; a session that replaces an expired one has
\* another id, and with it rows and a directory of its own.
Create ==
    /\ session = "NONE"
    /\ session' = "ACTIVE"
    /\ UNCHANGED <<expired, rows, disk, file, wiped, faults, request>>

-----------------------------------------------------------------------------
(* saveChunk.                                                              *)

\* The session and its chunks are read once; a chunk that has its row is
\* acknowledged or refused without a change.
Save(r, c, body) ==
    /\ session = "ACTIVE" /\ ~expired
    /\ rows[c] = "none"
    /\ At(r, "idle")
    /\ Step(r, [pc |-> "link", kind |-> "save", chunk |-> {c}, body |-> body])
    /\ UNCHANGED <<store, faults>>

\* The body is received, checked and linked to its name; the link fails if
\* the name exists, and then the bytes there have to be the same.
LinkPartial(c, body) == [disk EXCEPT ![c] = "partial"]   \* mistake: written in place
LinkReplaces(c, body) == [disk EXCEPT ![c] = body]   \* mistake: rename for link
Linked(c, body) == IF disk[c] = "none" THEN [disk EXCEPT ![c] = body] ELSE disk
Link(r, c) ==
    /\ At(r, "link") /\ c \in request[r].chunk
    /\ disk' = Linked(c, request[r].body)
    /\ IF disk'[c] = request[r].body THEN Goto(r, "row") ELSE Finish(r)
    /\ UNCHANGED <<session, expired, rows, file, wiped, faults>>

\* The body is cut off, does not match its checksum, or has no directory.
LinkFails(r) ==
    /\ At(r, "link")
    /\ Finish(r)
    /\ UNCHANGED <<store, faults>>

\* The row refers to its session and is unique; who comes second is served
\* if the first wrote the same checksum.
Row(r, c) ==
    /\ At(r, "row") /\ c \in request[r].chunk
    /\ rows' = IF Exists /\ rows[c] = "none"
               THEN [rows EXCEPT ![c] = request[r].body] ELSE rows
    /\ Finish(r)
    /\ UNCHANGED <<session, expired, disk, file, wiped, faults>>

-----------------------------------------------------------------------------
(* complete.                                                               *)

Complete(r) ==
    /\ session = "ACTIVE" /\ ~expired
    /\ \A c \in Chunks : rows[c] # "none"
    /\ Start(r, "complete", "exist")
    /\ UNCHANGED <<store, faults>>

\* A repeated request finds the session COMPLETING, and its file or none.
Retry(r) ==
    /\ session = "COMPLETING" /\ file.status # "NONE"
    /\ Start(r, "complete", "publish")
    /\ UNCHANGED <<store, faults>>

Exist(r) ==
    /\ At(r, "exist")
    /\ IF \A c \in Chunks : disk[c] # "none" THEN Goto(r, "claim") ELSE Finish(r)
    /\ UNCHANGED <<store, faults>>

\* One request makes the session COMPLETING, for another time to live.
ClaimableAgain == Exists              \* mistake: the update is unconditional
Claimable == session = "ACTIVE"
Claim(r) ==
    /\ At(r, "claim")
    /\ IF Claimable
       THEN /\ session' = "COMPLETING" /\ expired' = FALSE
            /\ Goto(r, "assemble")
       ELSE UNCHANGED <<session, expired>> /\ Finish(r)
    /\ UNCHANGED <<rows, disk, file, wiped, faults>>

\* The chunk files are concatenated, and the result compared with the size
\* and SHA-256 of the session.
AssemblesAny == \A c \in Chunks : disk[c] # "none"   \* mistake: no comparison
Assembles == \A c \in Chunks : disk[c] = "right"
Assemble(r) ==
    /\ At(r, "assemble")
    /\ IF Assembles
       THEN Carry(r, "prepare", IF \E c \in Chunks : disk[c] = "wrong" THEN "wrong" ELSE "right")
       ELSE Goto(r, "revert")
    /\ UNCHANGED <<store, faults>>

\* prepareFile: one transaction creates the file that refers to the session.
Prepare(r) ==
    /\ At(r, "prepare")
    /\ IF Exists /\ file.status = "NONE"
       THEN /\ file' = [status |-> "PENDING", bytes |-> request[r].body]
            /\ Carry(r, "publish", "none")
       ELSE Goto(r, "revert") /\ UNCHANGED file
    /\ UNCHANGED <<session, expired, rows, disk, wiped, faults>>

\* There are not enough HEALTHY nodes.
PrepareFails(r) ==
    /\ At(r, "prepare") /\ Fault
    /\ Goto(r, "revert")
    /\ UNCHANGED store

Revert(r) ==
    /\ At(r, "revert")
    /\ IF session = "COMPLETING"
       THEN session' = "ACTIVE" /\ expired' = FALSE
       ELSE UNCHANGED <<session, expired>>
    /\ Finish(r)
    /\ UNCHANGED <<rows, disk, file, wiped, faults>>

-----------------------------------------------------------------------------
(* publishPrepared and reconcileFile, of which Replication has the rest.   *)

Publish(r) ==
    /\ At(r, "publish")
    /\ \/ file' = [file EXCEPT !.status = "AVAILABLE"] /\ Goto(r, "unsession")
       \/ UNCHANGED file /\ Finish(r)
    /\ UNCHANGED <<session, expired, rows, disk, wiped, faults>>

Unsession(r) ==
    /\ At(r, "unsession")
    /\ session' = "GONE" /\ rows' = Empty
    /\ Goto(r, "undisk")
    /\ UNCHANGED <<expired, disk, file, wiped, faults>>

Undisk(r) ==
    /\ At(r, "undisk")
    /\ disk' = Empty /\ wiped' = TRUE
    /\ Finish(r)
    /\ UNCHANGED <<session, expired, rows, file, faults>>

-----------------------------------------------------------------------------
(* cancel, cleanupExpiredUploads, and the replacement of an expired session *)
(* by create: each decides on what it read and then deletes.               *)

Cancellable == session = "ACTIVE"
Cancel(r) ==
    /\ Cancellable
    /\ Start(r, "cancel", "rmdir")
    /\ UNCHANGED <<store, faults>>

Cleanup(r) ==
    /\ session = "ACTIVE" /\ expired
    /\ Start(r, "cleanup", "rmdir")
    /\ UNCHANGED <<store, faults>>

Renew(r) ==
    /\ Exists /\ expired
    /\ Start(r, "renew", "rmdir")
    /\ UNCHANGED <<store, faults>>

RemoveDirectory(r) ==
    /\ At(r, "rmdir")
    /\ disk' = Empty /\ wiped' = TRUE
    /\ Goto(r, "rmrow")
    /\ UNCHANGED <<session, expired, rows, file, faults>>

\* Chunk rows go with their session; a file loses its reference to it.
RemoveRow(r) ==
    /\ At(r, "rmrow")
    /\ IF Exists THEN session' = "GONE" /\ rows' = Empty
       ELSE UNCHANGED <<session, rows>>
    /\ Finish(r)
    /\ UNCHANGED <<expired, disk, file, wiped, faults>>

-----------------------------------------------------------------------------
Expire ==
    /\ Exists /\ ~expired
    /\ expired' = TRUE
    /\ UNCHANGED <<session, rows, disk, file, wiped, faults, request>>

\* The coordinator restarts; reconcileIncomplete publishes a PENDING file.
Crash(r) ==
    /\ Fault
    /\ request' = IF file.status = "PENDING"
                  THEN [[q \in Requests |-> Idle] EXCEPT
                          ![r] = [Idle EXCEPT !.pc = "publish", !.kind = "complete"]]
                  ELSE [q \in Requests |-> Idle]
    /\ UNCHANGED store

Advance(r) ==
    \/ \E c \in Chunks : Link(r, c) \/ Row(r, c)
    \/ LinkFails(r) \/ Exist(r) \/ Claim(r) \/ Assemble(r) \/ Prepare(r)
    \/ PrepareFails(r) \/ Revert(r) \/ Publish(r) \/ Unsession(r) \/ Undisk(r)
    \/ RemoveDirectory(r) \/ RemoveRow(r)

Next ==
    \/ Create \/ Expire
    \/ \E r \in Requests :
          \/ \E c \in Chunks, body \in Bodies : Save(r, c, body)
          \/ Complete(r) \/ Retry(r) \/ Cancel(r) \/ Cleanup(r) \/ Renew(r)
          \/ Crash(r) \/ Advance(r)

Spec == Init /\ [][Next]_vars

-----------------------------------------------------------------------------
(* Properties.                                                             *)

TypeOK ==
    /\ session \in {"NONE", "ACTIVE", "COMPLETING", "GONE"}
    /\ expired \in BOOLEAN
    /\ rows \in [Chunks -> Stored]
    /\ disk \in [Chunks -> Stored]
    /\ file \in [status: {"NONE", "PENDING", "AVAILABLE"}, bytes: Stored]
    /\ wiped \in BOOLEAN
    /\ faults \in 0..MaxFaults
    /\ request \in [Requests -> RequestState]

\* A chunk the server acknowledged (it has a row, and completedChunks tells
\* every client to skip it) is on disk with the bytes of that checksum, also
\* when clients race with different bytes, until the directory is deleted.
AcknowledgedIsOnDisk ==
    ~wiped => \A c \in Chunks : rows[c] # "none" => disk[c] = rows[c]

\* What is handed to replication has the SHA-256 the session was created
\* with, although chunks are checked one by one, against checksums that
\* their sender chose, and may be deleted and linked anew meanwhile.
PreparedIsRight == file.status # "NONE" => file.bytes = "right"

\* The claim lets one request at a time assemble and prepare.
Working(r) == request[r].pc \in {"assemble", "prepare", "revert"}
OneFinalizer == \A q, r \in Requests : Working(q) /\ Working(r) => q = r

\* Cleanup takes no COMPLETING session that has its durable operations.
CleanupSparesCompleting ==
    [][\A r \in Requests :
          /\ request[r].kind = "cleanup" /\ session = "COMPLETING"
          /\ file.status = "PENDING" /\ request'[r] # request[r]
          => session' # "GONE"]_vars

\* A COMPLETING session that no request works on has its file, so that
\* completing it again finishes it.
FinalizationIsRepeatable ==
    session = "COMPLETING" /\ (\A r \in Requests : At(r, "idle"))
        => file.status # "NONE"

\* With the session every chunk on disk is gone.
NoChunkLeft ==
    session = "GONE" /\ (\A r \in Requests : At(r, "idle")) => disk = Empty

-----------------------------------------------------------------------------
(* What the clients see of the session.                                    *)

Phase == CASE session = "NONE" -> "NONE"
           [] session = "ACTIVE" -> "OPEN"
           [] session = "COMPLETING" -> "FINALIZING"
           [] session = "GONE" -> "CLOSED"

\* However saves, completions, cancellations, cleanups, renewals and crashes
\* interleave, a session's chunks, its file and its end follow one another as
\* UploadLifecycle says: in particular no file is made of a session that still
\* takes chunks, and none is taken back to ACTIVE once it has its file.
Lifecycle == INSTANCE UploadLifecycle
    WITH phase <- Phase, held <- rows, file <- file.status
RefinesUpload == Lifecycle!Spec
=============================================================================
