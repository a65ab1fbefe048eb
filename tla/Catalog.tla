------------------------------- MODULE Catalog -------------------------------
(***************************************************************************)
(* What one user's requests do to the rows that hang together by foreign   *)
(* keys: folders, files and upload sessions (folders/routes.ts,            *)
(* files/routes.ts, uploads/service.ts). Every route checks first and      *)
(* writes later; what happened in between is up to the constraints of the  *)
(* database. A step is the code between two awaits.                        *)
(***************************************************************************)
EXTENDS Integers, FiniteSets

CONSTANTS
    Folders, Files, Sessions,  \* identifiers of rows
    Identities,  \* clientUploadIds
    Requests,    \* concurrent requests of the user
    Limit,       \* MAX_ACTIVE_UPLOADS_PER_USER
    Root,        \* no folder: the top of the tree
    None         \* no row, no identity

Items == Folders \union Files \union Sessions
Places == Folders \union {Root}

ASSUME LimitAssumption == Limit \in Nat \ {0}
ASSUME RowsAssumption ==
    /\ Folders \intersect Files = {}
    /\ (Folders \union Files) \intersect Sessions = {}
    /\ {Root, None} \intersect Items = {} /\ Root # None /\ None \notin Identities
ASSUME FiniteAssumption == IsFiniteSet(Sessions) /\ IsFiniteSet(Requests)

VARIABLES
    place,    \* the folder a row is in, None when there is no row
    claimed,  \* the sessions that are COMPLETING, the others are ACTIVE
    expired,  \* the sessions whose expiresAt is over
    client,   \* clientUploadId of a session
    staged,   \* the files whose bytes are in the coordinator's staging area
    request   \* what each request is doing and has read

session == <<claimed, expired, client>>
vars == <<place, session, staged, request>>

Labels == {"idle", "folder", "identify", "renew", "dedupe", "count", "session", "save",
           "file", "publish", "claim", "assemble", "revert", "drop", "empty", "remove"}
State == [pc: Labels,
          into: Places \union {None},      \* the folder it works in
          row: Items \union {None},        \* the file, folder or session it works on
          from: Sessions \union {None},    \* the session it completes
          id: Identities \union {None}]    \* the identity it creates a session for
Idle == [pc |-> "idle", into |-> None, row |-> None, from |-> None, id |-> None]

At(r, label) == request[r].pc = label
Step(r, state) == request' = [request EXCEPT ![r] = state]
On(q, label, x) == [q EXCEPT !.pc = label, !.row = x]
Goto(r, label) == Step(r, [request[r] EXCEPT !.pc = label])
Reply(r) == Step(r, Idle)

Exists(x) == place[x] # None
Active == {s \in Sessions : Exists(s) /\ s \notin claimed /\ s \notin expired}
Contents(f) == {x \in Items : place[x] = f}
\* A random identifier is nobody's: no row has it and no request works on it.
Unused(x) ==
    ~Exists(x) /\ x \notin staged /\ \A r \in Requests : x \notin {request[r].row, request[r].from}

\* The foreign keys: a row goes into a folder that exists, and a folder goes
\* when nothing refers to it (onDelete: Restrict).
Refers(f) == f \in {Root} \union {g \in Folders : Exists(g)}
UnrestrictedDelete(f) == TRUE   \* mistake: the count alone decides
Removable(f) == Contents(f) = {}

Init ==
    /\ place = [x \in Items |-> None]
    /\ claimed = {} /\ expired = {} /\ staged = {}
    /\ client = [s \in Sessions |-> None]
    /\ request = [r \in Requests |-> Idle]

-----------------------------------------------------------------------------
(* Folders.                                                                *)

\* Creating a folder, a file or a session begins with a look at its folder.
Begin(r, label, f, i) ==
    /\ At(r, "idle") /\ Refers(f)
    /\ Step(r, [Idle EXCEPT !.pc = label, !.into = f, !.id = i])
    /\ UNCHANGED <<place, session, staged>>

CreateFolder(r) ==
    /\ At(r, "folder")
    /\ \/ /\ Refers(request[r].into)
          /\ \E f \in Folders : Unused(f) /\ place' = [place EXCEPT ![f] = request[r].into]
       \/ UNCHANGED place   \* a missing parent, or a database error
    /\ Reply(r)
    /\ UNCHANGED <<session, staged>>

DeleteFolder(r, f) ==
    /\ At(r, "idle") /\ Exists(f)
    /\ Step(r, On(Idle, "empty", f))
    /\ UNCHANGED <<place, session, staged>>

\* Folders and files are counted, sessions are not.
CountContents(r) ==
    /\ At(r, "empty")
    /\ IF Contents(request[r].row) \subseteq Sessions THEN Goto(r, "remove") ELSE Reply(r)
    /\ UNCHANGED <<place, session, staged>>

RemoveFolder(r) ==
    LET f == request[r].row
    IN  /\ At(r, "remove")
        /\ place' = IF Removable(f) THEN [place EXCEPT ![f] = None] ELSE place
        /\ Reply(r)
        /\ UNCHANGED <<session, staged>>

-----------------------------------------------------------------------------
(* Upload sessions: create, cancel and clean up.                           *)

RowGone(s) == /\ place' = [place EXCEPT ![s] = None]
              /\ claimed' = claimed \ {s}
              /\ expired' = expired \ {s}
              /\ client' = [client EXCEPT ![s] = None]

\* The session of an identity is answered, or renewed when it has expired.
Identify(r) ==
    LET own == {s \in Sessions : Exists(s) /\ client[s] = request[r].id}
    IN  /\ At(r, "identify")
        /\ \/ own = {} /\ Goto(r, "dedupe")
           \/ own # {} /\ own \intersect expired = {} /\ Reply(r)
           \/ \E s \in own \intersect expired :
                Step(r, On(request[r], "renew", s))
        /\ UNCHANGED <<place, session, staged>>

\* The expired session is deleted by its id; it may be gone already.
Renew(r) ==
    /\ At(r, "renew")
    /\ \/ /\ Exists(request[r].row)
          /\ RowGone(request[r].row)
          /\ Step(r, On(request[r], "dedupe", None))
       \/ ~Exists(request[r].row) /\ Reply(r) /\ UNCHANGED <<place, session>>
    /\ UNCHANGED staged

\* An ACTIVE session of the same folder and identity is answered if the file
\* it is for is the same one.
Dedupe(r) ==
    /\ At(r, "dedupe")
    /\ \/ Goto(r, "count")
       \/ /\ \E s \in Active : place[s] = request[r].into /\ client[s] = request[r].id
          /\ Reply(r)
    /\ UNCHANGED <<place, session, staged>>

WithinOrAt(active) == Cardinality(active) <= Limit   \* mistake: off by one
Within(active) == Cardinality(active) < Limit

CountSessions(r) ==
    /\ At(r, "count")
    /\ IF Within(Active) THEN Goto(r, "session") ELSE Reply(r)
    /\ UNCHANGED <<place, session, staged>>

\* The row is inserted unless its folder is gone or its identity taken.
CreateSession(r) ==
    LET taken == request[r].id # None /\ \E s \in Sessions : client[s] = request[r].id
    IN  /\ At(r, "session")
        /\ \/ /\ Refers(request[r].into) /\ ~taken
              /\ \E s \in Sessions :
                    /\ Unused(s)
                    /\ place' = [place EXCEPT ![s] = request[r].into]
                    /\ client' = [client EXCEPT ![s] = request[r].id]
           \/ UNCHANGED <<place, client>>
        /\ Reply(r)
        /\ UNCHANGED <<claimed, expired, staged>>

\* cancel, or cleanup of an expired session: on the status read before.
Cancel(r, s) ==
    /\ At(r, "idle") /\ Exists(s) /\ s \notin claimed
    /\ Step(r, On(Idle, "drop", s))
    /\ UNCHANGED <<place, session, staged>>

Drop(r) ==
    /\ At(r, "drop")
    /\ RowGone(request[r].row)
    /\ Reply(r)
    /\ UNCHANGED staged

Expire(s) ==
    /\ Exists(s) /\ s \notin expired
    /\ expired' = expired \union {s}
    /\ UNCHANGED <<place, claimed, client, staged, request>>

-----------------------------------------------------------------------------
(* Files: direct upload, completion of a session, deletion.                *)

\* The body is streamed to the staging area under a new storage key.
Save(r) ==
    /\ At(r, "save")
    /\ \/ \E x \in Files :
            /\ Unused(x)
            /\ staged' = staged \union {x}
            /\ Step(r, On(request[r], "file", x))
       \/ Reply(r) /\ UNCHANGED staged   \* too large, or cut off
    /\ UNCHANGED <<place, session>>

Complete(r, s) ==
    /\ At(r, "idle") /\ s \in Active
    /\ Step(r, [Idle EXCEPT !.pc = "claim", !.into = place[s], !.from = s])
    /\ UNCHANGED <<place, session, staged>>

Claimable(s) == Exists(s) /\ s \notin claimed

Claim(r) ==
    LET s == request[r].from
    IN  /\ At(r, "claim")
        /\ \/ /\ Claimable(s)
              /\ claimed' = claimed \union {s}
              /\ expired' = expired \ {s}
              /\ Goto(r, "assemble")
           \/ ~Claimable(s) /\ Reply(r) /\ UNCHANGED <<claimed, expired>>
        /\ UNCHANGED <<place, client, staged>>

\* The chunks make the file, or do not match what the session announced.
Assemble(r) ==
    /\ At(r, "assemble")
    /\ \/ \E x \in Files :
            /\ Unused(x)
            /\ staged' = staged \union {x}
            /\ Step(r, On(request[r], "file", x))
       \/ Goto(r, "revert") /\ UNCHANGED staged
    /\ UNCHANGED <<place, session>>

\* prepareFile's insert refers to the folder and, completing, to the session.
CreateFile(r) ==
    LET x == request[r].row
        s == request[r].from
    IN  /\ At(r, "file")
        /\ Refers(request[r].into) /\ s \in {None} \union {t \in Sessions : Exists(t)}
        /\ place' = [place EXCEPT ![x] = request[r].into]
        /\ Goto(r, "publish")
        /\ UNCHANGED <<session, staged>>

KeptStaged(x) == staged   \* mistake: no cleanup when the file was not prepared
Unstaged(x) == staged \ {x}

\* It fails also when there are too few storage nodes; the bytes are deleted.
CreateFileFails(r) ==
    /\ At(r, "file")
    /\ staged' = Unstaged(request[r].row)
    /\ IF request[r].from = None
       THEN Reply(r)
       ELSE Step(r, On(request[r], "revert", None))
    /\ UNCHANGED <<place, session>>

\* Replicated: the session is deleted with the publication, then the bytes.
Publish(r) ==
    LET x == request[r].row
        s == request[r].from
    IN  /\ At(r, "publish")
        /\ staged' = staged \ {x}
        /\ IF s = None THEN UNCHANGED <<place, session>> ELSE RowGone(s)
        /\ Reply(r)

\* The session is ACTIVE again, if it is still COMPLETING.
Revert(r) ==
    LET s == request[r].from
    IN  /\ At(r, "revert")
        /\ IF s \in claimed
           THEN claimed' = claimed \ {s} /\ expired' = expired \ {s}
           ELSE UNCHANGED <<claimed, expired>>
        /\ Reply(r)
        /\ UNCHANGED <<place, client, staged>>

\* A published file is deleted; its row goes at the end.
DeleteFile(x) ==
    /\ Exists(x) /\ x \notin staged
    /\ place' = [place EXCEPT ![x] = None]
    /\ UNCHANGED <<session, staged, request>>

-----------------------------------------------------------------------------
Next ==
    \/ \E r \in Requests :
          \/ \E f \in Places :
                \/ Begin(r, "folder", f, None) \/ Begin(r, "save", f, None)
                \/ Begin(r, "dedupe", f, None)
                \/ \E i \in Identities : Begin(r, "identify", f, i)
          \/ \E f \in Folders : DeleteFolder(r, f)
          \/ \E s \in Sessions : Cancel(r, s) \/ Complete(r, s)
          \/ CreateFolder(r) \/ CountContents(r) \/ RemoveFolder(r)
          \/ Identify(r) \/ Renew(r) \/ Dedupe(r) \/ CountSessions(r) \/ CreateSession(r)
          \/ Drop(r) \/ Save(r) \/ Claim(r) \/ Assemble(r)
          \/ CreateFile(r) \/ CreateFileFails(r) \/ Publish(r) \/ Revert(r)
    \/ \E s \in Sessions : Expire(s)
    \/ \E x \in Files : DeleteFile(x)

Spec == Init /\ [][Next]_vars

-----------------------------------------------------------------------------
\* Every variable has its type, and what is kept of a session is kept of one
\* that has a row: no late write revives a deleted one (uploads/service.ts:95-103).
TypeOK ==
    /\ place \in [Items -> Places \union {None}]
    /\ claimed \union expired \subseteq {s \in Sessions : Exists(s)}
    /\ client \in [Sessions -> Identities \union {None}]
    /\ staged \subseteq Files
    /\ request \in [Requests -> State]

\* A folder is deleted on a count that is over and that leaves sessions out;
\* still no file, folder or session ends up in a folder that is gone, and
\* neither does the completion of a session that is still there.
NothingLosesItsFolder ==
    /\ \A x \in Items : Exists(x) => Refers(place[x])
    /\ \A r \in Requests :
          request[r].from # None /\ Exists(request[r].from) => Refers(request[r].into)

\* The limit of ACTIVE sessions is counted before a session is created, and
\* completions that fail make theirs ACTIVE again uncounted. However they
\* race, the excess is less than the requests that run at the same time.
SessionsBounded == Cardinality(Active) < Limit + Cardinality(Requests)

\* Bytes in the staging area belong to a request that is still going to give
\* them a file or delete them.
StagingHasOwner == \A x \in staged : \E r \in Requests : request[r].row = x

-----------------------------------------------------------------------------
(* What one would expect and the code does not do; see the README.         *)

\* A user never has more ACTIVE sessions than the limit.
LimitHolds == Cardinality(Active) <= Limit

\* A folder that was found empty is deleted, unless something was put there.
EmptyFolderGoes ==
    \A r \in Requests : At(r, "remove") => Contents(request[r].row) \intersect Sessions = {}

\* A session is deleted only while it is ACTIVE, or by its own publication.
CompletingIsKept ==
    [][\A s \in claimed : place'[s] = None =>
          \E r \in Requests : At(r, "publish") /\ request[r].from = s]_vars
=============================================================================
