---------------------------- MODULE CatalogProofs ----------------------------
(***************************************************************************)
(* What holds in Catalog for any number of folders, files, sessions and    *)
(* requests: its types, that nothing is left in a folder that is gone,     *)
(* that no bytes stay in the staging area without a request to end them,   *)
(* and how far concurrent requests exceed the limit of ACTIVE sessions.    *)
(*                                                                         *)
(* The invariant has two halves. RowsOK is about the database alone, and   *)
(* two lemmas say what adding and removing a row does to it. RequestsOK is *)
(* about what the requests remember; one lemma (RequestKeeps) says when a  *)
(* request may move on. Each action is then an instance of these lemmas.   *)
(***************************************************************************)
EXTENDS Catalog, FiniteSetTheorems, TLAPS

\* Every row is in a folder that is there, or at the top.
FolderInv == \A x \in Items : Exists(x) => Refers(place[x])

RowsOK ==
    /\ place \in [Items -> Places \union {None}]
    /\ claimed \union expired \subseteq {s \in Sessions : Exists(s)}
    /\ client \in [Sessions -> Identities \union {None}]
    /\ FolderInv

\* What a request works on at each label, and what it still holds.
Shape(q) ==
    /\ q.pc \in {"empty", "remove"} => q.row \in Folders
    /\ q.pc \in {"renew", "drop"} => q.row \in Sessions
    /\ q.pc \in {"file", "publish"} <=> q.row \in Files
    /\ q.pc \in {"claim", "assemble", "revert"} => q.from # None
    /\ q.from # None => q.pc \in {"claim", "assemble", "file", "publish", "revert"}

\* A completion works in the folder of its session, while there is one.
PlaceInv ==
    \A r \in Requests :
        request[r].from # None /\ Exists(request[r].from)
            => place[request[r].from] = request[r].into

RequestsOK ==
    /\ request \in [Requests -> State]
    /\ staged \subseteq Files
    /\ \A r \in Requests : Shape(request[r])
    /\ PlaceInv
    /\ StagingHasOwner

CatalogInv == RowsOK /\ RequestsOK

\* The invariant says what the properties of Catalog say.
LEMMA InvariantImplies ==
    CatalogInv => TypeOK /\ NothingLosesItsFolder /\ StagingHasOwner
<1> SUFFICES ASSUME CatalogInv PROVE TypeOK /\ NothingLosesItsFolder
  BY DEF CatalogInv, RequestsOK
<1>1. TypeOK
  BY DEF CatalogInv, RowsOK, RequestsOK, TypeOK
<1>2. ASSUME NEW r \in Requests, request[r].from # None, Exists(request[r].from)
      PROVE  Refers(request[r].into)
  <2>1. request[r].from \in Items
    BY <1>2 DEF CatalogInv, RequestsOK, State, Items
  <2> QED  BY <1>2, <2>1 DEF CatalogInv, RowsOK, FolderInv, RequestsOK, PlaceInv
<1> QED  BY <1>1, <1>2 DEF CatalogInv, RowsOK, FolderInv, NothingLosesItsFolder

\* At the start there are no rows and every request is idle.
LEMMA Initially == Init => CatalogInv
BY RowsAssumption
   DEF Init, CatalogInv, RowsOK, RequestsOK, Shape, PlaceInv, FolderInv, StagingHasOwner,
       Idle, State, Labels, Items, Places, Exists

-----------------------------------------------------------------------------
(* The rows.                                                               *)

\* A row is put into a folder that is there: nobody's folder changes.
LEMMA RowAdded ==
    ASSUME RowsOK, NEW x \in Items, NEW f \in Places, Refers(f),
           place' = [place EXCEPT ![x] = f], UNCHANGED <<claimed, expired>>,
           client' \in [Sessions -> Identities \union {None}]
    PROVE  RowsOK'
<1>1. f # None
  BY RowsAssumption DEF Places, Items
<1>2. \A y \in Items : Exists(y) => Exists(y)'
  BY <1>1 DEF RowsOK, Exists
<1>3. \A g \in Places : Refers(g) => Refers(g)'
  BY <1>2 DEF Refers, Items
<1>4. FolderInv'
  BY <1>3 DEF RowsOK, FolderInv, Exists, Places
<1> QED  BY <1>2, <1>4 DEF RowsOK, Items

\* A row is deleted, a folder only when nothing is in it: nobody loses a folder.
LEMMA RowRemoved ==
    ASSUME RowsOK, NEW x \in Items, x \in Folders => Removable(x),
           place' = [place EXCEPT ![x] = None],
           claimed' = claimed \ {x}, expired' = expired \ {x},
           client' \in [Sessions -> Identities \union {None}]
    PROVE  RowsOK'
<1>1. \A y \in Items : Exists(y)' <=> Exists(y) /\ y # x
  BY DEF RowsOK, Exists
<1>2. ASSUME NEW y \in Items, Exists(y)'  PROVE  Refers(place[y])'
  <2>1. Exists(y) /\ place'[y] = place[y]
    BY <1>1, <1>2 DEF RowsOK
  <2>2. place[y] # x
    BY <2>1, RowsAssumption DEF RowsOK, Removable, Contents, Places, Items
  <2> QED  BY <1>1, <2>1, <2>2 DEF RowsOK, FolderInv, Refers, Items
<1>3. FolderInv'
  BY <1>2 DEF FolderInv
<1> QED  BY <1>1, <1>3 DEF RowsOK, Items

\* A session is deleted, with all that is kept of it.
LEMMA SessionGone ==
    ASSUME RowsOK, NEW s \in Sessions, RowGone(s)
    PROVE  RowsOK'
<1>1. s \in Items /\ s \notin Folders
  BY RowsAssumption DEF Items
<1>2. client' \in [Sessions -> Identities \union {None}]
  BY DEF RowGone, RowsOK
<1> QED  BY <1>1, <1>2, RowRemoved DEF RowGone

\* Requests that write no row leave the rows right.
LEMMA RowsUnchanged ==
    RowsOK /\ UNCHANGED <<place, session>> => RowsOK'
BY DEF RowsOK, FolderInv, Exists, Refers, session

-----------------------------------------------------------------------------
(* The requests.                                                           *)

\* Request r goes on as q; if it completes a session, it is the one it had, or
\* one it has just read the folder of.
Moves(r, q) ==
    /\ q \in State /\ Shape(q) /\ Step(r, q)
    /\ \/ q.from = None
       \/ q.from = request[r].from /\ q.into = request[r].into
       \/ Exists(q.from) /\ place[q.from] = q.into

\* Sessions stay in their folder until they are deleted; a new one is nobody's.
SessionsStay == \A s \in Sessions : place'[s] \in {place[s], None} \/ Unused(s)

\* What request r still stages is the file it goes on with as q.
Stages(r, q) ==
    /\ staged' \subseteq staged \union ({q.row} \intersect Files)
    /\ request[r].row \in staged' => q.row = request[r].row

\* Such a move keeps what is known of the requests.
LEMMA RequestKeeps ==
    ASSUME CatalogInv, NEW r \in Requests, NEW q, Moves(r, q), SessionsStay, Stages(r, q)
    PROVE  RequestsOK'
<1>1. /\ request' \in [Requests -> State]
      /\ request'[r] = q
      /\ \A p \in Requests : p # r => request'[p] = request[p]
  BY DEF CatalogInv, RequestsOK, Moves, Step
<1>2. \A p \in Requests : Shape(request'[p])
  BY <1>1 DEF CatalogInv, RequestsOK, Moves
<1>3. ASSUME NEW p \in Requests, request'[p].from # None, place'[request'[p].from] # None
      PROVE  place'[request'[p].from] = request'[p].into
  <2> DEFINE s == request'[p].from
  <2>1. s \in Sessions /\ place'[s] # None
    BY <1>1, <1>3 DEF State
  <2>2. CASE s = request[p].from /\ request'[p].into = request[p].into
    <3>1. place'[s] = place[s] /\ Exists(s)
      BY <2>1, <2>2 DEF SessionsStay, Unused, Exists
    <3> QED  BY <2>2, <3>1, <1>3 DEF CatalogInv, RequestsOK, PlaceInv, Exists
  <2>3. CASE p = r /\ Exists(s) /\ place[s] = q.into
    <3>1. place'[s] = place[s]
      BY <2>1, <2>3 DEF SessionsStay, Unused
    <3> QED  BY <2>3, <3>1, <1>1
  <2> QED  BY <1>1, <1>3, <2>2, <2>3 DEF Moves
<1>4. PlaceInv'
  BY <1>3 DEF PlaceInv, Exists
<1>5. ASSUME NEW x \in staged'  PROVE \E p \in Requests : request'[p].row = x
  <2>1. CASE x = q.row
    BY <1>1, <2>1
  <2>2. CASE x # q.row
    <3>1. PICK p \in Requests : request[p].row = x
      BY <1>5, <2>2 DEF Stages, CatalogInv, RequestsOK, StagingHasOwner
    <3>2. p # r
      BY <1>5, <2>2, <3>1 DEF Stages
    <3> QED  BY <1>1, <3>1, <3>2
  <2> QED  BY <2>1, <2>2
<1>6. StagingHasOwner'
  BY <1>5 DEF StagingHasOwner
<1>7. staged' \subseteq Files
  BY DEF Stages, CatalogInv, RequestsOK
<1> QED  BY <1>1, <1>2, <1>4, <1>6, <1>7 DEF RequestsOK

\* A request that is not working on a file has nothing staged.
LEMMA NothingStaged ==
    ASSUME CatalogInv, NEW r \in Requests, request[r].pc \notin {"file", "publish"}
    PROVE  request[r].row \notin staged
BY DEF CatalogInv, RequestsOK, Shape

\* The next states of a request, and the fields that matter.
LEMMA GotoState ==
    ASSUME NEW r \in Requests, request[r] \in State, NEW l \in Labels, Goto(r, l)
    PROVE  \E q \in State :
               /\ Step(r, q) /\ q.pc = l
               /\ q.row = request[r].row /\ q.from = request[r].from /\ q.into = request[r].into
<1> DEFINE q == [request[r] EXCEPT !.pc = l]
<1>1. /\ q \in State /\ q.pc = l
      /\ q.row = request[r].row /\ q.from = request[r].from /\ q.into = request[r].into
  BY DEF State
<1>2. Step(r, q)
  BY DEF Goto
<1> HIDE DEF q
<1> QED  BY <1>1, <1>2

LEMMA OnState ==
    ASSUME NEW q \in State, NEW l \in Labels, NEW x \in Items \union {None}
    PROVE  /\ On(q, l, x) \in State /\ On(q, l, x).pc = l /\ On(q, l, x).row = x
           /\ On(q, l, x).from = q.from /\ On(q, l, x).into = q.into
<1>1. On(q, l, x) = [[q EXCEPT !.pc = l] EXCEPT !.row = x]
  BY DEF On
<1> QED  BY <1>1 DEF State

LEMMA IdleState == Idle \in State /\ Shape(Idle) /\ Idle.from = None /\ Idle.row = None
BY RowsAssumption DEF Idle, State, Labels, Shape, Items

\* Requests that only read go on without touching the rows.
LEMMA ReadKeeps ==
    ASSUME CatalogInv, NEW r \in Requests, NEW q, Moves(r, q),
           request[r].pc \notin {"file", "publish"}, UNCHANGED <<place, session, staged>>
    PROVE  CatalogInv'
<1>1. SessionsStay
  BY DEF SessionsStay
<1>2. Stages(r, q)
  BY NothingStaged DEF Stages
<1> QED  BY <1>1, <1>2, RequestKeeps, RowsUnchanged DEF CatalogInv

\* Requests that write rows and answer leave nothing behind.
LEMMA ReplyKeeps ==
    ASSUME CatalogInv, NEW r \in Requests, Reply(r), RowsOK', SessionsStay,
           staged' = staged \ {request[r].row}
    PROVE  CatalogInv'
<1>1. Moves(r, Idle)
  BY IdleState DEF Moves, Reply
<1>2. Stages(r, Idle)
  BY DEF Stages
<1> QED  BY <1>1, <1>2, RequestKeeps DEF CatalogInv

-----------------------------------------------------------------------------
(* The actions that only read.                                             *)

LEMMA BeginKeeps ==
    ASSUME CatalogInv, NEW r \in Requests, NEW l \in {"folder", "save", "dedupe", "identify"},
           NEW f \in Places, NEW i \in Identities \union {None}, Begin(r, l, f, i)
    PROVE  CatalogInv'
<1> DEFINE q == [Idle EXCEPT !.pc = l, !.into = f, !.id = i]
<1>1. q = [[[Idle EXCEPT !.pc = l] EXCEPT !.into = f] EXCEPT !.id = i]
  OBVIOUS
<1>2. q \in State /\ q.pc = l /\ q.row = None /\ q.from = None
  BY <1>1, IdleState DEF State, Labels
<1>3. Step(r, q)
  BY DEF Begin
<1> HIDE DEF q
<1>4. Moves(r, q)
  BY <1>2, <1>3, RowsAssumption DEF Moves, Shape, Items
<1> QED  BY <1>4, ReadKeeps DEF Begin, At

LEMMA DeleteFolderKeeps ==
    ASSUME CatalogInv, NEW r \in Requests, NEW f \in Folders, DeleteFolder(r, f)
    PROVE  CatalogInv'
<1>1. "empty" \in Labels /\ f \in Items
  BY DEF Labels, Items
<1>2. Moves(r, On(Idle, "empty", f))
  BY <1>1, IdleState, OnState, RowsAssumption DEF Moves, DeleteFolder, Shape, Items
<1> QED  BY <1>2, ReadKeeps DEF DeleteFolder, At

LEMMA CancelKeeps ==
    ASSUME CatalogInv, NEW r \in Requests, NEW s \in Sessions, Cancel(r, s)
    PROVE  CatalogInv'
<1>1. "drop" \in Labels /\ s \in Items
  BY DEF Labels, Items
<1>2. Moves(r, On(Idle, "drop", s))
  BY <1>1, IdleState, OnState, RowsAssumption DEF Moves, Cancel, Shape, Items
<1> QED  BY <1>2, ReadKeeps DEF Cancel, At

LEMMA CompleteKeeps ==
    ASSUME CatalogInv, NEW r \in Requests, NEW s \in Sessions, Complete(r, s)
    PROVE  CatalogInv'
<1> DEFINE q == [Idle EXCEPT !.pc = "claim", !.into = place[s], !.from = s]
<1>1. place[s] \in Places \union {None} /\ Exists(s)
  BY DEF CatalogInv, RowsOK, Items, Complete, Active
<1>2. q = [[[Idle EXCEPT !.pc = "claim"] EXCEPT !.into = place[s]] EXCEPT !.from = s]
  OBVIOUS
<1>3. q \in State /\ q.pc = "claim" /\ q.row = None /\ q.from = s /\ q.into = place[s]
  BY <1>1, <1>2, IdleState DEF State, Labels
<1>4. Step(r, q)
  BY DEF Complete
<1> HIDE DEF q
<1>5. Moves(r, q)
  BY <1>1, <1>3, <1>4, RowsAssumption DEF Moves, Shape, Items
<1> QED  BY <1>5, ReadKeeps DEF Complete, At

\* Answering, as every request may that has changed nothing.
LEMMA AnswerKeeps ==
    ASSUME CatalogInv, NEW r \in Requests, Reply(r),
           request[r].pc \notin {"file", "publish"}, UNCHANGED <<place, session, staged>>
    PROVE  CatalogInv'
BY IdleState, ReadKeeps DEF Moves, Reply

\* Going on to a label where no file is worked on, as every request may that
\* has changed nothing.
LEMMA GoOnKeeps ==
    ASSUME CatalogInv, NEW r \in Requests, NEW l \in Labels, Goto(r, l),
           request[r].pc \notin {"file", "publish"}, UNCHANGED <<place, session, staged>>,
           \A q \in State :
              q.pc = l /\ q.row = request[r].row /\ q.from = request[r].from => Shape(q)
    PROVE  CatalogInv'
<1>1. PICK q \in State :
          /\ Step(r, q) /\ q.pc = l
          /\ q.row = request[r].row /\ q.from = request[r].from /\ q.into = request[r].into
  BY GotoState DEF CatalogInv, RequestsOK
<1>2. Moves(r, q)
  BY <1>1 DEF Moves
<1> QED  BY <1>2, ReadKeeps

LEMMA CountContentsKeeps ==
    ASSUME CatalogInv, NEW r \in Requests, CountContents(r)
    PROVE  CatalogInv'
<1>1. CASE Reply(r)
  BY <1>1, AnswerKeeps DEF CountContents, At
<1>2. CASE Goto(r, "remove")
  BY <1>2, GoOnKeeps, RowsAssumption
     DEF CountContents, At, CatalogInv, RequestsOK, Shape, Labels, Items
<1> QED  BY <1>1, <1>2 DEF CountContents

LEMMA IdentifyKeeps ==
    ASSUME CatalogInv, NEW r \in Requests, Identify(r)
    PROVE  CatalogInv'
<1>1. CASE Reply(r)
  BY <1>1, AnswerKeeps DEF Identify, At
<1>2. CASE Goto(r, "dedupe")
  BY <1>2, GoOnKeeps DEF Identify, At, CatalogInv, RequestsOK, Shape, Labels
<1>3. ASSUME NEW s \in Sessions, Step(r, On(request[r], "renew", s))
      PROVE  CatalogInv'
  <2>1. request[r] \in State /\ request[r].from = None
    BY DEF CatalogInv, RequestsOK, Shape, Identify, At
  <2>2. "renew" \in Labels /\ s \in Items
    BY DEF Labels, Items
  <2>3. Moves(r, On(request[r], "renew", s))
    BY <1>3, <2>1, <2>2, OnState, RowsAssumption DEF Moves, Shape, Items
  <2> QED  BY <2>3, ReadKeeps DEF Identify, At
<1> QED  BY <1>1, <1>2, <1>3 DEF Identify

LEMMA DedupeKeeps ==
    ASSUME CatalogInv, NEW r \in Requests, Dedupe(r)
    PROVE  CatalogInv'
<1>1. CASE Reply(r)
  BY <1>1, AnswerKeeps DEF Dedupe, At
<1>2. CASE Goto(r, "count")
  BY <1>2, GoOnKeeps DEF Dedupe, At, CatalogInv, RequestsOK, Shape, Labels
<1> QED  BY <1>1, <1>2 DEF Dedupe

LEMMA CountSessionsKeeps ==
    ASSUME CatalogInv, NEW r \in Requests, CountSessions(r)
    PROVE  CatalogInv'
<1>1. CASE Reply(r)
  BY <1>1, AnswerKeeps DEF CountSessions, At
<1>2. CASE Goto(r, "session")
  BY <1>2, GoOnKeeps DEF CountSessions, At, CatalogInv, RequestsOK, Shape, Labels
<1> QED  BY <1>1, <1>2 DEF CountSessions

-----------------------------------------------------------------------------
(* The actions that write rows.                                            *)

LEMMA CreateFolderKeeps ==
    ASSUME CatalogInv, NEW r \in Requests, CreateFolder(r)
    PROVE  CatalogInv'
<1>1. At(r, "folder") /\ Reply(r) /\ UNCHANGED <<session, staged>>
  BY DEF CreateFolder
<1>2. CASE UNCHANGED place
  BY <1>1, <1>2, AnswerKeeps DEF At
<1>3. ASSUME NEW f \in Folders, Refers(request[r].into),
             place' = [place EXCEPT ![f] = request[r].into]
      PROVE  CatalogInv'
  <2>1. f \in Items /\ f \notin Sessions /\ request[r].into \in Places
    BY <1>3, RowsAssumption DEF Refers, Items, Places
  <2>2. RowsOK'
    BY <1>1, <1>3, <2>1, RowAdded DEF CatalogInv, RowsOK, session
  <2>3. SessionsStay
    BY <1>3, <2>1 DEF SessionsStay, CatalogInv, RowsOK, Items
  <2>4. staged' = staged \ {request[r].row}
    BY <1>1, NothingStaged DEF At
  <2> QED  BY <1>1, <2>2, <2>3, <2>4, ReplyKeeps
<1> QED  BY <1>2, <1>3 DEF CreateFolder

LEMMA RemoveFolderKeeps ==
    ASSUME CatalogInv, NEW r \in Requests, RemoveFolder(r)
    PROVE  CatalogInv'
<1> DEFINE f == request[r].row
<1>1. At(r, "remove") /\ Reply(r) /\ UNCHANGED <<session, staged>>
  BY DEF RemoveFolder
<1>2. CASE UNCHANGED place
  BY <1>1, <1>2, AnswerKeeps DEF At
<1>3. CASE Removable(f) /\ place' = [place EXCEPT ![f] = None]
  <2>1. f \in Folders /\ f \in Items /\ f \notin Sessions
    BY <1>1, RowsAssumption DEF CatalogInv, RequestsOK, Shape, At, Items
  <2>2. claimed' = claimed \ {f} /\ expired' = expired \ {f}
    BY <1>1, <2>1 DEF CatalogInv, RowsOK, session
  <2>3. RowsOK'
    BY <1>1, <1>3, <2>1, <2>2, RowRemoved DEF CatalogInv, RowsOK, session
  <2>4. SessionsStay
    BY <1>3, <2>1 DEF SessionsStay, CatalogInv, RowsOK, Items
  <2>5. staged' = staged \ {request[r].row}
    BY <1>1, NothingStaged DEF At
  <2> QED  BY <1>1, <2>3, <2>4, <2>5, ReplyKeeps
<1> QED  BY <1>2, <1>3 DEF RemoveFolder

\* Deleting a session leaves the others where they are.
LEMMA OthersStay ==
    ASSUME RowsOK, NEW s \in Sessions, RowGone(s)
    PROVE  SessionsStay
BY DEF RowsOK, RowGone, SessionsStay, Items

LEMMA RenewKeeps ==
    ASSUME CatalogInv, NEW r \in Requests, Renew(r)
    PROVE  CatalogInv'
<1> DEFINE s == request[r].row
           q == On(request[r], "dedupe", None)
<1>1. CASE Reply(r) /\ UNCHANGED <<place, session>>
  BY <1>1, AnswerKeeps DEF Renew, At
<1>2. CASE RowGone(s) /\ Step(r, q)
  <2>1. s \in Sessions /\ request[r] \in State /\ request[r].from = None /\ "dedupe" \in Labels
    BY DEF CatalogInv, RequestsOK, Shape, Renew, At, Labels
  <2>2. RowsOK' /\ SessionsStay
    BY <1>2, <2>1, SessionGone, OthersStay DEF CatalogInv
  <2>3. Moves(r, q)
    BY <1>2, <2>1, OnState, RowsAssumption DEF Moves, Shape, Items
  <2>4. Stages(r, q)
    BY NothingStaged DEF Stages, Renew, At
  <2> QED  BY <2>2, <2>3, <2>4, RequestKeeps DEF CatalogInv
<1> QED  BY <1>1, <1>2 DEF Renew

LEMMA CreateSessionKeeps ==
    ASSUME CatalogInv, NEW r \in Requests, CreateSession(r)
    PROVE  CatalogInv'
<1>1. At(r, "session") /\ Reply(r) /\ UNCHANGED <<claimed, expired, staged>>
  BY DEF CreateSession
<1>2. CASE UNCHANGED <<place, client>>
  BY <1>1, <1>2, AnswerKeeps DEF At, session
<1>3. ASSUME NEW s \in Sessions, Unused(s), Refers(request[r].into),
             place' = [place EXCEPT ![s] = request[r].into],
             client' = [client EXCEPT ![s] = request[r].id]
      PROVE  CatalogInv'
  <2>1. s \in Items /\ request[r].into \in Places /\ request[r].id \in Identities \union {None}
    BY <1>3 DEF Refers, Items, Places, CatalogInv, RequestsOK, State
  <2>2. client' \in [Sessions -> Identities \union {None}]
    BY <1>3, <2>1 DEF CatalogInv, RowsOK
  <2>3. RowsOK'
    BY <1>1, <1>3, <2>1, <2>2, RowAdded DEF CatalogInv
  <2>4. SessionsStay
    BY <1>3 DEF SessionsStay, CatalogInv, RowsOK, Items
  <2>5. staged' = staged \ {request[r].row}
    BY <1>1, NothingStaged DEF At
  <2> QED  BY <1>1, <2>3, <2>4, <2>5, ReplyKeeps
<1> QED  BY <1>2, <1>3 DEF CreateSession

LEMMA DropKeeps ==
    ASSUME CatalogInv, NEW r \in Requests, Drop(r)
    PROVE  CatalogInv'
<1>1. request[r].row \in Sessions
  BY DEF CatalogInv, RequestsOK, Shape, Drop, At
<1>2. RowsOK' /\ SessionsStay
  BY <1>1, SessionGone, OthersStay DEF CatalogInv, Drop
<1>3. staged' = staged \ {request[r].row}
  BY NothingStaged DEF Drop, At
<1> QED  BY <1>2, <1>3, ReplyKeeps DEF Drop

-----------------------------------------------------------------------------
(* The actions that work on files.                                         *)

\* A new file's bytes belong to the request that goes on with it.
LEMMA StagedKeeps ==
    ASSUME CatalogInv, NEW r \in Requests, request[r].pc \in {"save", "assemble"},
           NEW x \in Files, staged' = staged \union {x},
           Step(r, On(request[r], "file", x)), UNCHANGED <<place, session>>
    PROVE  CatalogInv'
<1> DEFINE q == On(request[r], "file", x)
<1>1. request[r] \in State /\ "file" \in Labels /\ x \in Items
  BY DEF CatalogInv, RequestsOK, Labels, Items
<1>2. q \in State /\ q.pc = "file" /\ q.row = x /\ q.from = request[r].from
      /\ q.into = request[r].into
  BY <1>1, OnState
<1>3. Moves(r, q)
  BY <1>2 DEF Moves, Shape
<1>4. Stages(r, q)
  BY <1>2, NothingStaged DEF Stages
<1>5. SessionsStay
  BY DEF SessionsStay
<1> QED  BY <1>3, <1>4, <1>5, RequestKeeps, RowsUnchanged DEF CatalogInv

LEMMA SaveKeeps ==
    ASSUME CatalogInv, NEW r \in Requests, Save(r)
    PROVE  CatalogInv'
<1>1. CASE Reply(r) /\ UNCHANGED staged
  BY <1>1, AnswerKeeps DEF Save, At
<1>2. ASSUME NEW x \in Files, staged' = staged \union {x}, Step(r, On(request[r], "file", x))
      PROVE  CatalogInv'
  BY <1>2, StagedKeeps DEF Save, At
<1> QED  BY <1>1, <1>2 DEF Save

LEMMA ClaimKeeps ==
    ASSUME CatalogInv, NEW r \in Requests, Claim(r)
    PROVE  CatalogInv'
<1> DEFINE s == request[r].from
<1>1. At(r, "claim") /\ UNCHANGED <<place, client, staged>>
  BY DEF Claim
<1>2. CASE Reply(r) /\ UNCHANGED <<claimed, expired>>
  BY <1>1, <1>2, AnswerKeeps DEF At, session
<1>3. CASE /\ Claimable(s) /\ Goto(r, "assemble")
           /\ claimed' = claimed \union {s} /\ expired' = expired \ {s}
  <2>1. s \in Sessions /\ Exists(s)
    BY <1>1, <1>3 DEF CatalogInv, RequestsOK, Shape, State, At, Claimable
  <2>2. RowsOK'
    BY <1>1, <1>3, <2>1 DEF CatalogInv, RowsOK, FolderInv, Exists, Refers
  <2>3. PICK q \in State :
            /\ Step(r, q) /\ q.pc = "assemble"
            /\ q.row = request[r].row /\ q.from = s /\ q.into = request[r].into
    BY <1>3, GotoState DEF CatalogInv, RequestsOK, Labels
  <2>4. Moves(r, q)
    BY <1>1, <2>3 DEF Moves, Shape, CatalogInv, RequestsOK, At
  <2>5. SessionsStay /\ Stages(r, q)
    BY <1>1, NothingStaged DEF SessionsStay, Stages, At
  <2> QED  BY <2>2, <2>4, <2>5, RequestKeeps DEF CatalogInv
<1> QED  BY <1>2, <1>3 DEF Claim

LEMMA AssembleKeeps ==
    ASSUME CatalogInv, NEW r \in Requests, Assemble(r)
    PROVE  CatalogInv'
<1>1. CASE Goto(r, "revert") /\ UNCHANGED staged
  BY <1>1, GoOnKeeps DEF Assemble, At, CatalogInv, RequestsOK, Shape, Labels
<1>2. ASSUME NEW x \in Files, staged' = staged \union {x}, Step(r, On(request[r], "file", x))
      PROVE  CatalogInv'
  BY <1>2, StagedKeeps DEF Assemble, At
<1> QED  BY <1>1, <1>2 DEF Assemble

LEMMA CreateFileKeeps ==
    ASSUME CatalogInv, NEW r \in Requests, CreateFile(r)
    PROVE  CatalogInv'
<1> DEFINE x == request[r].row
<1>1. At(r, "file") /\ Goto(r, "publish") /\ UNCHANGED <<session, staged>>
  BY DEF CreateFile
<1>2. x \in Files /\ x \in Items /\ x \notin Sessions /\ request[r].into \in Places
  BY RowsAssumption
     DEF CreateFile, CatalogInv, RequestsOK, Shape, At, Refers, Items, Places
<1>3. client' \in [Sessions -> Identities \union {None}]
  BY <1>1 DEF CatalogInv, RowsOK, session
<1>4. RowsOK'
  BY <1>1, <1>2, <1>3, RowAdded DEF CatalogInv, CreateFile, session
<1>5. PICK q \in State :
          /\ Step(r, q) /\ q.pc = "publish"
          /\ q.row = x /\ q.from = request[r].from /\ q.into = request[r].into
  BY <1>1, GotoState DEF CatalogInv, RequestsOK, Labels
<1>6. Moves(r, q)
  BY <1>1, <1>2, <1>5 DEF Moves, Shape
<1>7. SessionsStay
  BY <1>2 DEF SessionsStay, CatalogInv, RowsOK, CreateFile, Items
<1>8. Stages(r, q)
  BY <1>1, <1>5 DEF Stages
<1> QED  BY <1>4, <1>6, <1>7, <1>8, RequestKeeps DEF CatalogInv

LEMMA CreateFileFailsKeeps ==
    ASSUME CatalogInv, NEW r \in Requests, CreateFileFails(r)
    PROVE  CatalogInv'
<1> DEFINE q == On(request[r], "revert", None)
<1>1. RowsOK' /\ SessionsStay /\ staged' = staged \ {request[r].row}
  BY RowsUnchanged DEF CatalogInv, CreateFileFails, SessionsStay, Unstaged
<1>2. CASE Reply(r)
  BY <1>1, <1>2, ReplyKeeps
<1>3. CASE request[r].from # None /\ Step(r, q)
  <2>1. request[r] \in State /\ "revert" \in Labels
    BY DEF CatalogInv, RequestsOK, Labels
  <2>2. Moves(r, q)
    BY <1>3, <2>1, OnState, RowsAssumption DEF Moves, Shape, Items
  <2>3. Stages(r, q)
    BY <1>1 DEF Stages
  <2> QED  BY <1>1, <2>2, <2>3, RequestKeeps DEF CatalogInv
<1> QED  BY <1>2, <1>3 DEF CreateFileFails

LEMMA PublishKeeps ==
    ASSUME CatalogInv, NEW r \in Requests, Publish(r)
    PROVE  CatalogInv'
<1> DEFINE s == request[r].from
<1>1. staged' = staged \ {request[r].row} /\ Reply(r)
  BY DEF Publish
<1>2. CASE s = None
  BY <1>1, <1>2, RowsUnchanged, ReplyKeeps DEF Publish, SessionsStay, CatalogInv
<1>3. CASE s # None
  <2>1. s \in Sessions /\ RowGone(s)
    BY <1>3 DEF Publish, CatalogInv, RequestsOK, State
  <2> QED  BY <1>1, <2>1, SessionGone, OthersStay, ReplyKeeps DEF CatalogInv
<1> QED  BY <1>2, <1>3

LEMMA RevertKeeps ==
    ASSUME CatalogInv, NEW r \in Requests, Revert(r)
    PROVE  CatalogInv'
<1>1. RowsOK' /\ SessionsStay
  BY DEF Revert, SessionsStay, CatalogInv, RowsOK, FolderInv, Exists, Refers
<1>2. staged' = staged \ {request[r].row}
  BY NothingStaged DEF Revert, At
<1> QED  BY <1>1, <1>2, ReplyKeeps DEF Revert

-----------------------------------------------------------------------------
(* What happens without a request, and the whole.                          *)

LEMMA ExpireKeeps ==
    ASSUME CatalogInv, NEW s \in Sessions, Expire(s)
    PROVE  CatalogInv'
<1>1. RowsOK'
  BY DEF Expire, CatalogInv, RowsOK, FolderInv, Exists, Refers
<1>2. RequestsOK'
  BY DEF Expire, CatalogInv, RequestsOK, PlaceInv, StagingHasOwner, Exists
<1> QED  BY <1>1, <1>2 DEF CatalogInv

LEMMA DeleteFileKeeps ==
    ASSUME CatalogInv, NEW x \in Files, DeleteFile(x)
    PROVE  CatalogInv'
<1>1. x \in Items /\ x \notin Folders /\ x \notin Sessions
  BY RowsAssumption DEF Items
<1>2. claimed' = claimed \ {x} /\ expired' = expired \ {x}
  BY <1>1 DEF DeleteFile, session, CatalogInv, RowsOK
<1>3. RowsOK'
  BY <1>1, <1>2, RowRemoved DEF DeleteFile, session, CatalogInv, RowsOK
<1>4. \A s \in Sessions : place'[s] = place[s]
  BY <1>1 DEF DeleteFile, CatalogInv, RowsOK, Items
<1>5. RequestsOK'
  BY <1>4 DEF DeleteFile, CatalogInv, RequestsOK, PlaceInv, StagingHasOwner, Exists, State
<1> QED  BY <1>3, <1>5 DEF CatalogInv

LEMMA StepKeeps == CatalogInv /\ [Next]_vars => CatalogInv'
<1> SUFFICES ASSUME CatalogInv, [Next]_vars PROVE CatalogInv'
  OBVIOUS
<1>1. CASE UNCHANGED vars
  BY <1>1 DEF vars, session, CatalogInv, RowsOK, FolderInv, RequestsOK, PlaceInv,
              StagingHasOwner, Exists, Refers
<1>2. ASSUME NEW r \in Requests, NEW f \in Places,
             \/ Begin(r, "folder", f, None) \/ Begin(r, "save", f, None)
             \/ Begin(r, "dedupe", f, None)
             \/ \E i \in Identities : Begin(r, "identify", f, i)
      PROVE  CatalogInv'
  BY <1>2, BeginKeeps
<1>3. ASSUME NEW r \in Requests,
             \/ CreateFolder(r) \/ CountContents(r) \/ RemoveFolder(r)
             \/ \E f \in Folders : DeleteFolder(r, f)
      PROVE  CatalogInv'
  BY <1>3, CreateFolderKeeps, CountContentsKeeps, RemoveFolderKeeps, DeleteFolderKeeps
<1>4. ASSUME NEW r \in Requests,
             \/ Identify(r) \/ Renew(r) \/ Dedupe(r) \/ CountSessions(r) \/ CreateSession(r)
             \/ Drop(r) \/ \E s \in Sessions : Cancel(r, s)
      PROVE  CatalogInv'
  BY <1>4, IdentifyKeeps, RenewKeeps, DedupeKeeps, CountSessionsKeeps, CreateSessionKeeps,
     DropKeeps, CancelKeeps
<1>5. ASSUME NEW r \in Requests,
             \/ Save(r) \/ Claim(r) \/ Assemble(r) \/ CreateFile(r) \/ CreateFileFails(r)
             \/ Publish(r) \/ Revert(r) \/ \E s \in Sessions : Complete(r, s)
      PROVE  CatalogInv'
  BY <1>5, SaveKeeps, ClaimKeeps, AssembleKeeps, CreateFileKeeps, CreateFileFailsKeeps,
     PublishKeeps, RevertKeeps, CompleteKeeps
<1>6. CASE (\E s \in Sessions : Expire(s)) \/ (\E x \in Files : DeleteFile(x))
  BY <1>6, ExpireKeeps, DeleteFileKeeps
<1> QED  BY <1>1, <1>2, <1>3, <1>4, <1>5, <1>6 DEF Next

\* In every behaviour the invariant holds in every state.
LEMMA AlwaysCatalogInv == Spec => []CatalogInv
BY Initially, StepKeeps, PTL DEF Spec

\* The rows and the requests have their types, and nothing is kept of a session
\* whose row is gone, whatever requests of the user race (uploads/service.ts:95-103).
THEOREM TypeCorrect == Spec => []TypeOK
BY AlwaysCatalogInv, InvariantImplies, PTL

\* However many requests race with the deletion of a folder that was counted
\* empty, no file, folder or session is left in a folder that is gone, and no
\* completion of a live session works in one (folders/routes.ts:11).
THEOREM FoldersCorrect == Spec => []NothingLosesItsFolder
BY AlwaysCatalogInv, InvariantImplies, PTL

\* Bytes in the coordinator's staging area always belong to a request that will
\* publish or delete them, on every path of an upload or a completion that fails.
THEOREM StagingCorrect == Spec => []StagingHasOwner
BY AlwaysCatalogInv, InvariantImplies, PTL

-----------------------------------------------------------------------------
(* The limit of ACTIVE sessions. Every request may add one session to      *)
(* those that are ACTIVE: one that has counted, by creating it, or one     *)
(* that completes a session, by giving it back. The last count that        *)
(* allowed a session bounds all of them at once.                           *)

Held == {s \in Sessions : \E r \in Requests : request[r].from = s}
Contending == Active \union Held
Counted == {r \in Requests : request[r].pc = "session"}
Completing == {r \in Requests : request[r].from # None}

SessionsInv ==
    Cardinality(Contending) + Cardinality(Counted) < Limit + Cardinality(Requests)

LEMMA Finite ==
    /\ IsFiniteSet(Requests) /\ Cardinality(Requests) \in Nat
    /\ \A S \in SUBSET Sessions : IsFiniteSet(S) /\ Cardinality(S) \in Nat
    /\ \A S \in SUBSET Requests : /\ IsFiniteSet(S) /\ Cardinality(S) \in Nat
                                 /\ Cardinality(S) <= Cardinality(Requests)
BY FiniteAssumption, FS_Subset, FS_CardinalityType

LEMMA Subsets ==
    /\ Active \in SUBSET Sessions /\ Held \in SUBSET Sessions
    /\ Contending \in SUBSET Sessions
    /\ Counted \in SUBSET Requests /\ Completing \in SUBSET Requests
BY DEF Active, Held, Contending, Counted, Completing

\* There are no more sessions held than requests that complete one.
LEMMA HeldByCompleting ==
    ASSUME CatalogInv
    PROVE  Cardinality(Held) <= Cardinality(Completing)
<1> DEFINE holds == [r \in Completing |-> request[r].from]
<1>1. \A r \in Completing : request[r].from \in Held
  BY DEF CatalogInv, RequestsOK, State, Completing, Held
<1>2. \A s \in Held : \E r \in Completing : request[r].from = s
  BY RowsAssumption DEF Held, Completing, Items
<1>3. holds \in Surjection(Completing, Held)
  BY <1>1, <1>2 DEF Surjection
<1>4. IsFiniteSet(Completing)
  BY Finite, Subsets
<1> HIDE DEF holds
<1> QED  BY <1>3, <1>4, FS_Surjection

\* No session begins to contend, and no request has counted in addition.
LEMMA FewerContend ==
    ASSUME SessionsInv, Contending' \subseteq Contending, Counted' \subseteq Counted
    PROVE  SessionsInv'
<1>1. IsFiniteSet(Contending) /\ IsFiniteSet(Counted)
  BY Finite, Subsets
<1>2. /\ Cardinality(Contending') <= Cardinality(Contending)
      /\ Cardinality(Counted') <= Cardinality(Counted)
  BY <1>1, FS_Subset
<1>3. /\ Contending' \in SUBSET Sessions /\ Counted' \in SUBSET Requests
  BY Subsets
<1>4. /\ Cardinality(Contending) \in Nat /\ Cardinality(Counted) \in Nat
      /\ Cardinality(Contending') \in Nat /\ Cardinality(Counted') \in Nat
      /\ Cardinality(Requests) \in Nat
  BY <1>3, Finite, Subsets
<1> QED  BY <1>2, <1>4, LimitAssumption DEF SessionsInv

\* Request r goes on, uncounted, with the session it held or one that is ACTIVE.
GoesOn(r) ==
    \E q \in State :
        /\ Step(r, q) /\ q.pc # "session"
        /\ q.from = None \/ q.from = request[r].from \/ q.from \in Active

\* A request that goes on so makes no session ACTIVE but the one it held.
LEMMA GoesOnKeeps ==
    ASSUME CatalogInv, SessionsInv, NEW r \in Requests, GoesOn(r),
           Active' \subseteq Active \union {request[r].from}
    PROVE  SessionsInv'
<1>1. PICK q \in State :
        /\ Step(r, q) /\ q.pc # "session"
        /\ q.from = None \/ q.from = request[r].from \/ q.from \in Active
  BY DEF GoesOn
<1>2. request'[r] = q /\ \A p \in Requests : p # r => request'[p] = request[p]
  BY <1>1 DEF Step, CatalogInv, RequestsOK
<1>3. Counted' \subseteq Counted
  BY <1>1, <1>2 DEF Counted
<1>4. Held' \subseteq Contending
  BY <1>1, <1>2, RowsAssumption DEF Held, Contending, Items
<1>5. Active' \subseteq Contending
  BY DEF Contending, Held, Active
<1>6. Contending' \subseteq Contending
  BY <1>4, <1>5 DEF Contending
<1> QED  BY <1>3, <1>6, FewerContend

LEMMA SameActive ==
    ASSUME UNCHANGED <<place, session>>
    PROVE  Active' = Active
BY DEF Active, Exists, session

LEMMA RepliesOn ==
    ASSUME NEW r \in Requests, Reply(r)
    PROVE  GoesOn(r)
<1>1. Idle \in State /\ Idle.pc # "session" /\ Idle.from = None
  BY IdleState DEF Idle
<1> QED  BY <1>1 DEF GoesOn, Reply

LEMMA GotoOn ==
    ASSUME CatalogInv, NEW r \in Requests, NEW l \in Labels \ {"session"}, Goto(r, l)
    PROVE  GoesOn(r)
<1>1. request[r] \in State
  BY DEF CatalogInv, RequestsOK
<1> QED  BY <1>1, GotoState DEF GoesOn

LEMMA OnGoesOn ==
    ASSUME CatalogInv, NEW r \in Requests, NEW l \in Labels \ {"session"},
           NEW x \in Items \union {None}, Step(r, On(request[r], l, x))
    PROVE  GoesOn(r)
<1>1. request[r] \in State
  BY DEF CatalogInv, RequestsOK
<1> QED  BY <1>1, OnState DEF GoesOn

\* Rows of folders and files are no sessions.
LEMMA OtherRow ==
    ASSUME RowsOK, NEW x \in Folders \union Files, NEW f \in Places \union {None},
           place' = [place EXCEPT ![x] = f], UNCHANGED session
    PROVE  Active' = Active
<1>1. \A s \in Sessions : place'[s] = place[s]
  BY RowsAssumption DEF RowsOK, Items
<1> QED  BY <1>1 DEF Active, Exists, session

LEMMA FewerRows ==
    ASSUME RowsOK, NEW s \in Sessions, RowGone(s)
    PROVE  Active' \subseteq Active
<1>1. \A t \in Sessions : t # s => place'[t] = place[t]
  BY DEF RowGone, RowsOK, Items
<1>2. place'[s] = None
  BY DEF RowGone, RowsOK, Items
<1>3. claimed' = claimed \ {s} /\ expired' = expired \ {s}
  BY DEF RowGone
<1> QED  BY <1>1, <1>2, <1>3 DEF Active, Exists

\* The actions that leave the rows alone, or those of sessions at least.
LEMMA OthersContend ==
    ASSUME CatalogInv, SessionsInv, NEW r \in Requests,
           \/ \E f \in Places, l \in {"folder", "save", "dedupe", "identify"},
                 i \in Identities \union {None} : Begin(r, l, f, i)
           \/ \E f \in Folders : DeleteFolder(r, f)
           \/ CreateFolder(r) \/ CountContents(r) \/ RemoveFolder(r)
           \/ Identify(r) \/ Dedupe(r) \/ \E s \in Sessions : Cancel(r, s)
           \/ Save(r) \/ Assemble(r) \/ CreateFile(r) \/ CreateFileFails(r)
    PROVE  SessionsInv'
<1>1. RowsOK /\ request[r] \in State /\ Shape(request[r])
  BY DEF CatalogInv, RequestsOK
<1>2. {"folder", "save", "dedupe", "identify", "empty", "remove", "renew", "count", "drop",
       "file", "revert", "publish"} \subseteq Labels \ {"session"}
  BY DEF Labels
<1>3. Idle \in State /\ Idle.from = None
  BY IdleState
<1>4. CASE \E f \in Places, l \in {"folder", "save", "dedupe", "identify"},
             i \in Identities \union {None} : Begin(r, l, f, i)
  <2>1. PICK f \in Places, l \in {"folder", "save", "dedupe", "identify"},
             i \in Identities \union {None} : Begin(r, l, f, i)
    BY <1>4
  <2> DEFINE q == [Idle EXCEPT !.pc = l, !.into = f, !.id = i]
  <2>2. q \in State /\ q.pc = l /\ q.from = None
    BY <1>2, <1>3 DEF State
  <2>3. Step(r, q) /\ Active' = Active
    BY <2>1, SameActive DEF Begin
  <2> HIDE DEF q
  <2>4. GoesOn(r)
    BY <2>2, <2>3 DEF GoesOn
  <2> QED  BY <2>3, <2>4, GoesOnKeeps
<1>5. CASE \E f \in Folders : DeleteFolder(r, f)
  <2>1. PICK f \in Folders : Step(r, On(Idle, "empty", f)) /\ Active' = Active
    BY <1>5, SameActive DEF DeleteFolder
  <2>2. GoesOn(r)
    <3>1. f \in Items \union {None} /\ "empty" \in Labels
      BY <1>2 DEF Items
    <3>2. /\ On(Idle, "empty", f) \in State /\ On(Idle, "empty", f).pc = "empty"
          /\ On(Idle, "empty", f).from = None
      BY <1>3, <3>1, OnState
    <3> QED  BY <2>1, <3>2 DEF GoesOn
  <2> QED  BY <2>1, <2>2, GoesOnKeeps
<1>6. CASE CreateFolder(r)
  <2>1. request[r].into \in Places \union {None} /\ Reply(r)
    BY <1>1, <1>6 DEF CreateFolder, State
  <2>2. Active' = Active
    BY <1>1, <1>6, <2>1, OtherRow, SameActive DEF CreateFolder
  <2> QED  BY <2>1, <2>2, RepliesOn, GoesOnKeeps
<1>7. CASE CountContents(r)
  <2>1. GoesOn(r)
    BY <1>2, <1>7, GotoOn, RepliesOn DEF CountContents
  <2> QED  BY <1>7, <2>1, SameActive, GoesOnKeeps DEF CountContents
<1>8. CASE RemoveFolder(r)
  <2>1. request[r].row \in Folders /\ Reply(r)
    BY <1>1, <1>8 DEF RemoveFolder, At, Shape
  <2>2. Active' = Active
    BY <1>1, <1>8, <2>1, OtherRow, SameActive DEF RemoveFolder
  <2> QED  BY <2>1, <2>2, RepliesOn, GoesOnKeeps
<1>9. CASE Identify(r)
  <2>1. GoesOn(r)
    BY <1>2, <1>9, GotoOn, RepliesOn, OnGoesOn DEF Identify, Items
  <2> QED  BY <1>9, <2>1, SameActive, GoesOnKeeps DEF Identify
<1>10. CASE Dedupe(r)
  <2>1. GoesOn(r)
    BY <1>2, <1>10, GotoOn, RepliesOn DEF Dedupe
  <2> QED  BY <1>10, <2>1, SameActive, GoesOnKeeps DEF Dedupe
<1>11. CASE \E s \in Sessions : Cancel(r, s)
  <2>1. PICK s \in Sessions : Step(r, On(Idle, "drop", s)) /\ Active' = Active
    BY <1>11, SameActive DEF Cancel
  <2>2. GoesOn(r)
    <3>1. s \in Items \union {None} /\ "drop" \in Labels
      BY <1>2 DEF Items
    <3>2. /\ On(Idle, "drop", s) \in State /\ On(Idle, "drop", s).pc = "drop"
          /\ On(Idle, "drop", s).from = None
      BY <1>3, <3>1, OnState
    <3> QED  BY <2>1, <3>2 DEF GoesOn
  <2> QED  BY <2>1, <2>2, GoesOnKeeps
<1>12. CASE Save(r) \/ Assemble(r)
  <2>1. GoesOn(r)
    BY <1>2, <1>12, GotoOn, RepliesOn, OnGoesOn DEF Save, Assemble, Items
  <2> QED  BY <1>12, <2>1, SameActive, GoesOnKeeps DEF Save, Assemble
<1>13. CASE CreateFile(r)
  <2>1. request[r].row \in Files /\ request[r].into \in Places \union {None}
    BY <1>1, <1>13 DEF CreateFile, At, Shape, State
  <2>2. Active' = Active
    BY <1>1, <1>13, <2>1, OtherRow DEF CreateFile
  <2> QED  BY <1>2, <1>13, <2>2, GotoOn, GoesOnKeeps DEF CreateFile
<1>14. CASE CreateFileFails(r)
  <2>1. GoesOn(r)
    BY <1>2, <1>14, RepliesOn, OnGoesOn DEF CreateFileFails
  <2> QED  BY <1>14, <2>1, SameActive, GoesOnKeeps DEF CreateFileFails
<1> QED  BY <1>4, <1>5, <1>6, <1>7, <1>8, <1>9, <1>10, <1>11, <1>12, <1>13, <1>14

\* The actions on sessions, other than the count and what it allows.
LEMMA SessionsContend ==
    ASSUME CatalogInv, SessionsInv, NEW r \in Requests,
           \/ Renew(r) \/ Drop(r) \/ Claim(r) \/ Publish(r) \/ Revert(r)
           \/ \E s \in Sessions : Complete(r, s)
    PROVE  SessionsInv'
<1>1. RowsOK /\ request[r] \in State /\ Shape(request[r])
  BY DEF CatalogInv, RequestsOK
<1>2. {"dedupe", "assemble"} \subseteq Labels \ {"session"} /\ "claim" \in Labels
  BY DEF Labels
<1>3. CASE Renew(r)
  <2>1. request[r].row \in Sessions
    BY <1>1, <1>3 DEF Renew, At, Shape
  <2>2. GoesOn(r)
    BY <1>2, <1>3, RepliesOn, OnGoesOn DEF Renew
  <2>3. Active' \subseteq Active
    BY <1>1, <1>3, <2>1, FewerRows, SameActive DEF Renew
  <2> QED  BY <2>2, <2>3, GoesOnKeeps
<1>4. CASE Drop(r)
  <2>1. request[r].row \in Sessions
    BY <1>1, <1>4 DEF Drop, At, Shape
  <2> QED  BY <1>1, <1>4, <2>1, FewerRows, RepliesOn, GoesOnKeeps DEF Drop
<1>5. CASE Claim(r)
  <2>1. GoesOn(r)
    BY <1>2, <1>5, RepliesOn, GotoOn DEF Claim
  <2>2. Active' \subseteq Active \union {request[r].from}
    BY <1>5 DEF Claim, Active, Exists
  <2> QED  BY <2>1, <2>2, GoesOnKeeps
<1>6. CASE Publish(r)
  <2>1. request[r].from \in Sessions \union {None}
    BY <1>1 DEF State
  <2>2. Active' \subseteq Active
    BY <1>1, <1>6, <2>1, FewerRows, SameActive DEF Publish
  <2> QED  BY <1>6, <2>2, RepliesOn, GoesOnKeeps DEF Publish
<1>7. CASE Revert(r)
  <2>1. Active' \subseteq Active \union {request[r].from}
    BY <1>7 DEF Revert, Active, Exists
  <2> QED  BY <1>7, <2>1, RepliesOn, GoesOnKeeps DEF Revert
<1>8. CASE \E s \in Sessions : Complete(r, s)
  <2>1. PICK s \in Sessions : Complete(r, s)
    BY <1>8
  <2> DEFINE q == [Idle EXCEPT !.pc = "claim", !.into = place[s], !.from = s]
  <2>2. place[s] \in Places \union {None}
    BY <1>1 DEF RowsOK, Items
  <2>3. q \in State /\ q.pc = "claim" /\ q.from = s
    BY <1>2, <2>2, IdleState DEF State
  <2>4. Step(r, q) /\ Active' = Active /\ s \in Active
    BY <2>1, SameActive DEF Complete
  <2> HIDE DEF q
  <2>5. GoesOn(r)
    BY <2>3, <2>4 DEF GoesOn
  <2> QED  BY <2>4, <2>5, GoesOnKeeps
<1> QED  BY <1>3, <1>4, <1>5, <1>6, <1>7, <1>8

\* A count that allows a session: what contends besides the ACTIVE sessions is
\* held by requests that complete one, and these have not counted.
LEMMA CountContends ==
    ASSUME CatalogInv, SessionsInv, NEW r \in Requests, CountSessions(r)
    PROVE  SessionsInv'
<1>1. request[r] \in State /\ Shape(request[r]) /\ Active' = Active
  BY SameActive DEF CatalogInv, RequestsOK, CountSessions
<1>2. CASE Reply(r)
  BY <1>1, <1>2, RepliesOn, GoesOnKeeps
<1>3. CASE Goto(r, "session") /\ Within(Active)
  <2>1. PICK q \in State : Step(r, q) /\ q.pc = "session" /\ q.from = request[r].from
    <3>1. "session" \in Labels
      BY DEF Labels
    <3> QED  BY <1>1, <1>3, <3>1, GotoState
  <2>2. request'[r] = q /\ \A p \in Requests : p # r => request'[p] = request[p]
    BY <2>1 DEF Step, CatalogInv, RequestsOK
  <2>3. request[r].from = None
    BY <1>1 DEF CountSessions, At, Shape
  <2>4. Held' = Held
    BY <2>1, <2>2 DEF Held
  <2>5. Contending' = Contending
    BY <1>1, <2>4 DEF Contending
  <2>6. Counted' \subseteq Requests \ Completing
    BY <2>1, <2>2, <2>3 DEF Counted, Completing, CatalogInv, RequestsOK, Shape
  <2>7. Cardinality(Counted') + Cardinality(Completing) <= Cardinality(Requests)
    <3>1. IsFiniteSet(Counted') /\ IsFiniteSet(Completing)
      BY <2>6, Finite, Subsets
    <3>2. Counted' \intersect Completing = {}
      BY <2>6
    <3>3. Counted' \union Completing \in SUBSET Requests
      BY <2>6, Subsets
    <3>4. Cardinality(Counted' \union Completing) <= Cardinality(Requests)
      BY <3>3, Finite
    <3>5. /\ Cardinality(Counted' \intersect Completing) = 0
          /\ Cardinality(Counted') \in Nat /\ Cardinality(Completing) \in Nat
      BY <3>1, <3>2, FS_EmptySet, FS_CardinalityType
    <3>6. Cardinality(Counted' \union Completing) =
            Cardinality(Counted') + Cardinality(Completing)
              - Cardinality(Counted' \intersect Completing)
      BY <3>1, FS_Union
    <3> QED  BY <3>4, <3>5, <3>6
  <2>8. Cardinality(Contending) <= Cardinality(Active) + Cardinality(Held)
    <3>1. /\ IsFiniteSet(Active) /\ IsFiniteSet(Held) /\ IsFiniteSet(Active \intersect Held)
          /\ Cardinality(Active) \in Nat /\ Cardinality(Held) \in Nat
          /\ Cardinality(Active \intersect Held) \in Nat
      BY Finite, Subsets
    <3>2. Cardinality(Active \union Held) =
            Cardinality(Active) + Cardinality(Held) - Cardinality(Active \intersect Held)
      BY <3>1, FS_Union
    <3> QED  BY <3>1, <3>2 DEF Contending
  <2>9. Cardinality(Held) <= Cardinality(Completing) /\ Cardinality(Active) < Limit
    BY <1>3, HeldByCompleting DEF Within
  <2>10. /\ Cardinality(Contending) \in Nat /\ Cardinality(Active) \in Nat
         /\ Cardinality(Held) \in Nat /\ Cardinality(Completing) \in Nat
         /\ Cardinality(Counted') \in Nat /\ Cardinality(Requests) \in Nat /\ Limit \in Nat
    <3>1. Counted' \in SUBSET Requests
      BY <2>6
    <3> QED  BY <3>1, Finite, Subsets, LimitAssumption
  <2>11. Cardinality(Contending) + Cardinality(Counted') < Limit + Cardinality(Requests)
    BY <2>7, <2>8, <2>9, <2>10
  <2> QED  BY <2>5, <2>11 DEF SessionsInv
<1> QED  BY <1>2, <1>3 DEF CountSessions

\* A session takes the part of the request that had counted.
LEMMA CreateContends ==
    ASSUME CatalogInv, SessionsInv, NEW r \in Requests, CreateSession(r)
    PROVE  SessionsInv'
<1>1. Reply(r) /\ r \in Counted
  BY DEF CreateSession, Counted, At
<1>2. CASE UNCHANGED <<place, session>>
  BY <1>1, <1>2, SameActive, RepliesOn, GoesOnKeeps
<1>3. CASE ~UNCHANGED <<place, session>>
  <2>1. PICK s \in Sessions : place' = [place EXCEPT ![s] = request[r].into]
    BY <1>3 DEF CreateSession, session
  <2>2. claimed' = claimed /\ expired' = expired
    BY DEF CreateSession
  <2>3. \A t \in Sessions : t # s => place'[t] = place[t]
    BY <2>1 DEF CatalogInv, RowsOK, Items
  <2>4. Active' \subseteq Active \union {s}
    BY <2>2, <2>3 DEF Active, Exists
  <2>5. request'[r] = Idle /\ \A p \in Requests : p # r => request'[p] = request[p]
    BY <1>1 DEF Reply, Step, CatalogInv, RequestsOK
  <2>6. Idle.from = None /\ Idle.pc # "session"
    BY IdleState DEF Idle
  <2>7. Held' \subseteq Held
    BY <2>5, <2>6, RowsAssumption DEF Held, Items
  <2>8. Contending' \subseteq Contending \union {s}
    BY <2>4, <2>7 DEF Contending
  <2>9. Counted' \subseteq Counted \ {r}
    BY <2>5, <2>6 DEF Counted
  <2>10. /\ IsFiniteSet(Contending) /\ IsFiniteSet(Counted)
         /\ Cardinality(Contending) \in Nat /\ Cardinality(Counted) \in Nat
         /\ Cardinality(Requests) \in Nat /\ Limit \in Nat
    BY Finite, Subsets, LimitAssumption
  <2>11. /\ IsFiniteSet(Contending \union {s}) /\ IsFiniteSet(Counted \ {r})
         /\ Cardinality(Contending \union {s}) <= Cardinality(Contending) + 1
         /\ Cardinality(Counted \ {r}) = Cardinality(Counted) - 1
    <3>1. /\ IsFiniteSet(Contending \union {s})
          /\ Cardinality(Contending \union {s}) =
               IF s \in Contending THEN Cardinality(Contending) ELSE Cardinality(Contending) + 1
      BY <2>10, FS_AddElement
    <3>2. /\ IsFiniteSet(Counted \ {r})
          /\ Cardinality(Counted \ {r}) = Cardinality(Counted) - 1
      BY <1>1, <2>10, FS_RemoveElement
    <3> QED  BY <2>10, <3>1, <3>2
  <2>12. /\ Cardinality(Contending') <= Cardinality(Contending \union {s})
         /\ Cardinality(Counted') <= Cardinality(Counted \ {r})
    BY <2>8, <2>9, <2>11, FS_Subset
  <2>13. /\ Cardinality(Contending') \in Nat /\ Cardinality(Counted') \in Nat
         /\ Cardinality(Contending \union {s}) \in Nat
    <3>1. IsFiniteSet(Contending') /\ IsFiniteSet(Counted')
      BY <2>8, <2>9, <2>11, FS_Subset
    <3> QED  BY <3>1, <2>11, FS_CardinalityType
  <2> QED  BY <2>10, <2>11, <2>12, <2>13 DEF SessionsInv
<1> QED  BY <1>2, <1>3

LEMMA SessionsInit == Init => SessionsInv
<1> SUFFICES ASSUME Init
             PROVE  SessionsInv
  OBVIOUS
<1>1. Active = {} /\ Held = {} /\ Counted = {}
  BY RowsAssumption DEF Init, Active, Held, Counted, Exists, Idle, Items
<1>2. Contending = {} /\ Cardinality({}) = 0
  BY <1>1, FS_EmptySet DEF Contending
<1> QED  BY <1>1, <1>2, Finite, LimitAssumption DEF SessionsInv

LEMMA SessionsNext == CatalogInv /\ SessionsInv /\ [Next]_vars => SessionsInv'
<1> SUFFICES ASSUME CatalogInv, SessionsInv, [Next]_vars
             PROVE  SessionsInv'
  OBVIOUS
<1>1. CASE request' = request /\ Active' \subseteq Active
  <2>1. Contending' \subseteq Contending /\ Counted' = Counted
    BY <1>1 DEF Contending, Held, Counted
  <2> QED  BY <2>1, FewerContend
<1>2. CASE \E s \in Sessions : Expire(s)
  BY <1>1, <1>2 DEF Expire, Active, Exists
<1>3. CASE \E x \in Files : DeleteFile(x)
  BY <1>1, <1>3, OtherRow DEF DeleteFile, CatalogInv
<1>4. CASE UNCHANGED vars
  BY <1>1, <1>4, SameActive DEF vars
<1>5. ASSUME NEW r \in Requests, NEW f \in Places,
             \/ Begin(r, "folder", f, None) \/ Begin(r, "save", f, None)
             \/ Begin(r, "dedupe", f, None)
             \/ \E i \in Identities : Begin(r, "identify", f, i)
      PROVE  SessionsInv'
  BY <1>5, OthersContend
<1>6. ASSUME NEW r \in Requests,
             \/ CreateFolder(r) \/ CountContents(r) \/ RemoveFolder(r)
             \/ Identify(r) \/ Dedupe(r) \/ Save(r) \/ Assemble(r)
             \/ CreateFile(r) \/ CreateFileFails(r)
             \/ \E f \in Folders : DeleteFolder(r, f)
             \/ \E s \in Sessions : Cancel(r, s)
      PROVE  SessionsInv'
  BY <1>6, OthersContend
<1>7. ASSUME NEW r \in Requests,
             \/ Renew(r) \/ Drop(r) \/ Claim(r) \/ Publish(r) \/ Revert(r)
             \/ CountSessions(r) \/ CreateSession(r)
             \/ \E s \in Sessions : Complete(r, s)
      PROVE  SessionsInv'
  BY <1>7, SessionsContend, CountContends, CreateContends
<1> QED  BY <1>2, <1>3, <1>4, <1>5, <1>6, <1>7 DEF Next

\* However the creations of sessions and the completions that fail race with the
\* count of ACTIVE sessions, for every limit and number of concurrent requests
\* the excess over the limit is less than the number of requests
\* (uploads/service.ts:63-104).
THEOREM SessionsCorrect == Spec => []SessionsBounded
<1>1. SessionsInv => SessionsBounded
  <2> SUFFICES ASSUME SessionsInv
               PROVE  SessionsBounded
    OBVIOUS
  <2>1. Cardinality(Active) <= Cardinality(Contending)
    BY Finite, Subsets, FS_Subset DEF Contending
  <2>2. /\ Cardinality(Active) \in Nat /\ Cardinality(Contending) \in Nat
        /\ Cardinality(Counted) \in Nat /\ Cardinality(Requests) \in Nat /\ Limit \in Nat
    BY Finite, Subsets, LimitAssumption
  <2> QED  BY <2>1, <2>2 DEF SessionsInv, SessionsBounded
<1> QED  BY <1>1, SessionsInit, SessionsNext, AlwaysCatalogInv, PTL DEF Spec
=============================================================================
