------------------------ MODULE UploadSessionProofs -------------------------
(***************************************************************************)
(* What holds in UploadSession for any chunks, requests and faults: its    *)
(* types, that an acknowledged chunk is on disk, that what is handed to    *)
(* replication has the right bytes, that one request at a time assembles   *)
(* and prepares, and that the session follows its lifecycle.               *)
(*                                                                         *)
(* The requests interfere through the session's row and directory only.    *)
(* Knows says what a request that has got to a label may rely on; a step   *)
(* of another request takes none of it away (OthersKnow).                  *)
(***************************************************************************)
EXTENDS UploadSession, TLAPS

Finalizing == {"assemble", "prepare", "revert"}

\* What a request in the state s knows: the chunk it saves and its bytes, that
\* its bytes are on disk, that the assembled bytes are right, that there is a
\* file to publish, that the session was claimed.
Knows(s) ==
    /\ s.pc \in {"link", "row"} => s.body # "none" /\ \E c \in Chunks : s.chunk = {c}
    /\ s.pc = "row" /\ ~wiped => \A c \in s.chunk : disk[c] = s.body
    /\ s.pc = "prepare" => s.body = "right"
    /\ s.pc = "publish" => file.status # "NONE"
    /\ s.pc \in Finalizing => session \in {"COMPLETING", "GONE"}

KnowsInv == \A r \in Requests : Knows(request[r])

UploadInv == TypeOK /\ KnowsInv /\ AcknowledgedIsOnDisk /\ PreparedIsRight /\ OneFinalizer

Rows == /\ session \in {"NONE", "ACTIVE", "COMPLETING", "GONE"}
        /\ expired \in BOOLEAN /\ wiped \in BOOLEAN
        /\ rows \in [Chunks -> Stored] /\ disk \in [Chunks -> Stored]
        /\ file \in [status: {"NONE", "PENDING", "AVAILABLE"}, bytes: Stored]

\* What one step does to the requests: r goes on in the state s.
Moved(r, s) ==
    /\ s \in RequestState /\ request' = [request EXCEPT ![r] = s]

-----------------------------------------------------------------------------
(* Types.                                                                  *)

\* An idle request is one.
LEMMA IdleType == Idle \in RequestState /\ Idle.pc = "idle"
  BY DEF Idle, RequestState, Labels, Kinds, Stored

\* The three ways of going on: to another label, to the end, to a first label.
LEMMA GotoMoves ==
  ASSUME TypeOK, NEW r \in Requests, NEW l \in Labels, Goto(r, l)
  PROVE  \E s : Moved(r, s) /\ s.pc = l /\ s.chunk = request[r].chunk /\ s.body = request[r].body
<1> DEFINE s == [request[r] EXCEPT !.pc = l]
<1>1. Moved(r, s) /\ s.pc = l /\ s.chunk = request[r].chunk /\ s.body = request[r].body
  BY DEF TypeOK, Goto, Step, Moved, RequestState
<1> HIDE DEF s
<1> QED BY <1>1

LEMMA FinishMoves ==
  ASSUME TypeOK, NEW r \in Requests, Finish(r)
  PROVE  Moved(r, Idle)
  BY IdleType DEF Finish, Step, Moved

LEMMA StartMoves ==
  ASSUME TypeOK, NEW r \in Requests, NEW k \in Kinds, NEW l \in Labels, Start(r, k, l)
  PROVE  /\ At(r, "idle") /\ Moved(r, [Idle EXCEPT !.pc = l, !.kind = k])
         /\ [Idle EXCEPT !.pc = l, !.kind = k].pc = l
<1>1. [Idle EXCEPT !.pc = l, !.kind = k] \in RequestState
  BY IdleType DEF RequestState
<1>2. [Idle EXCEPT !.pc = l, !.kind = k].pc = l
  BY IdleType DEF RequestState
<1> QED BY <1>1, <1>2 DEF Start, Step, Moved

\* A completion goes on with the bytes it has assembled, or with none.
LEMMA CarryMoves ==
  ASSUME TypeOK, NEW r \in Requests, NEW l \in Labels, NEW b \in Stored,
         Carry(r, l, b)
  PROVE  \E s : Moved(r, s) /\ s.pc = l /\ s.body = b
<1> DEFINE s == [request[r] EXCEPT !.pc = l, !.body = b]
<1>1. Moved(r, s) /\ s.pc = l /\ s.body = b
  BY DEF TypeOK, Carry, Step, Moved, RequestState
<1> HIDE DEF s
<1> QED BY <1>1

\* A chunk file is linked where there is none.
LEMMA LinkedType ==
  ASSUME TypeOK, NEW c \in Chunks, NEW b \in Stored
  PROVE  Linked(c, b) \in [Chunks -> Stored]
  BY DEF TypeOK, Linked

\* A step of a request keeps the types of the rows and of the request.
LEMMA AdvanceType ==
  ASSUME TypeOK, NEW r \in Requests, Advance(r)
  PROVE  Rows' /\ faults' \in 0..MaxFaults /\ \E s : Moved(r, s)
<1> USE DEF TypeOK, Rows, store
<1>1. faults \in 0..MaxFaults => (Fault => faults' \in 0..MaxFaults)
  BY FaultsAssumption DEF Fault
<1>2. ASSUME NEW c \in Chunks, Link(r, c)
      PROVE  Rows' /\ faults' \in 0..MaxFaults /\ \E s : Moved(r, s)
  <2>1. request[r].body \in Stored
    BY DEF RequestState
  <2>2. "row" \in Labels
    BY DEF Labels
  <2> QED BY <1>2, <2>1, <2>2, LinkedType, GotoMoves, FinishMoves DEF Link
<1>3. ASSUME NEW c \in Chunks, Row(r, c)
      PROVE  Rows' /\ faults' \in 0..MaxFaults /\ \E s : Moved(r, s)
  <2>1. request[r].body \in Stored
    BY DEF RequestState
  <2> QED BY <1>3, <2>1, FinishMoves DEF Row
<1>4. CASE LinkFails(r)
  BY <1>4, FinishMoves DEF LinkFails
<1>5. CASE Exist(r)
  BY <1>5, GotoMoves, FinishMoves DEF Exist, Labels
<1>6. CASE Claim(r)
  BY <1>6, GotoMoves, FinishMoves DEF Claim, Labels
<1>7. CASE Assemble(r)
  <2>1. CASE Assembles
    <3>1. "prepare" \in Labels /\ {"wrong", "right"} \subseteq Stored
      BY DEF Labels, Stored
    <3>2. PICK b \in Stored : Carry(r, "prepare", b)
      BY <1>7, <2>1, <3>1 DEF Assemble
    <3>3. \E s : Moved(r, s)
      BY <3>1, <3>2, CarryMoves
    <3> QED BY <1>7, <3>3 DEF Assemble
  <2>2. CASE ~Assembles
    BY <1>7, <2>2, GotoMoves DEF Assemble, Labels
  <2> QED BY <2>1, <2>2
<1>8. CASE Prepare(r)
  <2>1. CASE Exists /\ file.status = "NONE"
    <3>1. "publish" \in Labels /\ "none" \in Stored /\ request[r].body \in Stored
      BY DEF Labels, Stored, RequestState
    <3>2. Rows' /\ faults' \in 0..MaxFaults
      BY <1>8, <2>1, <3>1 DEF Prepare, RequestState
    <3>3. \E s : Moved(r, s)
      BY <1>8, <2>1, <3>1, CarryMoves DEF Prepare
    <3> QED BY <3>2, <3>3
  <2>2. CASE ~(Exists /\ file.status = "NONE")
    BY <1>8, <2>2, GotoMoves DEF Prepare, Labels
  <2> QED BY <2>1, <2>2
<1>9. CASE PrepareFails(r)
  BY <1>1, <1>9, GotoMoves DEF PrepareFails, Labels
<1>10. CASE Revert(r)
  BY <1>10, FinishMoves DEF Revert
<1>11. CASE Publish(r)
  BY <1>11, GotoMoves, FinishMoves DEF Publish, Labels
<1>12. CASE Unsession(r)
  BY <1>12, GotoMoves DEF Unsession, Labels, Empty, Stored
<1>13. CASE Undisk(r)
  BY <1>13, FinishMoves DEF Undisk, Empty, Stored
<1>14. CASE RemoveDirectory(r)
  BY <1>14, GotoMoves DEF RemoveDirectory, Labels, Empty, Stored
<1>15. CASE RemoveRow(r)
  BY <1>15, FinishMoves DEF RemoveRow, Empty, Stored
<1> QED BY <1>2, <1>3, <1>4, <1>5, <1>6, <1>7, <1>8, <1>9, <1>10, <1>11, <1>12, <1>13, <1>14,
           <1>15 DEF Advance
\* A request that moves on leaves the other requests as they are.
LEMMA MovedType ==
  ASSUME TypeOK, NEW r \in Requests, NEW s, Moved(r, s)
  PROVE  /\ request' \in [Requests -> RequestState] /\ request'[r] = s
         /\ \A q \in Requests : q # r => request'[q] = request[q]
  BY DEF TypeOK, Moved

\* A request that starts has read the rows and changes nothing yet.
LEMMA SaveMoves ==
  ASSUME TypeOK, NEW r \in Requests, NEW c \in Chunks, NEW b \in Bodies, Save(r, c, b)
  PROVE  /\ Moved(r, [pc |-> "link", kind |-> "save", chunk |-> {c}, body |-> b])
         /\ b # "none"
<1>1. b \in Stored /\ b # "none"
  BY BodiesAssumption DEF Stored
<1> QED BY <1>1 DEF Save, Step, Moved, RequestState, Labels, Kinds

\* A crash leaves one request at most, which publishes the file.
LEMMA CrashType ==
  ASSUME TypeOK, NEW r \in Requests, Crash(r)
  PROVE  /\ request' \in [Requests -> RequestState] /\ faults' \in 0..MaxFaults
         /\ \A q \in Requests : \/ request'[q] = Idle
                                \/ request'[q].pc = "publish" /\ file.status # "NONE"
<1>1. [Idle EXCEPT !.pc = "publish", !.kind = "complete"] \in RequestState
      /\ [Idle EXCEPT !.pc = "publish", !.kind = "complete"].pc = "publish"
  BY IdleType DEF RequestState, Labels, Kinds
<1>2. faults' \in 0..MaxFaults
  BY FaultsAssumption DEF Crash, Fault, TypeOK
<1> DEFINE t == [Idle EXCEPT !.pc = "publish", !.kind = "complete"]
<1>3. request' = IF file.status = "PENDING"
                 THEN [[q \in Requests |-> Idle] EXCEPT ![r] = t] ELSE [q \in Requests |-> Idle]
  BY DEF Crash
<1> HIDE DEF t
<1>4. t \in RequestState /\ t.pc = "publish"
  BY <1>1 DEF t
<1> QED BY <1>2, <1>3, <1>4, IdleType

\* What a program starts with has the types.
LEMMA InitType == Init => TypeOK
<1>1. 0 \in 0..MaxFaults
  BY FaultsAssumption
<1>2. Empty \in [Chunks -> Stored]
  BY DEF Empty, Stored
<1>3. [status |-> "NONE", bytes |-> "none"] \in
        [status: {"NONE", "PENDING", "AVAILABLE"}, bytes: Stored]
  BY DEF Stored
<1>4. [r \in Requests |-> Idle] \in [Requests -> RequestState]
  BY IdleType
<1> QED BY <1>1, <1>2, <1>3, <1>4 DEF Init, TypeOK

\* Every step keeps the types.
LEMMA NextType ==
  ASSUME TypeOK, [Next]_vars
  PROVE  TypeOK'
<1> USE DEF store
<1>1. CASE UNCHANGED vars
  BY <1>1 DEF vars, TypeOK
<1>2. CASE Create \/ Expire
  BY <1>2 DEF Create, Expire, TypeOK
<1>3. ASSUME NEW r \in Requests, NEW c \in Chunks, NEW b \in Bodies, Save(r, c, b) PROVE TypeOK'
  BY <1>3, SaveMoves, MovedType DEF Save, TypeOK
<1>4. ASSUME NEW r \in Requests, Complete(r) \/ Retry(r) \/ Cancel(r) \/ Cleanup(r) \/ Renew(r)
      PROVE  TypeOK'
  <2>1. {"exist", "publish", "rmdir"} \subseteq Labels
        /\ {"complete", "cancel", "cleanup", "renew"} \subseteq Kinds
    BY DEF Labels, Kinds
  <2>2. \E s : Moved(r, s)
    BY <1>4, <2>1, StartMoves DEF Complete, Retry, Cancel, Cleanup, Renew
  <2>3. UNCHANGED <<store, faults>>
    BY <1>4 DEF Complete, Retry, Cancel, Cleanup, Renew
  <2> QED BY <2>2, <2>3, MovedType DEF TypeOK
<1>5. ASSUME NEW r \in Requests, Crash(r) PROVE TypeOK'
  BY <1>5, CrashType DEF Crash, TypeOK
<1>6. ASSUME NEW r \in Requests, Advance(r) PROVE TypeOK'
  BY <1>6, AdvanceType, MovedType DEF Rows, TypeOK
<1> QED BY <1>1, <1>2, <1>3, <1>4, <1>5, <1>6 DEF Next

\* The coordinator's rows, files and requests keep their types, whatever the
\* requests on a session do at the same time.
THEOREM TypeCorrect == Spec => []TypeOK
<1> QED BY InitType, NextType, PTL DEF Spec

-----------------------------------------------------------------------------
(* What the requests know.                                                 *)

Claimed == session \in {"COMPLETING", "GONE"}

\* A step takes no bytes and no file away, other than with the directory.
Keeps ==
    /\ wiped => wiped'
    /\ wiped' \/ \A c \in Chunks : disk[c] # "none" => disk'[c] = disk[c]
    /\ file.status # "NONE" => file'.status # "NONE"

\* A step that keeps that takes nothing away from what a request knows, except
\* that it was the one to claim the session.
LEMMA OthersKnow ==
  ASSUME TypeOK, NEW s \in RequestState, Knows(s), Keeps,
         s.pc \in Finalizing => (Claimed => Claimed')
  PROVE  Knows(s)'
  BY DEF Knows, Keeps, Claimed, RequestState

\* A request moves on: it knows what it should, and takes nothing away.
LEMMA MovedKnows ==
  ASSUME UploadInv, NEW r \in Requests, NEW s, Moved(r, s), Keeps, Knows(s)',
         Working(r) \/ (Claimed => Claimed'),
         s.pc \in Finalizing => Working(r) \/ ~Claimed
  PROVE  KnowsInv' /\ OneFinalizer'
<1>1. \A q \in Requests : Working(q) <=> request[q].pc \in Finalizing
  BY DEF Working, Finalizing
<1>2. \A q \in Requests : Working(q)' <=> request'[q].pc \in Finalizing
  BY DEF Working, Finalizing
<1>3. \A q \in Requests : Working(q) => Claimed
  BY <1>1 DEF UploadInv, KnowsInv, Knows, Claimed
<1>4. request'[r] = s /\ \A q \in Requests : q # r => request'[q] = request[q]
  BY MovedType DEF UploadInv
<1>5. KnowsInv'
  <2> SUFFICES ASSUME NEW q \in Requests PROVE Knows(request[q])'
    BY DEF KnowsInv
  <2>1. CASE q = r
    BY <1>4, <2>1 DEF Knows
  <2>2. CASE q # r
    <3>1. PICK t \in RequestState : t = request[q]
      BY DEF UploadInv, TypeOK
    <3>2. Knows(t)
      BY <3>1 DEF UploadInv, KnowsInv
    <3>3. t.pc \in Finalizing => (Claimed => Claimed')
      BY <1>1, <2>2, <3>1 DEF UploadInv, OneFinalizer
    <3>4. Knows(t)'
      BY <3>2, <3>3, OthersKnow DEF UploadInv
    <3> QED BY <1>4, <2>2, <3>1, <3>4 DEF Knows
  <2> QED BY <2>1, <2>2
<1>6. OneFinalizer'
  BY <1>1, <1>2, <1>3, <1>4 DEF UploadInv, OneFinalizer
<1> QED BY <1>5, <1>6
\* A request that ends, and one that goes on to a label that asks for nothing
\* but the claim.
LEMMA FinishKnows ==
  ASSUME UploadInv, NEW r \in Requests, Finish(r), Keeps, Working(r) \/ (Claimed => Claimed')
  PROVE  KnowsInv' /\ OneFinalizer'
<1>1. Moved(r, Idle)
  BY FinishMoves DEF UploadInv
<1>2. Knows(Idle)' /\ Idle.pc \notin Finalizing
  BY IdleType DEF Knows, Finalizing
<1> QED BY <1>1, <1>2, MovedKnows

LEMMA GotoKnows ==
  ASSUME UploadInv, NEW r \in Requests, NEW l \in Labels \ {"link", "row", "prepare", "publish"},
         Goto(r, l), Keeps, Working(r) \/ (Claimed => Claimed'),
         l \in Finalizing => Claimed' /\ (Working(r) \/ ~Claimed)
  PROVE  KnowsInv' /\ OneFinalizer'
<1>1. PICK s : Moved(r, s) /\ s.pc = l
  BY GotoMoves DEF UploadInv
<1>2. Knows(s)'
  BY <1>1 DEF Knows, Claimed
<1> QED BY <1>1, <1>2, MovedKnows

\* What each label asks of a request that arrives there.
LEMMA AdvanceKnows ==
  ASSUME UploadInv, NEW r \in Requests, Advance(r)
  PROVE  KnowsInv' /\ OneFinalizer'
<1>1. TypeOK /\ Knows(request[r]) /\ request[r] \in RequestState
  BY DEF UploadInv, KnowsInv, TypeOK
<1>2. UNCHANGED store => Keeps /\ (Claimed' <=> Claimed)
  BY DEF store, Keeps, Claimed
<1>3. ASSUME NEW c \in Chunks, Link(r, c) PROVE KnowsInv' /\ OneFinalizer'
  <2>1. Keeps
    BY <1>3 DEF Link, Linked, Keeps
  <2>2. Claimed' <=> Claimed
    BY <1>3 DEF Link, Claimed
  <2>3. request[r].body # "none" /\ request[r].chunk = {c}
    BY <1>1, <1>3 DEF Link, At, Knows
  <2>4. CASE disk'[c] = request[r].body
    <3>1. PICK s : /\ Moved(r, s) /\ s.pc = "row"
                   /\ s.chunk = request[r].chunk /\ s.body = request[r].body
      BY <1>1, <1>3, <2>4, GotoMoves DEF Link, Labels
    <3>2. Knows(s)'
      BY <2>3, <2>4, <3>1 DEF Knows, Finalizing
    <3> QED BY <2>1, <2>2, <3>1, <3>2, MovedKnows DEF Finalizing
  <2>5. CASE disk'[c] # request[r].body
    BY <1>3, <2>1, <2>2, <2>5, FinishKnows DEF Link
  <2> QED BY <2>4, <2>5
<1>4. ASSUME NEW c \in Chunks, Row(r, c) PROVE KnowsInv' /\ OneFinalizer'
  BY <1>4, FinishKnows DEF Row, Keeps, Claimed
<1>5. CASE LinkFails(r)
  BY <1>2, <1>5, FinishKnows DEF LinkFails
<1>6. CASE Exist(r)
  BY <1>2, <1>6, FinishKnows, GotoKnows DEF Exist, Labels, Finalizing
<1>7. CASE Claim(r)
  <2>1. Keeps /\ (Claimed => Claimed')
    BY <1>7 DEF Claim, Claimable, Keeps, Claimed
  <2>2. CASE Claimable
    <3>1. Goto(r, "assemble") /\ Claimed' /\ ~Claimed
      BY <1>7, <2>2 DEF Claim, Claimable, Claimed
    <3> QED BY <2>1, <3>1, GotoKnows DEF Labels
  <2>3. CASE ~Claimable
    BY <1>7, <2>1, <2>3, FinishKnows DEF Claim
  <2> QED BY <2>2, <2>3
<1>8. CASE Assemble(r)
  <2>1. Keeps /\ Working(r) /\ Claimed'
    BY <1>1, <1>2, <1>8 DEF Assemble, At, Working, Knows, Claimed, Finalizing
  <2>2. CASE Assembles
    <3>1. Carry(r, "prepare", "right") /\ "prepare" \in Labels /\ "right" \in Stored
      <4>1. ~ \E c \in Chunks : disk[c] = "wrong"
        BY <2>2 DEF Assembles
      <4> QED BY <1>8, <2>2, <4>1 DEF Assemble, Labels, Stored
    <3>2. PICK s : Moved(r, s) /\ s.pc = "prepare" /\ s.body = "right"
      BY <1>1, <3>1, CarryMoves
    <3>3. Knows(s)'
      BY <2>1, <3>2 DEF Knows, Claimed
    <3> QED BY <2>1, <3>2, <3>3, MovedKnows
  <2>3. CASE ~Assembles
    BY <1>8, <2>1, <2>3, GotoKnows DEF Assemble, Labels
  <2> QED BY <2>2, <2>3
<1>9. CASE Prepare(r)
  <2>1. Keeps /\ Working(r) /\ Claimed'
    BY <1>1, <1>9 DEF Prepare, At, Working, Knows, Claimed, Finalizing, Keeps, TypeOK
  <2>2. CASE Exists /\ file.status = "NONE"
    <3>1. /\ Carry(r, "publish", "none") /\ "publish" \in Labels /\ "none" \in Stored
          /\ file'.status = "PENDING"
      BY <1>9, <2>2 DEF Prepare, Labels, Stored
    <3>2. PICK s : Moved(r, s) /\ s.pc = "publish"
      BY <1>1, <3>1, CarryMoves
    <3>3. Knows(s)'
      BY <3>1, <3>2 DEF Knows, Finalizing
    <3> QED BY <2>1, <3>2, <3>3, MovedKnows
  <2>3. CASE ~(Exists /\ file.status = "NONE")
    BY <1>9, <2>1, <2>3, GotoKnows DEF Prepare, Labels
  <2> QED BY <2>2, <2>3
<1>10. CASE PrepareFails(r)
  <2>1. Keeps /\ Working(r) /\ Claimed'
    BY <1>1, <1>2, <1>10 DEF PrepareFails, At, Working, Knows, Claimed, Finalizing
  <2> QED BY <1>10, <2>1, GotoKnows DEF PrepareFails, Labels
<1>11. CASE Revert(r)
  <2>1. Keeps /\ Working(r) /\ Finish(r)
    BY <1>11 DEF Revert, At, Working, Keeps
  <2> QED BY <2>1, FinishKnows
<1>12. CASE Publish(r)
  <2>1. Keeps /\ (Claimed' <=> Claimed)
    BY <1>1, <1>12 DEF Publish, At, Knows, Keeps, Claimed, TypeOK
  <2> QED BY <1>12, <2>1, FinishKnows, GotoKnows DEF Publish, Labels, Finalizing
<1>13. CASE Unsession(r)
  BY <1>13, GotoKnows DEF Unsession, Keeps, Claimed, Labels, Finalizing
<1>14. CASE Undisk(r)
  BY <1>14, FinishKnows DEF Undisk, Keeps, Claimed
<1>15. CASE RemoveDirectory(r)
  BY <1>15, GotoKnows DEF RemoveDirectory, Keeps, Claimed, Labels, Finalizing
<1>16. CASE RemoveRow(r)
  BY <1>16, FinishKnows DEF RemoveRow, Keeps, Claimed
<1> QED BY <1>3, <1>4, <1>5, <1>6, <1>7, <1>8, <1>9, <1>10, <1>11, <1>12, <1>13, <1>14, <1>15,
           <1>16 DEF Advance

-----------------------------------------------------------------------------
(* What is acknowledged, and what is prepared.                             *)

\* A row is written for bytes that are on disk, and no bytes are replaced.
LEMMA AdvanceAcknowledged ==
  ASSUME UploadInv, NEW r \in Requests, Advance(r)
  PROVE  AcknowledgedIsOnDisk'
<1> USE DEF AcknowledgedIsOnDisk, TypeOK
<1>1. TypeOK /\ AcknowledgedIsOnDisk /\ Knows(request[r])
  BY DEF UploadInv, KnowsInv
<1>2. ASSUME NEW c \in Chunks, Link(r, c) PROVE AcknowledgedIsOnDisk'
  BY <1>1, <1>2 DEF Link, Linked
<1>3. ASSUME NEW c \in Chunks, Row(r, c) PROVE AcknowledgedIsOnDisk'
  BY <1>1, <1>3 DEF Row, At, Knows
<1>4. CASE LinkFails(r) \/ Exist(r) \/ Assemble(r) \/ PrepareFails(r)
  BY <1>1, <1>4 DEF LinkFails, Exist, Assemble, PrepareFails, store
<1>5. CASE Claim(r) \/ Prepare(r) \/ Revert(r) \/ Publish(r)
  BY <1>1, <1>5 DEF Claim, Prepare, Revert, Publish
<1>6. CASE Unsession(r) \/ RemoveRow(r)
  BY <1>1, <1>6 DEF Unsession, RemoveRow, Empty
<1>7. CASE Undisk(r) \/ RemoveDirectory(r)
  BY <1>1, <1>7 DEF Undisk, RemoveDirectory
<1> QED BY <1>2, <1>3, <1>4, <1>5, <1>6, <1>7 DEF Advance

\* The file is made once, of the bytes that passed the comparison.
LEMMA AdvancePrepared ==
  ASSUME UploadInv, NEW r \in Requests, Advance(r)
  PROVE  PreparedIsRight'
<1> USE DEF PreparedIsRight, TypeOK
<1>1. TypeOK /\ PreparedIsRight /\ Knows(request[r])
  BY DEF UploadInv, KnowsInv
<1>2. CASE Prepare(r)
  BY <1>1, <1>2 DEF Prepare, At, Knows
<1>3. CASE Publish(r)
  BY <1>1, <1>3 DEF Publish, At, Knows
<1>4. CASE UNCHANGED file
  BY <1>1, <1>4
<1>5. ASSUME NEW c \in Chunks, Link(r, c) \/ Row(r, c) PROVE UNCHANGED file
  BY <1>5 DEF Link, Row
<1>6. CASE \/ LinkFails(r) \/ Exist(r) \/ Claim(r) \/ Assemble(r) \/ PrepareFails(r) \/ Revert(r)
           \/ Unsession(r) \/ Undisk(r) \/ RemoveDirectory(r) \/ RemoveRow(r)
  BY <1>4, <1>6 DEF LinkFails, Exist, Claim, Assemble, PrepareFails, Revert, Unsession, Undisk,
                    RemoveDirectory, RemoveRow, store
<1> QED BY <1>2, <1>3, <1>4, <1>5, <1>6 DEF Advance

-----------------------------------------------------------------------------
(* The invariant.                                                          *)

\* A request that starts changes no row and no file; it knows what it read.
LEMMA StartKnows ==
  ASSUME UploadInv, NEW r \in Requests,
         \/ \E c \in Chunks, b \in Bodies : Save(r, c, b)
         \/ Complete(r) \/ Retry(r) \/ Cancel(r) \/ Cleanup(r) \/ Renew(r)
  PROVE  UNCHANGED store /\ KnowsInv' /\ OneFinalizer'
<1>1. UNCHANGED store
  BY DEF Save, Complete, Retry, Cancel, Cleanup, Renew
<1>2. Keeps /\ (Claimed => Claimed') /\ TypeOK
  BY <1>1 DEF store, Keeps, Claimed, UploadInv
<1>3. ASSUME NEW c \in Chunks, NEW b \in Bodies, Save(r, c, b) PROVE KnowsInv' /\ OneFinalizer'
  <2>1. PICK s : /\ Moved(r, s) /\ b # "none"
                 /\ s = [pc |-> "link", kind |-> "save", chunk |-> {c}, body |-> b]
    BY <1>2, <1>3, SaveMoves
  <2>2. Knows(s)' /\ s.pc \notin Finalizing
    BY <2>1 DEF Knows, Finalizing
  <2> QED BY <1>2, <2>1, <2>2, MovedKnows
<1>4. ASSUME NEW k \in Kinds, NEW l \in Labels, l \notin {"link", "row"} \union Finalizing,
             l = "publish" => file.status # "NONE", Start(r, k, l)
      PROVE  KnowsInv' /\ OneFinalizer'
  <2>1. PICK s : Moved(r, s) /\ s.pc = l
    BY <1>2, <1>4, StartMoves
  <2>2. Knows(s)' /\ s.pc \notin Finalizing
    BY <1>1, <1>4, <2>1 DEF Knows, Finalizing, store
  <2> QED BY <1>2, <2>1, <2>2, MovedKnows
<1>5. CASE Complete(r) \/ Retry(r) \/ Cancel(r) \/ Cleanup(r) \/ Renew(r)
  <2>1. \E k \in Kinds, l \in {"exist", "publish", "rmdir"} :
           Start(r, k, l) /\ (l = "publish" => file.status # "NONE")
    BY <1>5 DEF Complete, Retry, Cancel, Cleanup, Renew, Kinds
  <2>2. PICK k \in Kinds, l \in {"exist", "publish", "rmdir"} :
           Start(r, k, l) /\ (l = "publish" => file.status # "NONE")
    BY <2>1
  <2>3. l \in Labels /\ l \notin {"link", "row"} \union Finalizing
    BY DEF Labels, Finalizing
  <2> QED BY <1>1, <1>4, <2>2, <2>3
<1> QED BY <1>1, <1>3, <1>5

\* Every step keeps the invariant.
LEMMA NextUpload ==
  ASSUME UploadInv, [Next]_vars
  PROVE  UploadInv'
<1>1. TypeOK'
  BY NextType DEF UploadInv
<1>2. CASE UNCHANGED vars
  BY <1>1, <1>2 DEF vars, UploadInv, KnowsInv, Knows, AcknowledgedIsOnDisk, PreparedIsRight,
                    OneFinalizer, Working
<1>3. CASE Create \/ Expire
  <2>1. UNCHANGED <<rows, disk, file, wiped, request>> /\ (Claimed => Claimed')
    BY <1>3 DEF Create, Expire, Claimed
  <2> QED BY <1>1, <2>1 DEF UploadInv, KnowsInv, Knows, AcknowledgedIsOnDisk, PreparedIsRight,
                    OneFinalizer, Working, Claimed
<1>4. ASSUME NEW r \in Requests,
             \/ \E c \in Chunks, b \in Bodies : Save(r, c, b)
             \/ Complete(r) \/ Retry(r) \/ Cancel(r) \/ Cleanup(r) \/ Renew(r)
      PROVE  UploadInv'
  BY <1>1, <1>4, StartKnows DEF UploadInv, AcknowledgedIsOnDisk, PreparedIsRight, store
<1>5. ASSUME NEW r \in Requests, Crash(r) PROVE UploadInv'
  <2>1. UNCHANGED store
    BY <1>5 DEF Crash
  <2>2. \A q \in Requests : \/ request'[q] = Idle
                            \/ request'[q].pc = "publish" /\ file.status # "NONE"
    BY <1>5, CrashType DEF UploadInv
  <2>3. KnowsInv' /\ OneFinalizer'
    BY <2>1, <2>2, IdleType DEF KnowsInv, Knows, Finalizing, OneFinalizer, Working, store
  <2> QED BY <1>1, <2>1, <2>3 DEF UploadInv, AcknowledgedIsOnDisk, PreparedIsRight, store
<1>6. ASSUME NEW r \in Requests, Advance(r) PROVE UploadInv'
  BY <1>1, <1>6, AdvanceKnows, AdvanceAcknowledged, AdvancePrepared DEF UploadInv
<1> QED BY <1>2, <1>3, <1>4, <1>5, <1>6 DEF Next

\* At the start nothing is known.
LEMMA InitUpload == Init => UploadInv
<1> SUFFICES ASSUME Init PROVE UploadInv
  OBVIOUS
<1>1. TypeOK
  BY InitType
<1> QED BY <1>1, IdleType DEF Init, UploadInv, KnowsInv, Knows, Finalizing, OneFinalizer,
            Working, AcknowledgedIsOnDisk, PreparedIsRight, Empty

\* What the requests know holds throughout, over any number of concurrent saves,
\* completions, cancellations, cleanups and crashes.
THEOREM UploadInvariant == Spec => []UploadInv
<1> QED BY InitUpload, NextUpload, PTL DEF Spec

\* saveChunk acknowledges a chunk only with its bytes on disk, also when clients
\* race with different bytes for it, until the session's directory is deleted.
THEOREM AcknowledgedCorrect == Spec => []AcknowledgedIsOnDisk
BY UploadInvariant, PTL DEF UploadInv

\* complete hands to prepareFile only bytes with the SHA-256 of the session,
\* whatever is cancelled, renewed, reverted and retried at the same time.
THEOREM PreparedCorrect == Spec => []PreparedIsRight
BY UploadInvariant, PTL DEF UploadInv

\* The conditional update in complete lets one request at a time assemble.
THEOREM FinalizerCorrect == Spec => []OneFinalizer
BY UploadInvariant, PTL DEF UploadInv

-----------------------------------------------------------------------------
(* The lifecycle that the clients see.                                     *)

HasAll == \A c \in Chunks : rows[c] # "none"

\* What the session is to a request that completes it: it exists, with all its
\* chunks, unless it is gone; it has no file before one is prepared, and has
\* one when it is put to its end.
Sees(s) ==
    /\ s.pc \in {"exist", "claim"} \union Finalizing =>
          session # "NONE" /\ (session # "GONE" => HasAll)
    /\ s.pc \in Finalizing => file.status = "NONE"
    /\ s.pc = "unsession" => file.status # "NONE"

\* Chunks are acknowledged only to a session that exists, a session is claimed
\* with all its chunks, and has its file only then.
LifeInv ==
    /\ session \in {"NONE", "GONE"} => rows = Empty
    /\ session = "COMPLETING" => HasAll
    /\ file.status # "NONE" => Claimed

SessionInv == UploadInv /\ LifeInv /\ \A r \in Requests : Sees(request[r])

\* A step of the lifecycle keeps what a session has until it is gone.
Lasts ==
    /\ session # "NONE" => session' # "NONE"
    /\ session = "GONE" => session' = "GONE"
    /\ session' # "GONE" /\ HasAll => HasAll'
    /\ file.status # "NONE" => file'.status # "NONE"

LifeStep == [Lifecycle!Next]_(Lifecycle!vars)

\* The lifecycle's names for what the coordinator stores.
LEMMA PhaseIs ==
  ASSUME TypeOK
  PROVE  /\ Phase = "NONE" <=> session = "NONE"
         /\ Phase = "OPEN" <=> session = "ACTIVE"
         /\ Phase = "FINALIZING" <=> session = "COMPLETING"
         /\ Phase = "CLOSED" <=> session = "GONE"
  BY DEF TypeOK, Phase

LEMMA NothingIs == Lifecycle!Nothing = Empty
  BY DEF Lifecycle!Nothing, Empty

\* What holds of every lifecycle.
LEMMA LifecycleKeeps ==
  ASSUME TypeOK, TypeOK', LifeInv, LifeStep
  PROVE  LifeInv' /\ Lasts
<1> USE DEF LifeInv, Lasts, HasAll, Claimed, TypeOK
<1>1. /\ Phase' = "NONE" <=> session' = "NONE"
      /\ Phase' = "OPEN" <=> session' = "ACTIVE"
      /\ Phase' = "FINALIZING" <=> session' = "COMPLETING"
      /\ Phase' = "CLOSED" <=> session' = "GONE"
  BY DEF Phase
<1>2. /\ Phase = "NONE" <=> session = "NONE"
      /\ Phase = "OPEN" <=> session = "ACTIVE"
      /\ Phase = "FINALIZING" <=> session = "COMPLETING"
      /\ Phase = "CLOSED" <=> session = "GONE"
  BY PhaseIs
<1>3. CASE UNCHANGED Lifecycle!vars
  BY <1>1, <1>2, <1>3 DEF Lifecycle!vars
<1>4. CASE Lifecycle!Open \/ Lifecycle!Finalize \/ Lifecycle!GiveUp
  BY <1>1, <1>2, <1>4 DEF Lifecycle!Open, Lifecycle!Finalize, Lifecycle!GiveUp
<1>5. CASE Lifecycle!Make \/ Lifecycle!Publish
  BY <1>1, <1>2, <1>5 DEF Lifecycle!Make, Lifecycle!Publish
<1>6. CASE Lifecycle!Close
  BY <1>1, <1>2, <1>6, NothingIs DEF Lifecycle!Close
<1>7. ASSUME NEW c \in Chunks, NEW b \in {"right", "wrong"}, Lifecycle!Accept(c, b)
      PROVE  LifeInv' /\ Lasts
  BY <1>1, <1>2, <1>7 DEF Lifecycle!Accept
<1> QED
  BY <1>3, <1>4, <1>5, <1>6, <1>7 DEF LifeStep, Lifecycle!Next

\* A step that changes nothing a client sees.
LEMMA Stutters ==
  ASSUME UNCHANGED <<session, rows>>, UNCHANGED file.status
  PROVE  LifeStep
  BY DEF LifeStep, Lifecycle!vars, Phase

\* Every step of a request is a step of the lifecycle, or none.
LEMMA AdvanceLives ==
  ASSUME SessionInv, NEW r \in Requests, Advance(r), TypeOK'
  PROVE  LifeStep
<1>1. /\ TypeOK /\ LifeInv /\ Knows(request[r]) /\ Sees(request[r])
      /\ request[r] \in RequestState
  BY DEF SessionInv, UploadInv, KnowsInv, TypeOK
<1>2. /\ Phase = "NONE" <=> session = "NONE"
      /\ Phase = "OPEN" <=> session = "ACTIVE"
      /\ Phase = "FINALIZING" <=> session = "COMPLETING"
      /\ Phase = "CLOSED" <=> session = "GONE"
  BY <1>1, PhaseIs
<1>3. /\ Phase' = "OPEN" <=> session' = "ACTIVE"
      /\ Phase' = "FINALIZING" <=> session' = "COMPLETING"
      /\ Phase' = "CLOSED" <=> session' = "GONE"
      /\ session' = session => Phase' = Phase
  BY DEF Phase, TypeOK
<1>4. ASSUME NEW c \in Chunks, Link(r, c) PROVE LifeStep
  BY <1>4, Stutters DEF Link
<1>5. CASE \/ LinkFails(r) \/ Exist(r) \/ Assemble(r) \/ PrepareFails(r) \/ Undisk(r)
           \/ RemoveDirectory(r)
  BY <1>5, Stutters DEF LinkFails, Exist, Assemble, PrepareFails, Undisk, RemoveDirectory, store
<1>6. ASSUME NEW c \in Chunks, Row(r, c) PROVE LifeStep
  <2>1. CASE Exists /\ rows[c] = "none"
    <3>1. request[r].body \in {"right", "wrong"}
      BY <1>1, <1>6 DEF Row, At, Knows, RequestState, Stored
    <3>2. session = "ACTIVE"
      BY <1>1, <2>1 DEF Exists, LifeInv, HasAll
    <3>3. Lifecycle!Accept(c, request[r].body)
      BY <1>2, <1>3, <1>6, <2>1, <3>2 DEF Row, Lifecycle!Accept
    <3> QED
      BY <3>1, <3>3 DEF LifeStep, Lifecycle!Next
  <2>2. CASE ~(Exists /\ rows[c] = "none")
    BY <1>6, <2>2, Stutters DEF Row
  <2> QED
    BY <2>1, <2>2
<1>7. CASE Claim(r)
  <2>1. CASE Claimable
    <3>1. HasAll
      BY <1>1, <1>7, <2>1 DEF Claim, Claimable, At, Sees
    <3>2. Lifecycle!Finalize
      BY <1>2, <1>3, <1>7, <2>1, <3>1 DEF Claim, Claimable, HasAll, Lifecycle!Finalize
    <3> QED
      BY <3>2 DEF LifeStep, Lifecycle!Next
  <2>2. CASE ~Claimable
    BY <1>7, <2>2, Stutters DEF Claim
  <2> QED
    BY <2>1, <2>2
<1>8. CASE Prepare(r)
  <2>1. CASE Exists /\ file.status = "NONE"
    <3>1. session = "COMPLETING"
      BY <1>1, <1>8, <2>1 DEF Prepare, At, Exists, Knows, Finalizing
    <3>2. Lifecycle!Make
      BY <1>2, <1>3, <1>8, <2>1, <3>1 DEF Prepare, Lifecycle!Make
    <3> QED
      BY <3>2 DEF LifeStep, Lifecycle!Next
  <2>2. CASE ~(Exists /\ file.status = "NONE")
    BY <1>8, <2>2, Stutters DEF Prepare
  <2> QED
    BY <2>1, <2>2
<1>9. CASE Revert(r)
  <2>1. CASE session = "COMPLETING"
    <3>1. file.status = "NONE"
      BY <1>1, <1>9 DEF Revert, At, Sees, Finalizing
    <3>2. Lifecycle!GiveUp
      BY <1>2, <1>3, <1>9, <2>1, <3>1 DEF Revert, Lifecycle!GiveUp
    <3> QED
      BY <3>2 DEF LifeStep, Lifecycle!Next
  <2>2. CASE session # "COMPLETING"
    BY <1>9, <2>2, Stutters DEF Revert
  <2> QED
    BY <2>1, <2>2
<1>10. CASE Publish(r)
  <2>1. CASE file.status = "PENDING" /\ file' = [file EXCEPT !.status = "AVAILABLE"]
    <3>1. Lifecycle!Publish
      BY <1>1, <1>3, <1>10, <2>1 DEF Publish, TypeOK, Lifecycle!Publish
    <3> QED
      BY <3>1 DEF LifeStep, Lifecycle!Next
  <2>2. CASE ~(file.status = "PENDING" /\ file' = [file EXCEPT !.status = "AVAILABLE"])
    <3>1. file.status \in {"PENDING", "AVAILABLE"}
      BY <1>1, <1>10 DEF Publish, At, Knows, TypeOK
    <3>2. UNCHANGED <<session, rows>> /\ UNCHANGED file.status
      BY <1>1, <1>10, <2>2, <3>1 DEF Publish, TypeOK
    <3> QED
      BY <3>2, Stutters
  <2> QED
    BY <2>1, <2>2
<1>11. ASSUME session' = "GONE", rows' = Empty, UNCHANGED file, session # "NONE"
       PROVE  LifeStep
  <2>1. CASE session = "GONE"
    BY <1>1, <1>11, <2>1, Stutters DEF LifeInv
  <2>2. CASE session # "GONE"
    <3>1. Lifecycle!Close
      BY <1>1, <1>2, <1>3, <1>11, <2>2, NothingIs DEF TypeOK, Lifecycle!Close
    <3> QED
      BY <3>1 DEF LifeStep, Lifecycle!Next
  <2> QED
    BY <2>1, <2>2
<1>12. CASE Unsession(r)
  <2>1. session # "NONE"
    BY <1>1, <1>12 DEF Unsession, At, Sees, LifeInv, Claimed
  <2> QED
    BY <1>11, <1>12, <2>1 DEF Unsession
<1>13. CASE RemoveRow(r)
  <2>1. CASE Exists
    BY <1>11, <1>13, <2>1 DEF RemoveRow, Exists
  <2>2. CASE ~Exists
    BY <1>13, <2>2, Stutters DEF RemoveRow
  <2> QED
    BY <2>1, <2>2
<1> QED
  BY <1>4, <1>5, <1>6, <1>7, <1>8, <1>9, <1>10, <1>12, <1>13 DEF Advance

\* A request moves on: what the others see of the session lasts, and only the
\* request that was finalizing it can have given it a file.
LEMMA MovedSees ==
  ASSUME SessionInv, TypeOK', LifeStep, NEW r \in Requests, NEW s, Moved(r, s), Sees(s)',
         file'.status # "NONE" => file.status # "NONE" \/ Working(r)
  PROVE  LifeInv' /\ \A q \in Requests : Sees(request[q])'
<1>1. LifeInv' /\ Lasts
  BY LifecycleKeeps DEF SessionInv, UploadInv
<1>2. request'[r] = s /\ \A q \in Requests : q # r => request'[q] = request[q]
  BY MovedType DEF SessionInv, UploadInv
<1>3. ASSUME NEW q \in Requests, q # r PROVE Sees(request[q])'
  <2>1. request'[q] = request[q] /\ Sees(request[q])
    BY <1>2, <1>3 DEF SessionInv
  <2>2. request[q].pc \in Finalizing => ~Working(r)
    BY <1>3 DEF SessionInv, UploadInv, OneFinalizer, Working, Finalizing
  <2> QED
    BY <1>1, <2>1, <2>2 DEF Sees, Lasts
<1>4. Sees(request[r])'
  BY <1>2 DEF Sees
<1> QED
  BY <1>1, <1>3, <1>4

\* What each label asks of the session when a request arrives there.
LEMMA AdvanceSees ==
  ASSUME SessionInv, NEW r \in Requests, Advance(r), TypeOK'
  PROVE  LifeInv' /\ \A q \in Requests : Sees(request[q])'
<1>1. /\ TypeOK /\ LifeInv /\ Knows(request[r]) /\ Sees(request[r])
      /\ request[r] \in RequestState /\ LifeStep
  BY AdvanceLives DEF SessionInv, UploadInv, KnowsInv, TypeOK
<1>2. ASSUME Finish(r), file'.status # "NONE" => file.status # "NONE" \/ Working(r)
      PROVE  LifeInv' /\ \A q \in Requests : Sees(request[q])'
  <2>1. Sees(Idle)'
    BY IdleType DEF Sees, Finalizing
  <2> QED
    BY <1>1, <1>2, <2>1, FinishMoves, MovedSees
<1>3. ASSUME NEW l \in Labels, Goto(r, l) \/ \E b \in Stored : Carry(r, l, b),
             file'.status # "NONE" => file.status # "NONE" \/ Working(r),
             l \in {"exist", "claim"} \union Finalizing =>
                session' # "NONE" /\ (session' # "GONE" => HasAll'),
             l \in Finalizing => file'.status = "NONE",
             l = "unsession" => file'.status # "NONE"
      PROVE  LifeInv' /\ \A q \in Requests : Sees(request[q])'
  <2>1. PICK s : Moved(r, s) /\ s.pc = l
    BY <1>1, <1>3, GotoMoves, CarryMoves
  <2>2. Sees(s)'
    BY <1>3, <2>1 DEF Sees
  <2> QED
    BY <1>1, <1>3, <2>1, <2>2, MovedSees
<1>4. ASSUME NEW c \in Chunks, Link(r, c) \/ Row(r, c)
      PROVE  LifeInv' /\ \A q \in Requests : Sees(request[q])'
  <2>1. UNCHANGED file /\ (Finish(r) \/ Goto(r, "row"))
    BY <1>4 DEF Link, Row
  <2> QED
    BY <1>2, <1>3, <2>1 DEF Labels, Finalizing
<1>5. CASE LinkFails(r) \/ Revert(r) \/ Undisk(r) \/ RemoveRow(r)
  BY <1>2, <1>5 DEF LinkFails, Revert, Undisk, RemoveRow, store
<1>6. CASE Exist(r)
  <2>1. /\ UNCHANGED <<session, rows, file>> /\ (Finish(r) \/ Goto(r, "claim"))
        /\ session # "NONE" /\ (session # "GONE" => HasAll)
    BY <1>1, <1>6 DEF Exist, At, Sees, store
  <2>2. HasAll => HasAll'
    BY <2>1 DEF HasAll
  <2> QED
    BY <1>2, <1>3, <2>1, <2>2 DEF Labels, Finalizing
<1>7. CASE Claim(r)
  <2>1. CASE Claimable
    <3>1. /\ HasAll /\ UNCHANGED <<rows, file>> /\ session' = "COMPLETING"
          /\ file.status = "NONE" /\ Goto(r, "assemble")
      BY <1>1, <1>7, <2>1 DEF Claim, Claimable, At, Sees, LifeInv, Claimed
    <3>2. HasAll'
      BY <3>1 DEF HasAll
    <3> QED
      BY <1>3, <3>1, <3>2 DEF Labels
  <2>2. CASE ~Claimable
    BY <1>2, <1>7, <2>2 DEF Claim
  <2> QED
    BY <2>1, <2>2
<1>8. CASE Assemble(r) \/ PrepareFails(r)
  <2>1. /\ UNCHANGED <<session, rows, file>>
        /\ file.status = "NONE" /\ session # "NONE" /\ (session # "GONE" => HasAll)
    BY <1>1, <1>8 DEF Assemble, PrepareFails, At, Sees, Finalizing, store
  <2>2. \E l \in {"prepare", "revert"} : Goto(r, l) \/ \E b \in Stored : Carry(r, l, b)
    BY <1>8 DEF Assemble, PrepareFails, Stored
  <2>3. HasAll => HasAll'
    BY <2>1 DEF HasAll
  <2> QED
    BY <1>3, <2>1, <2>2, <2>3 DEF Labels
<1>9. CASE Prepare(r)
  <2>1. /\ UNCHANGED <<session, rows>> /\ Working(r)
        /\ file.status = "NONE" /\ session # "NONE" /\ (session # "GONE" => HasAll)
    BY <1>1, <1>9 DEF Prepare, At, Sees, Finalizing, Working
  <2>2. HasAll => HasAll'
    BY <2>1 DEF HasAll
  <2>3. \/ Carry(r, "publish", "none")
        \/ Goto(r, "revert") /\ UNCHANGED file
    BY <1>9 DEF Prepare
  <2> QED
    BY <1>3, <2>1, <2>2, <2>3 DEF Labels, Finalizing, Stored
<1>10. CASE Publish(r)
  <2>1. file.status # "NONE"
    BY <1>1, <1>10 DEF Publish, At, Knows
  <2>2. \/ Goto(r, "unsession") /\ file'.status # "NONE"
        \/ Finish(r)
    BY <1>1, <1>10 DEF Publish, TypeOK
  <2> QED
    BY <1>2, <1>3, <2>1, <2>2 DEF Labels, Finalizing
<1>11. CASE Unsession(r)
  BY <1>3, <1>11 DEF Unsession, Labels, Finalizing
<1>12. CASE RemoveDirectory(r)
  BY <1>3, <1>12 DEF RemoveDirectory, Labels, Finalizing
<1> QED
  BY <1>4, <1>5, <1>6, <1>7, <1>8, <1>9, <1>10, <1>11, <1>12 DEF Advance

\* A request that starts changes nothing a client sees, and sees what it read.
LEMMA StartSees ==
  ASSUME SessionInv, NEW r \in Requests, TypeOK',
         \/ \E c \in Chunks, b \in Bodies : Save(r, c, b)
         \/ Complete(r) \/ Retry(r) \/ Cancel(r) \/ Cleanup(r) \/ Renew(r)
  PROVE  LifeStep /\ LifeInv' /\ \A q \in Requests : Sees(request[q])'
<1>1. TypeOK /\ UNCHANGED store
  BY DEF SessionInv, UploadInv, Save, Complete, Retry, Cancel, Cleanup, Renew
<1>2. LifeStep /\ (HasAll => HasAll')
  BY <1>1, Stutters DEF store, HasAll
<1>3. \E s : Moved(r, s) /\ Sees(s)'
  <2>1. ASSUME NEW c \in Chunks, NEW b \in Bodies, Save(r, c, b)
        PROVE  \E s : Moved(r, s) /\ Sees(s)'
    <3> DEFINE s == [pc |-> "link", kind |-> "save", chunk |-> {c}, body |-> b]
    <3>1. Moved(r, s) /\ s.pc = "link"
      BY <1>1, <2>1, SaveMoves
    <3> HIDE DEF s
    <3>2. Sees(s)'
      BY <3>1 DEF Sees, Finalizing
    <3> QED
      BY <3>1, <3>2
  <2>2. CASE Complete(r) \/ Retry(r) \/ Cancel(r) \/ Cleanup(r) \/ Renew(r)
    <3>1. PICK k \in Kinds, l \in {"exist", "publish", "rmdir"} :
             Start(r, k, l) /\ (l = "exist" => session = "ACTIVE" /\ HasAll)
      BY <2>2 DEF Complete, Retry, Cancel, Cleanup, Renew, Kinds, HasAll
    <3> DEFINE s == [Idle EXCEPT !.pc = l, !.kind = k]
    <3>2. l \in Labels
      BY DEF Labels
    <3>3. Moved(r, s) /\ s.pc = l
      BY <1>1, <3>1, <3>2, StartMoves
    <3> HIDE DEF s
    <3>4. Sees(s)'
      BY <1>1, <1>2, <3>1, <3>3 DEF Sees, Finalizing, store
    <3> QED
      BY <3>3, <3>4
  <2> QED
    BY <2>1, <2>2
<1> QED
  BY <1>1, <1>2, <1>3, MovedSees DEF store

\* Every step keeps the invariant and is a step of the lifecycle, or none.
LEMMA NextSession ==
  ASSUME SessionInv, [Next]_vars
  PROVE  SessionInv' /\ LifeStep
<1>1. UploadInv' /\ TypeOK'
  BY NextUpload DEF SessionInv, UploadInv
<1>2. CASE UNCHANGED vars
  <2>1. LifeStep
    BY <1>2, Stutters DEF vars
  <2> QED
    BY <1>1, <1>2, <2>1 DEF vars, SessionInv, LifeInv, Sees, HasAll, Claimed
<1>3. CASE Create
  <2>1. Lifecycle!Open
    BY <1>3 DEF Create, Lifecycle!Open, Phase
  <2>2. LifeStep
    BY <2>1 DEF LifeStep, Lifecycle!Next
  <2>3. LifeInv'
    BY <1>1, <2>2, LifecycleKeeps DEF SessionInv, UploadInv
  <2>4. \A q \in Requests : Sees(request[q])'
    BY <1>3 DEF Create, SessionInv, UploadInv, KnowsInv, Knows, Sees, Finalizing
  <2> QED
    BY <1>1, <2>2, <2>3, <2>4 DEF SessionInv
<1>4. CASE Expire
  <2>1. UNCHANGED <<session, rows, file, request>>
    BY <1>4 DEF Expire
  <2>2. LifeStep
    BY <2>1, Stutters
  <2> QED
    BY <1>1, <2>1, <2>2 DEF SessionInv, LifeInv, Sees, HasAll, Claimed
<1>5. ASSUME NEW r \in Requests,
             \/ \E c \in Chunks, b \in Bodies : Save(r, c, b)
             \/ Complete(r) \/ Retry(r) \/ Cancel(r) \/ Cleanup(r) \/ Renew(r)
      PROVE  SessionInv' /\ LifeStep
  BY <1>1, <1>5, StartSees DEF SessionInv
<1>6. ASSUME NEW r \in Requests, Crash(r) PROVE SessionInv' /\ LifeStep
  <2>1. UNCHANGED store /\ LifeStep
    BY <1>6, Stutters DEF Crash, store
  <2>2. \A q \in Requests : request'[q] = Idle \/ request'[q].pc = "publish"
    BY <1>6, CrashType DEF SessionInv, UploadInv
  <2>3. \A q \in Requests : Sees(request[q])'
    BY <2>2, IdleType DEF Sees, Finalizing
  <2> QED
    BY <1>1, <2>1, <2>3 DEF SessionInv, LifeInv, HasAll, Claimed, store
<1>7. ASSUME NEW r \in Requests, Advance(r) PROVE SessionInv' /\ LifeStep
  BY <1>1, <1>7, AdvanceLives, AdvanceSees DEF SessionInv
<1> QED
  BY <1>2, <1>3, <1>4, <1>5, <1>6, <1>7 DEF Next

\* The coordinator implements the lifecycle of an upload session: whatever saves,
\* completions, cancellations, cleanups, renewals and crashes interleave, no
\* file is made of a session without all its chunks, no session takes chunks or
\* is reverted once it has its file, and none comes back (service.ts).
THEOREM SessionRefines == Spec => RefinesUpload
<1>1. Init => SessionInv /\ Lifecycle!Init
  <2> SUFFICES ASSUME Init PROVE SessionInv /\ Lifecycle!Init
    OBVIOUS
  <2>1. UploadInv
    BY InitUpload
  <2>2. LifeInv /\ \A q \in Requests : Sees(request[q])
    BY IdleType DEF Init, LifeInv, Sees, Finalizing, Claimed
  <2>3. Lifecycle!Init
    BY NothingIs DEF Init, Lifecycle!Init, Phase
  <2> QED
    BY <2>1, <2>2, <2>3 DEF SessionInv
<1>2. SessionInv /\ [Next]_vars => SessionInv' /\ LifeStep
  BY NextSession
<1> QED
  BY <1>1, <1>2, PTL DEF Spec, RefinesUpload, Lifecycle!Spec, LifeStep
=============================================================================
