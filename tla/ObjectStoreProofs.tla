------------------------- MODULE ObjectStoreProofs --------------------------
(***************************************************************************)
(* What holds of an object of a storage node for any number of concurrent  *)
(* requests, of faults and refusals: its types, that it is never part of   *)
(* an upload, that an acknowledged PUT is on disk, and that every answer   *)
(* was true at some instant of its request.                                *)
(*                                                                         *)
(* Current says what a request at a label has read, and that its answer is *)
(* about something it saw. The bytes seen during a request only grow, so   *)
(* that no step of another request disturbs it. AckInv is about the steps  *)
(* between the two files of one PUT, during which a deletion may come.     *)
(***************************************************************************)
EXTENDS ObjectStore, TLAPS

Putting == {"verify", "receive", "rename", "persist"}
Reading == {"stat", "sidecar", "hash", "rebuild", "stream"}

\* What the label of a request says of its kind and of what it has read.
Shape(s) ==
    /\ s.pc \in Putting => s.kind \in {"put", "replace"}
    /\ s.pc \in Reading => s.kind \in {"head", "get"}
    /\ s.pc = "stream" => s.kind = "get"
    /\ s.pc = "remove" => s.kind = "delete"
    /\ s.pc \in {"rename", "persist"} => s.read = "good"
    /\ s.pc \in {"sidecar", "rebuild"} => s.read \in Bytes

\* What a request says, of the bytes b that were there since it began.
Current(s, b) ==
    /\ s.pc \in {"sidecar", "rebuild"} => s.read \in b
    /\ s.pc = "persist" => "good" \in b
    /\ s.pc = "remove" => "object" \in s.left \/ "none" \in b
    /\ s.pc = "answered" => TrueOf(s.answer, s.kind, b)

RequestInv == \A r \in Requests : Shape(request[r]) /\ Current(request[r], seen[r])

\* A PUT between its two files has stored the object, unless the object was
\* deleted or damaged since it began.
AckInv ==
    /\ AckIsDurable
    /\ Deleting => ~acked /\ calm = {}
    /\ \A r \in calm : At(r, "persist") => object = "good"

\* Nor does a request that rebuilds the sidecar hold other bytes.
WholeInv ==
    /\ NeverTorn
    /\ harms = 0 => \A r \in Requests : At(r, "rebuild") => request[r].read = "good"

StoreInv == TypeOK /\ RequestInv /\ AckInv /\ WholeInv

\* What one step does to the requests: r goes on in the state s.
Moved(r, s) == s \in RequestState /\ request' = [request EXCEPT ![r] = s]

-----------------------------------------------------------------------------
(* How a request moves.                                                    *)

LEMMA IdleType ==
  /\ Idle \in RequestState /\ Idle.pc = "idle" /\ Idle.kind = "none"
  /\ Shape(Idle) /\ \A b : Current(Idle, b)
  BY DEF Idle, RequestState, Labels, Kinds, Contents, Bytes, Answers, Shape, Current, Putting,
         Reading

\* A request that moves on leaves the other requests as they are.
LEMMA MovedType ==
  ASSUME TypeOK, NEW r \in Requests, NEW s, Moved(r, s)
  PROVE  /\ request' \in [Requests -> RequestState] /\ request'[r] = s
         /\ \A q \in Requests : q # r => request'[q] = request[q]
  BY DEF TypeOK, Moved

LEMMA GotoMoves ==
  ASSUME TypeOK, NEW r \in Requests, NEW l \in Labels, Goto(r, l)
  PROVE  \E s : Moved(r, s) /\ s.pc = l /\ s.kind = request[r].kind /\ s.read = request[r].read
<1> DEFINE s == [request[r] EXCEPT !.pc = l]
<1>1. Moved(r, s) /\ s.pc = l /\ s.kind = request[r].kind /\ s.read = request[r].read
  BY DEF TypeOK, Goto, Step, Moved, RequestState
<1> HIDE DEF s
<1> QED BY <1>1

LEMMA CarryMoves ==
  ASSUME TypeOK, NEW r \in Requests, NEW l \in Labels, NEW b \in Contents, Carry(r, l, b)
  PROVE  \E s : Moved(r, s) /\ s.pc = l /\ s.kind = request[r].kind /\ s.read = b
<1> DEFINE s == [request[r] EXCEPT !.pc = l, !.read = b]
<1>1. Moved(r, s) /\ s.pc = l /\ s.kind = request[r].kind /\ s.read = b
  BY DEF TypeOK, Carry, Step, Moved, RequestState
<1> HIDE DEF s
<1> QED BY <1>1

LEMMA StartMoves ==
  ASSUME NEW r \in Requests, NEW k \in Kinds, NEW l \in Labels, Start(r, k, l)
  PROVE  \E s : Moved(r, s) /\ s.pc = l /\ s.kind = k
<1> DEFINE s == [Idle EXCEPT !.pc = l, !.kind = k]
<1>1. Moved(r, s) /\ s.pc = l /\ s.kind = k
  BY IdleType DEF Start, Step, Moved, RequestState
<1> HIDE DEF s
<1> QED BY <1>1

LEMMA AnswerMoves ==
  ASSUME TypeOK, NEW r \in Requests, NEW a \in Answers, Answer(r, a)
  PROVE  \E s : Moved(r, s) /\ s.pc = "answered" /\ s.kind = request[r].kind /\ s.answer = a
<1> DEFINE s == [request[r] EXCEPT !.pc = "answered", !.read = "none", !.left = {}, !.answer = a]
<1>1. "answered" \in Labels /\ "none" \in Contents
  BY DEF Labels, Contents
<1>2. Moved(r, s) /\ s.pc = "answered" /\ s.kind = request[r].kind /\ s.answer = a
  BY <1>1 DEF TypeOK, Answer, Step, Moved, RequestState
<1> HIDE DEF s
<1> QED BY <1>2

\* A request ends with an answer that is true of the bytes there were.
LEMMA TrueAnswers ==
  ASSUME TypeOK, NEW r \in Requests, NEW a \in Answers, Answer(r, a),
         NEW b, TrueOf(a, request[r].kind, b)
  PROVE  \E s : Moved(r, s) /\ s.pc = "answered" /\ Shape(s) /\ Current(s, b)
<1>1. PICK s : Moved(r, s) /\ s.pc = "answered" /\ s.kind = request[r].kind /\ s.answer = a
  BY AnswerMoves
<1>2. Shape(s) /\ Current(s, b)
  BY <1>1 DEF Shape, Current, Putting, Reading
<1> QED BY <1>1, <1>2

\* HEAD and GET go on to the bytes, or answer.
LEMMA KnownMoves ==
  ASSUME TypeOK, NEW r \in Requests, NEW a \in Bytes, Known(r, a),
         request[r].kind \in {"head", "get"}, NEW b, \E bytes \in b : SameSize(a, bytes)
  PROVE  \E s : Moved(r, s) /\ s.pc \in {"stream", "answered"} /\ Shape(s) /\ Current(s, b)
<1>1. CASE request[r].kind = "get"
  <2>1. PICK s : Moved(r, s) /\ s.pc = "stream" /\ s.kind = "get"
    BY <1>1, CarryMoves DEF Known, Labels, Contents
  <2>2. Shape(s) /\ Current(s, b)
    BY <2>1 DEF Shape, Current, Putting, Reading
  <2> QED BY <2>1, <2>2
<1>2. CASE request[r].kind = "head"
  <2>1. Answer(r, a) /\ a \in Answers
    BY <1>2 DEF Known, Answers, Contents
  <2>2. TrueOf(a, request[r].kind, b)
    BY <1>2 DEF TrueOf, Bytes
  <2> QED BY <2>1, <2>2, TrueAnswers
<1> QED BY <1>1, <1>2
-----------------------------------------------------------------------------
(* What the requests have read, and what they answer.                      *)

\* Bytes that are there now are among those seen during the step.
Now(r) == seen[r] \union {object'}

\* A request that moves on knows what its label says. Only a rename leads to
\* the second half of a PUT, only the start of a deletion to its removals, and a
\* sidecar is rebuilt of what the object was hashed as.
Sound(r) ==
    \E s : /\ Moved(r, s) /\ Shape(s) /\ Current(s, Now(r))
           /\ s.pc = "persist" => Rename(r)
           /\ s.pc = "remove" => At(r, "remove") \/ BeginDelete(r)
           /\ s.pc = "rebuild" => s.read = object

LEMMA ServeSound ==
  ASSUME TypeOK, NEW r \in Requests, Shape(request[r]), Current(request[r], seen[r]), Serve(r)
  PROVE  Sound(r)
<1>1. /\ request[r] \in RequestState /\ request[r].read \in Contents \union {"aborted"}
      /\ object \in Contents /\ sidecar \in Contents
  BY DEF TypeOK, RequestState
<1>2. Bytes \subseteq Answers /\ Bytes \subseteq Contents /\ Contents \subseteq Answers
      /\ {"ok", "refused", "conflict", "mismatch", "failed", "gone", "broken"} \subseteq Answers
  BY DEF Answers, Contents
<1>3. \A c \in Contents : c # "none" => c \in Bytes
  BY DEF Contents
<1>0. ASSUME NEW a \in Answers, Answer(r, a), TrueOf(a, request[r].kind, Now(r))
       PROVE  Sound(r)
  <2>1. PICK b : b = Now(r)
    OBVIOUS
  <2> QED BY <1>0, <2>1, TrueAnswers DEF Sound
<1>4. ASSUME NEW kind \in Kinds, BeginPut(r, kind) PROVE Sound(r)
  <2>1. CASE refusals > 0
    <3> DEFINE s == [Idle EXCEPT !.pc = "answered", !.kind = kind, !.answer = "refused"]
    <3>1. Moved(r, s) /\ s.pc = "answered" /\ s.kind = kind /\ s.answer = "refused"
      BY <1>2, <1>4, <2>1, IdleType DEF BeginPut, Step, Moved, RequestState, Labels
    <3> HIDE DEF s
    <3>2. Shape(s) /\ Current(s, Now(r))
      BY <1>4, <3>1 DEF BeginPut, Shape, Current, TrueOf, Bytes, Putting, Reading
    <3> QED BY <3>1, <3>2 DEF Sound
  <2>2. CASE ~(refusals > 0)
    <3>1. PICK s : Moved(r, s) /\ s.pc = "verify" /\ s.kind = kind
      BY <1>4, <2>2, StartMoves DEF BeginPut, Labels
    <3>2. Shape(s) /\ Current(s, Now(r))
      BY <1>4, <3>1 DEF BeginPut, Shape, Current, Putting, Reading
    <3> QED BY <3>1, <3>2 DEF Sound
  <2> QED BY <2>1, <2>2
<1>5. ASSUME NEW kind \in Kinds, BeginRead(r, kind) PROVE Sound(r)
  <2>1. PICK s : Moved(r, s) /\ s.pc = "stat" /\ s.kind = kind
    BY <1>5, StartMoves DEF BeginRead, Labels
  <2>2. Shape(s) /\ Current(s, Now(r))
    BY <1>5, <2>1 DEF BeginRead, Shape, Current, Putting, Reading
  <2> QED BY <2>1, <2>2 DEF Sound
<1>6. CASE Verify(r)
  <2>1. request[r].kind \in {"put", "replace"}
    BY <1>6 DEF Verify, At, Shape, Putting
  <2>2. CASE Goto(r, "receive")
    <3>1. PICK s : Moved(r, s) /\ s.pc = "receive" /\ s.kind = request[r].kind
      BY <2>2, GotoMoves DEF Labels
    <3>2. Shape(s) /\ Current(s, Now(r))
      BY <2>1, <3>1 DEF Shape, Current, Putting, Reading
    <3> QED BY <3>1, <3>2 DEF Sound
  <2>3. ASSUME NEW a \in {"ok", "conflict"}, Answer(r, a), object # "none",
               a = "ok" <=> object = "good"
        PROVE  Sound(r)
    <3>1. object' = object
      BY <1>6 DEF Verify, files
    <3>2. TrueOf(a, request[r].kind, Now(r))
      BY <2>3, <3>1 DEF TrueOf, Bytes, Now
    <3> QED BY <1>2, <1>0, <2>3, <3>2
  <2> QED BY <1>6, <2>2, <2>3 DEF Verify, Acknowledge, Matches
<1>7. CASE Receive(r)
  <2>1. request[r].kind \in {"put", "replace"}
    BY <1>7 DEF Receive, At, Shape, Putting
  <2>2. CASE Carry(r, "rename", "good")
    <3>1. PICK s : Moved(r, s) /\ s.pc = "rename" /\ s.kind = request[r].kind /\ s.read = "good"
      BY <2>2, CarryMoves DEF Labels, Contents, Bytes
    <3>2. Shape(s) /\ Current(s, Now(r))
      BY <2>1, <3>1 DEF Shape, Current, Putting, Reading
    <3> QED BY <3>1, <3>2 DEF Sound
  <2>3. ASSUME NEW a \in {"failed", "mismatch"}, Answer(r, a) PROVE Sound(r)
    <3>1. TrueOf(a, request[r].kind, Now(r))
      BY DEF TrueOf, Bytes
    <3> QED BY <1>2, <1>0, <2>3, <3>1
  <2> QED BY <1>7, <2>2, <2>3 DEF Receive, Accepts
<1>8. CASE Rename(r)
  <2>1. request[r].kind \in {"put", "replace"} /\ request[r].read = "good"
    BY <1>8 DEF Rename, At, Shape, Putting
  <2>2. PICK s : /\ Moved(r, s) /\ s.pc = "persist" /\ s.kind = request[r].kind
                 /\ s.read = request[r].read
    BY <1>8, GotoMoves DEF Rename, Labels
  <2>3. object' = "good"
    BY <1>8, <2>1 DEF Rename
  <2>4. Shape(s) /\ Current(s, Now(r))
    BY <2>1, <2>2, <2>3 DEF Shape, Current, Putting, Reading, Now
  <2> QED BY <1>8, <2>2, <2>4 DEF Sound
<1>9. CASE Persist(r) \/ PersistFails(r)
  <2>1. "good" \in seen[r]
    BY <1>9 DEF Persist, PersistFails, At, Current
  <2>2. PICK a \in {"ok", "failed"} : Answer(r, a)
    BY <1>9 DEF Persist, PersistFails, Acknowledge
  <2>3. TrueOf(a, request[r].kind, Now(r))
    BY <2>1 DEF TrueOf, Bytes, Now
  <2> QED BY <1>2, <1>0, <2>2, <2>3
<1>10. CASE Stat(r) \/ Hash(r)
  <2>1. request[r].kind \in {"head", "get"} /\ object' = object
    BY <1>10 DEF Stat, Hash, At, Shape, Reading, files
  <2>2. CASE object = "none"
    <3>1. Answer(r, "none") /\ "none" \in Answers
      BY <1>2, <1>10, <2>2 DEF Stat, Hash, Contents
    <3>2. TrueOf("none", request[r].kind, Now(r))
      BY <2>1, <2>2 DEF TrueOf, Bytes, Now
    <3> QED BY <1>0, <3>1, <3>2
  <2>3. CASE object # "none"
    <3>1. PICK l \in {"sidecar", "rebuild"} : Carry(r, l, object)
      BY <1>10, <2>3 DEF Stat, Hash
    <3>2. PICK s : Moved(r, s) /\ s.pc = l /\ s.kind = request[r].kind /\ s.read = object
      BY <1>1, <3>1, CarryMoves DEF Labels
    <3>3. Shape(s) /\ Current(s, Now(r))
      BY <1>1, <1>3, <2>1, <2>3, <3>2 DEF Shape, Current, Putting, Reading, Now
    <3> QED BY <3>2, <3>3 DEF Sound
  <2> QED BY <2>2, <2>3
<1>11. CASE ReadSidecar(r)
  <2>1. request[r].kind \in {"head", "get"} /\ request[r].read \in seen[r]
    BY <1>11 DEF ReadSidecar, At, Shape, Current, Reading
  <2>2. CASE Believed(r)
    <3>1. sidecar \in Bytes /\ \E bytes \in Now(r) : SameSize(sidecar, bytes)
      BY <1>1, <1>3, <2>1, <2>2 DEF Believed, Now
    <3>2. Known(r, sidecar)
      BY <1>11, <2>2 DEF ReadSidecar
    <3>3. PICK a \in Bytes : Known(r, a) /\ \E bytes \in Now(r) : SameSize(a, bytes)
      BY <3>1, <3>2
    <3>4. PICK b : b = Now(r)
      OBVIOUS
    <3> QED BY <2>1, <3>3, <3>4, KnownMoves DEF Sound
  <2>3. CASE ~Believed(r)
    <3>1. PICK s : Moved(r, s) /\ s.pc = "hash" /\ s.kind = request[r].kind
      BY <1>11, <2>3, GotoMoves DEF ReadSidecar, Labels
    <3>2. Shape(s) /\ Current(s, Now(r))
      BY <2>1, <3>1 DEF Shape, Current, Putting, Reading
    <3> QED BY <3>1, <3>2 DEF Sound
  <2> QED BY <2>2, <2>3
<1>12. CASE Rebuild(r)
  <2>1. /\ request[r].kind \in {"head", "get"} /\ request[r].read \in seen[r]
        /\ request[r].read \in Bytes
    BY <1>12 DEF Rebuild, At, Shape, Current, Reading
  <2>2. PICK a \in Bytes : Known(r, a) /\ a = request[r].read
    BY <1>12, <2>1 DEF Rebuild
  <2>3. PICK b : b = Now(r)
    OBVIOUS
  <2>4. \E bytes \in b : SameSize(a, bytes)
    BY <2>1, <2>2, <2>3 DEF Now, SameSize
  <2> QED BY <2>1, <2>2, <2>3, <2>4, KnownMoves DEF Sound
<1>13. CASE Stream(r)
  <2>1. request[r].kind = "get" /\ object' = object
    BY <1>13 DEF Stream, At, Shape, files
  <2>2. PICK a \in Answers : Answer(r, a) /\ a = IF object = "none" THEN "broken" ELSE object
    BY <1>1, <1>2, <1>13 DEF Stream
  <2>3. TrueOf(a, request[r].kind, Now(r))
    BY <1>1, <1>3, <2>1, <2>2 DEF TrueOf, Now, Bytes, SameSize
  <2> QED BY <1>0, <2>2, <2>3
<1>14. CASE BeginDelete(r)
  <2> DEFINE s == [Idle EXCEPT !.pc = "remove", !.kind = "delete", !.left = Parts]
  <2>1. Moved(r, s) /\ s.pc = "remove" /\ s.kind = "delete" /\ "object" \in s.left
    BY <1>14, IdleType DEF BeginDelete, Step, Moved, RequestState, Labels, Kinds, Parts
  <2> HIDE DEF s
  <2>2. Shape(s) /\ Current(s, Now(r))
    BY <2>1 DEF Shape, Current, Putting, Reading
  <2> QED BY <1>14, <2>1, <2>2 DEF Sound
<1>15. CASE Close(r)
  BY <1>15, IdleType DEF Close, Step, Moved, Sound
<1>16. ASSUME NEW part \in Parts, Remove(r, part) PROVE Sound(r)
  <2>1. /\ request[r].kind = "delete" /\ At(r, "remove")
        /\ "object" \in request[r].left \ {part} \/ "none" \in Now(r)
    BY <1>16 DEF Remove, At, Shape, Current, Now
  <2>2. CASE request[r].left = {part}
    <3>1. TrueOf("gone", request[r].kind, Now(r))
      BY <2>1, <2>2 DEF TrueOf, Bytes
    <3> QED BY <1>2, <1>16, <1>0, <2>2, <3>1 DEF Remove
  <2>3. CASE request[r].left # {part}
    <3> DEFINE s == [request[r] EXCEPT !.left = @ \ {part}]
    <3>1. /\ Moved(r, s) /\ s.pc = request[r].pc /\ s.kind = request[r].kind
          /\ s.left = request[r].left \ {part}
      BY <1>1, <1>16, <2>3 DEF Remove, Step, Moved, RequestState
    <3> HIDE DEF s
    <3>2. Shape(s) /\ Current(s, Now(r))
      BY <2>1, <3>1 DEF Shape, Current, Putting, Reading, At
    <3> QED BY <2>1, <3>1, <3>2 DEF Sound, At
  <2> QED BY <2>2, <2>3
<1> QED BY <1>4, <1>5, <1>6, <1>7, <1>8, <1>9, <1>10, <1>11, <1>12, <1>13, <1>14, <1>15, <1>16
        DEF Serve
\* The files and counters keep their types.
LEMMA ServeType ==
  ASSUME TypeOK, NEW r \in Requests, Shape(request[r]), Serve(r)
  PROVE  /\ object' \in Contents /\ sidecar' \in Contents /\ refusals' \in 0..MaxRefusals
         /\ harms' \in 0..MaxHarms /\ acked' \in BOOLEAN /\ calm' \subseteq Requests
<1> DEFINE Types == /\ object' \in Contents /\ sidecar' \in Contents
                    /\ refusals' \in 0..MaxRefusals /\ harms' \in 0..MaxHarms
                    /\ acked' \in BOOLEAN /\ calm' \subseteq Requests
<1> USE DEF TypeOK, files, history
<1>1. "none" \in Contents /\ "good" \in Contents /\ Bytes \subseteq Contents
  BY DEF Contents, Bytes
<1>2. ASSUME NEW kind \in Kinds, BeginPut(r, kind) PROVE Types
  BY <1>2, BoundsAssumption DEF BeginPut
<1>3. ASSUME NEW kind \in Kinds, BeginRead(r, kind) PROVE Types
  BY <1>3 DEF BeginRead
<1>4. CASE Verify(r)
  BY <1>4 DEF Verify, Acknowledge
<1>5. CASE Rename(r) \/ Persist(r)
  BY <1>1, <1>5 DEF Rename, Persist, Acknowledge, At, Shape
<1>6. CASE PersistFails(r)
  BY <1>6, BoundsAssumption DEF PersistFails, Harm
<1>7. CASE Receive(r) \/ Stat(r) \/ ReadSidecar(r) \/ Hash(r) \/ Stream(r)
  BY <1>7 DEF Receive, Stat, ReadSidecar, Hash, Stream
<1>8. CASE Rebuild(r)
  BY <1>1, <1>8 DEF Rebuild, At, Shape
<1>9. CASE BeginDelete(r) \/ Close(r)
  BY <1>9 DEF BeginDelete, Close
<1>10. ASSUME NEW part \in Parts, Remove(r, part) PROVE Types
  BY <1>1, <1>10 DEF Remove
<1> QED BY <1>2, <1>3, <1>4, <1>5, <1>6, <1>7, <1>8, <1>9, <1>10 DEF Serve

-----------------------------------------------------------------------------
(* What is acknowledged, and what is never stored.                         *)

\* A PUT that was undone meanwhile is not calm, and acknowledges nothing.
LEMMA ServeAck ==
  ASSUME StoreInv, NEW r \in Requests, Serve(r), Sound(r)
  PROVE  AckInv'
<1> USE DEF files, history
<1>1. /\ TypeOK /\ AckInv /\ Shape(request[r])
      /\ acked \in BOOLEAN /\ calm \subseteq Requests
  BY DEF StoreInv, RequestInv, TypeOK
<1>2. /\ Deleting' => Deleting \/ BeginDelete(r)
      /\ At(r, "persist")' => Rename(r)
      /\ \A q \in Requests \ {r} : At(q, "persist")' => At(q, "persist")
  BY <1>1, MovedType DEF Sound, Deleting, At, Shape
<1>3. CASE BeginDelete(r)
  BY <1>1, <1>3 DEF BeginDelete, AckInv, AckIsDurable
<1>4. CASE Rename(r)
  <2>1. object' = "good" /\ ~BeginDelete(r)
    BY <1>1, <1>4 DEF Rename, BeginDelete, At, Shape
  <2> QED BY <1>1, <1>2, <1>4, <2>1 DEF Rename, AckInv, AckIsDurable
<1> SUFFICES ASSUME ~BeginDelete(r), ~Rename(r) PROVE AckInv'
  BY <1>3, <1>4
<1>5. CASE UNCHANGED <<object, acked, calm>>
  BY <1>1, <1>2, <1>5 DEF AckInv, AckIsDurable
<1>6. ASSUME NEW kind \in Kinds, BeginPut(r, kind) PROVE AckInv'
  BY <1>1, <1>2, <1>6 DEF BeginPut, AckInv, AckIsDurable
<1>7. ASSUME NEW kind \in Kinds, BeginRead(r, kind) PROVE AckInv'
  BY <1>5, <1>7 DEF BeginRead
<1>8. CASE Verify(r)
  BY <1>1, <1>2, <1>8 DEF Verify, Acknowledge, Matches, AckInv, AckIsDurable
<1>9. CASE Persist(r)
  BY <1>1, <1>2, <1>9 DEF Persist, Acknowledge, AckInv, AckIsDurable
<1>10. CASE Receive(r) \/ PersistFails(r) \/ Stat(r) \/ ReadSidecar(r) \/ Hash(r) \/ Rebuild(r)
            \/ Stream(r)
  BY <1>5, <1>10 DEF Receive, PersistFails, Stat, ReadSidecar, Hash, Rebuild, Stream
<1>11. CASE Close(r)
  BY <1>1, <1>2, <1>11 DEF Close, AckInv, AckIsDurable
<1>12. ASSUME NEW part \in Parts, Remove(r, part) PROVE AckInv'
  <2>1. Deleting
    BY <1>1, <1>12 DEF Remove, Deleting, At, Shape
  <2> QED BY <1>1, <1>12, <2>1 DEF Remove, AckInv, AckIsDurable
<1> QED BY <1>6, <1>7, <1>8, <1>9, <1>10, <1>11, <1>12 DEF Serve

\* Only bytes that passed the comparison get the object's name, and only
\* those, or what they are read as, get into the sidecar.
LEMMA ServeWhole ==
  ASSUME StoreInv, NEW r \in Requests, Serve(r), Sound(r)
  PROVE  WholeInv'
<1> USE DEF files, history
<1>1. /\ TypeOK /\ WholeInv /\ NeverTorn /\ Shape(request[r])
      /\ request[r] \in RequestState
  BY DEF StoreInv, RequestInv, WholeInv, TypeOK
<1>2. harms' = 0 => harms = 0
  <2>1. CASE PersistFails(r)
    BY <1>1, <2>1 DEF PersistFails, Harm, TypeOK
  <2>2. CASE ~PersistFails(r)
    BY <2>2 DEF Serve, BeginPut, BeginRead, Verify, Receive, Rename, Persist, Stat, ReadSidecar,
                Hash, Rebuild, Stream, BeginDelete, Close, Remove
  <2> QED BY <2>1, <2>2
<1>3. ASSUME UNCHANGED <<object, sidecar>> PROVE NeverTorn'
  BY <1>1, <1>2, <1>3 DEF NeverTorn
<1>4. NeverTorn'
  <2>1. ASSUME NEW kind \in Kinds, BeginPut(r, kind) \/ BeginRead(r, kind) PROVE NeverTorn'
    BY <1>3, <2>1 DEF BeginPut, BeginRead
  <2>2. CASE Rename(r) \/ Persist(r)
    BY <1>1, <1>2, <2>2 DEF Rename, Persist, At, Shape, NeverTorn
  <2>3. CASE Rebuild(r)
    BY <1>1, <1>2, <2>3 DEF Rebuild, WholeInv, NeverTorn
  <2>4. CASE \/ Verify(r) \/ Receive(r) \/ PersistFails(r) \/ Stat(r) \/ ReadSidecar(r)
             \/ Hash(r) \/ Stream(r) \/ BeginDelete(r) \/ Close(r)
    BY <1>3, <2>4 DEF Verify, Receive, PersistFails, Stat, ReadSidecar, Hash, Stream,
                      BeginDelete, Close
  <2>5. ASSUME NEW part \in Parts, Remove(r, part) PROVE NeverTorn'
    BY <1>1, <1>2, <2>5 DEF Remove, NeverTorn
  <2> QED BY <2>1, <2>2, <2>3, <2>4, <2>5 DEF Serve
<1>5. ASSUME harms' = 0, NEW q \in Requests, At(q, "rebuild")' PROVE request'[q].read = "good"
  <2>1. CASE q # r
    BY <1>1, <1>2, <1>5, <2>1, MovedType DEF Sound, WholeInv, At
  <2>2. CASE q = r
    <3>1. PICK s : /\ Moved(r, s) /\ Shape(s)
                   /\ s.pc = "rebuild" => s.read = object
      BY DEF Sound
    <3>2. s.pc = "rebuild" /\ request'[r] = s
      BY <1>1, <1>5, <2>2, <3>1, MovedType DEF At
    <3> QED BY <1>1, <1>2, <1>5, <2>2, <3>1, <3>2 DEF Shape, NeverTorn, Bytes
  <2> QED BY <2>1, <2>2
<1> QED BY <1>4, <1>5 DEF WholeInv

-----------------------------------------------------------------------------
(* The invariant.                                                          *)

\* What the requests know is not disturbed by what others do: the bytes seen
\* during a request only grow.
LEMMA SeenGrows ==
  ASSUME TypeOK, RequestInv, Observe, object' \in Contents,
         \A q \in Requests : \/ request'[q] = Idle \/ request'[q] = request[q]
                             \/ Shape(request'[q]) /\ Current(request'[q], Now(q))
  PROVE  RequestInv' /\ seen' \in [Requests -> SUBSET Contents]
<1>1. \A q \in Requests : seen'[q] = IF request'[q].pc = "idle" THEN {} ELSE Now(q)
  BY DEF Observe, Now
<1>2. \A s, b, c : Current(s, b) /\ b \subseteq c => Current(s, c)
  BY DEF Current, TrueOf
<1>3. \A s, b : s.pc = "idle" => Current(s, b)
  BY DEF Current
<1>4. seen' \in [Requests -> SUBSET Contents]
  BY DEF Observe, TypeOK
<1>5. ASSUME NEW q \in Requests PROVE (Shape(request[q]) /\ Current(request[q], seen[q]))'
  <2>1. Shape(request'[q]) /\ Current(request'[q], Now(q))
    BY <1>2, IdleType DEF RequestInv, Now
  <2>2. Current(request'[q], seen'[q])
    BY <1>1, <1>3, <2>1
  <2>3. PICK s, b : s = request'[q] /\ b = seen'[q]
    OBVIOUS
  <2> QED BY <2>1, <2>2, <2>3 DEF Shape, Current
<1> QED BY <1>4, <1>5 DEF RequestInv

\* Every step keeps the invariant.
LEMMA NextStore ==
  ASSUME StoreInv, [Next]_vars
  PROVE  StoreInv'
<1>1. TypeOK /\ RequestInv /\ AckInv /\ WholeInv
  BY DEF StoreInv
<1>2. CASE UNCHANGED vars
  BY <1>1, <1>2 DEF vars, StoreInv, TypeOK, RequestInv, Shape, Current, AckInv, AckIsDurable,
                    Deleting, At, WholeInv, NeverTorn
<1>3. ASSUME NEW r \in Requests, Serve(r), Observe PROVE StoreInv'
  <2>1. Sound(r)
    BY <1>1, <1>3, ServeSound DEF RequestInv
  <2>2. /\ object' \in Contents /\ sidecar' \in Contents /\ refusals' \in 0..MaxRefusals
        /\ harms' \in 0..MaxHarms /\ acked' \in BOOLEAN /\ calm' \subseteq Requests
    BY <1>1, <1>3, ServeType DEF RequestInv
  <2>3. /\ request' \in [Requests -> RequestState]
        /\ Shape(request'[r]) /\ Current(request'[r], Now(r))
        /\ \A q \in Requests : q # r => request'[q] = request[q]
    BY <1>1, <2>1, MovedType DEF Sound
  <2>4. RequestInv' /\ seen' \in [Requests -> SUBSET Contents]
    BY <1>1, <1>3, <2>2, <2>3, SeenGrows
  <2>5. TypeOK'
    BY <2>2, <2>3, <2>4 DEF TypeOK
  <2> QED BY <1>3, <2>1, <2>4, <2>5, ServeAck, ServeWhole DEF StoreInv
<1>4. CASE (Corrupt \/ Decay) /\ Observe
  <2>1. /\ object' \in Contents /\ acked' = FALSE /\ calm' = {}
        /\ UNCHANGED <<sidecar, refusals, request>>
        /\ harms' \in 0..MaxHarms /\ harms' # 0
    BY <1>1, <1>4, BoundsAssumption DEF Corrupt, Decay, Harm, TypeOK, Contents, Bytes
  <2>2. RequestInv' /\ seen' \in [Requests -> SUBSET Contents]
    BY <1>1, <1>4, <2>1, SeenGrows
  <2> QED BY <1>1, <2>1, <2>2
          DEF StoreInv, TypeOK, AckInv, AckIsDurable, WholeInv, NeverTorn
<1>5. ASSUME NEW n \in 0..MaxRefusals, SetRefusals(n), Observe PROVE StoreInv'
  <2>1. refusals' \in 0..MaxRefusals /\ UNCHANGED <<object, sidecar, request, harms, acked, calm>>
    BY <1>5 DEF SetRefusals, files, history
  <2>2. RequestInv' /\ seen' \in [Requests -> SUBSET Contents]
    BY <1>1, <1>5, <2>1, SeenGrows DEF TypeOK
  <2> QED BY <1>1, <2>1, <2>2
          DEF StoreInv, TypeOK, AckInv, AckIsDurable, Deleting, At, WholeInv, NeverTorn
<1>6. CASE Crash /\ Observe
  <2>1. /\ request' \in [Requests -> RequestState] /\ \A q \in Requests : request'[q] = Idle
        /\ refusals' \in 0..MaxRefusals /\ calm' = {} /\ UNCHANGED <<object, sidecar, harms, acked>>
    BY <1>6, IdleType, BoundsAssumption DEF Crash, files
  <2>2. RequestInv' /\ seen' \in [Requests -> SUBSET Contents]
    BY <1>1, <1>6, <2>1, SeenGrows DEF TypeOK
  <2> QED BY <1>1, <2>1, <2>2, IdleType
          DEF StoreInv, TypeOK, AckInv, AckIsDurable, Deleting, At, WholeInv, NeverTorn
<1> QED BY <1>2, <1>3, <1>4, <1>5, <1>6 DEF Next

\* The invariant of the requests on an object, of its acknowledgements and its
\* bytes, over any number of requests, faults and crashes.
THEOREM StoreInvariant == Spec => []StoreInv
<1>1. Init => StoreInv
  <2> SUFFICES ASSUME Init PROVE StoreInv
    OBVIOUS
  <2>1. 0 \in 0..MaxRefusals /\ 0 \in 0..MaxHarms
    BY BoundsAssumption
  <2>2. request \in [Requests -> RequestState] /\ \A q \in Requests : request[q] = Idle
    BY IdleType DEF Init
  <2>3. TypeOK
    BY <2>1, <2>2 DEF Init, TypeOK, Contents
  <2> QED BY <2>2, <2>3, IdleType
          DEF Init, StoreInv, RequestInv, AckInv, AckIsDurable, Deleting, At, WholeInv,
              NeverTorn
<1> QED BY <1>1, NextStore, PTL DEF Spec

\* The two files, the test hook and the requests keep their types.
THEOREM TypeCorrect == Spec => []TypeOK
BY StoreInvariant, PTL DEF StoreInv

\* A PUT renames a temporary file only after it compared size and hash, so that
\* nothing but damage ever puts other bytes under the key or into its sidecar.
THEOREM WholeCorrect == Spec => []NeverTorn
BY StoreInvariant, PTL DEF StoreInv, WholeInv

\* A PUT that was answered 200 is on disk until somebody deletes or damages it,
\* whatever overlaps it and wherever the node crashes.
THEOREM AckCorrect == Spec => []AckIsDurable
BY StoreInvariant, PTL DEF StoreInv, AckInv

\* Every answer of the node, put together from two files read and written at
\* different times, was true of the object at some instant of its request.
THEOREM AnswersCorrect == Spec => []AnswersAreCurrent
<1>1. StoreInv => AnswersAreCurrent
  BY DEF StoreInv, RequestInv, Current, AnswersAreCurrent, At
<1> QED BY <1>1, StoreInvariant, PTL
=============================================================================
