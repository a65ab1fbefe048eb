----------------------------- MODULE ObjectStore -----------------------------
(***************************************************************************)
(* One object of a storage node (apps/storage-node): the object file, the  *)
(* sidecar file that records its size and SHA-256, and the HTTP requests   *)
(* on its key. The node is one Node.js process without locks: requests     *)
(* interleave at every file-system call, and a crash of the node leaves    *)
(* the two files as they are.                                              *)
(***************************************************************************)
EXTENDS Integers

CONSTANTS
    Requests,     \* concurrent requests
    MaxHarms,     \* bound on damage to the files and failing writes
    MaxRefusals   \* bound on the writes a test asks the node to refuse

ASSUME BoundsAssumption == MaxHarms \in Nat /\ MaxRefusals \in Nat

VARIABLES
    object,    \* the bytes under the key
    sidecar,   \* the bytes whose size and hash the sidecar file records
    refusals,  \* failNextPuts
    request,   \* the state of each request
    harms,     \* damage and failing writes so far
    acked,     \* a PUT was answered 200 and nothing has undone it since
    calm,      \* requests during which nothing was damaged or deleted
    seen       \* the bytes there were under the key during each request

files == <<object, sidecar>>
history == <<acked, calm>>
vars == <<object, sidecar, refusals, request, harms, acked, calm, seen>>

\* "good": what the coordinator stores under the key. "flipped" bytes have
\* the same size, "short" ones another.
Bytes == {"good", "flipped", "short"}
Contents == Bytes \union {"none"}
SameSize(a, b) == a = b \/ {a, b} = {"good", "flipped"}

Kinds == {"put", "replace", "head", "get", "delete"}
Labels == {"idle", "verify", "receive", "rename", "persist", "stat",
           "sidecar", "hash", "rebuild", "stream", "remove", "answered"}
Answers == Contents \union {"ok", "refused", "conflict", "mismatch",
                            "failed", "gone", "broken"}
Parts == {"object", "sidecar"}

RequestState ==
    [pc: Labels, kind: Kinds \union {"none"},
     read: Contents \union {"aborted"},   \* bytes statted, hashed or received
     left: SUBSET Parts,                  \* files still to remove
     answer: Answers]

Idle == [pc |-> "idle", kind |-> "none", read |-> "none", left |-> {},
         answer |-> "none"]

At(r, label) == request[r].pc = label
Step(r, state) == request' = [request EXCEPT ![r] = state]
Goto(r, label) == Step(r, [request[r] EXCEPT !.pc = label])
Start(r, kind, label) == Step(r, [Idle EXCEPT !.pc = label, !.kind = kind])
Carry(r, label, bytes) == Step(r, [request[r] EXCEPT !.pc = label, !.read = bytes])
Answer(r, answer) ==
    Step(r, [request[r] EXCEPT !.pc = "answered", !.read = "none", !.left = {},
                               !.answer = answer])
Harm == harms < MaxHarms /\ harms' = harms + 1

Init ==
    /\ object = "none"
    /\ sidecar = "none"
    /\ refusals = 0
    /\ request = [r \in Requests |-> Idle]
    /\ harms = 0
    /\ acked = FALSE
    /\ calm = {}
    /\ seen = [r \in Requests |-> {}]

-----------------------------------------------------------------------------
(* PUT, with and without X-Allow-Replace.                                  *)

Deleting == \E q \in Requests : request[q].kind = "delete" /\ At(q, "remove")

\* The test hook may have asked for a refusal before the body is read.
BeginPut(r, kind) ==
    /\ At(r, "idle") /\ kind \in {"put", "replace"}
    /\ IF refusals > 0
       THEN /\ refusals' = refusals - 1
            /\ Step(r, [Idle EXCEPT !.pc = "answered", !.kind = kind, !.answer = "refused"])
       ELSE Start(r, kind, "verify") /\ UNCHANGED refusals
    /\ calm' = IF Deleting THEN calm \ {r} ELSE calm \union {r}
    /\ UNCHANGED <<files, harms, acked>>

\* A 200 answer; calm: nothing undid what it acknowledges meanwhile.
Acknowledge(r) == Answer(r, "ok") /\ acked' = (acked \/ r \in calm)

\* An object that is there is hashed. Without X-Allow-Replace it is never
\* touched: the same bytes are acknowledged, others conflict.
MatchesAny(bytes) == bytes \in Bytes    \* mistake: existence is taken for equality
Matches(bytes) == bytes = "good"
Verify(r) ==
    /\ At(r, "verify")
    /\ \/ /\ object = "none" \/ request[r].kind = "replace"
          /\ Goto(r, "receive") /\ UNCHANGED acked
       \/ /\ object # "none" /\ request[r].kind = "put" /\ Matches(object)
          /\ Acknowledge(r)
       \/ /\ object # "none" /\ request[r].kind = "put" /\ ~Matches(object)
          /\ Answer(r, "conflict") /\ UNCHANGED acked
    /\ UNCHANGED <<files, refusals, harms, calm>>

\* The body goes to a temporary file; size and SHA-256 are compared with
\* the headers before the file gets its name.
AcceptsLonger(body) == body \in Bytes   \* mistake: the hash is not compared
AcceptsCutOff(body) == TRUE             \* mistake: an aborted body is kept
Accepts(body) == body = "good"
Receive(r) ==
    /\ At(r, "receive")
    /\ \E body \in Bytes \union {"aborted"} :
          IF Accepts(body)
          THEN Carry(r, "rename", body)
          ELSE Answer(r, IF body = "aborted" THEN "failed" ELSE "mismatch")
    /\ UNCHANGED <<files, refusals, harms, history>>

Rename(r) ==
    /\ At(r, "rename")
    /\ object' = request[r].read
    /\ Goto(r, "persist")
    /\ UNCHANGED <<sidecar, refusals, harms, history>>

Persist(r) ==
    /\ At(r, "persist")
    /\ sidecar' = request[r].read
    /\ Acknowledge(r)
    /\ UNCHANGED <<object, refusals, harms, calm>>

\* The sidecar cannot be written: the PUT fails, its object stays.
PersistFails(r) ==
    /\ At(r, "persist") /\ Harm
    /\ Answer(r, "failed")
    /\ UNCHANGED <<files, refusals, history>>

-----------------------------------------------------------------------------
(* HEAD and GET.                                                           *)

BeginRead(r, kind) ==
    /\ At(r, "idle") /\ kind \in {"head", "get"}
    /\ Start(r, kind, "stat")
    /\ UNCHANGED <<files, refusals, harms, history>>

\* The metadata is known: HEAD is answered, GET goes on to the bytes.
Known(r, bytes) ==
    IF request[r].kind = "get" THEN Carry(r, "stream", "none") ELSE Answer(r, bytes)

Stat(r) ==
    /\ At(r, "stat")
    /\ IF object = "none" THEN Answer(r, "none")
       ELSE Carry(r, "sidecar", object)
    /\ UNCHANGED <<files, refusals, harms, history>>

\* The sidecar is believed if it records the size that the object has.
BelievedAlways(r) == sidecar # "none"   \* mistake: the size is not compared
Believed(r) == sidecar # "none" /\ SameSize(sidecar, request[r].read)
ReadSidecar(r) ==
    /\ At(r, "sidecar")
    /\ IF Believed(r) THEN Known(r, sidecar) ELSE Goto(r, "hash")
    /\ UNCHANGED <<files, refusals, harms, history>>

\* Otherwise the object is hashed and the sidecar written anew.
Hash(r) ==
    /\ At(r, "hash")
    /\ IF object = "none" THEN Answer(r, "none")
       ELSE Carry(r, "rebuild", object)
    /\ UNCHANGED <<files, refusals, harms, history>>

Rebuild(r) ==
    /\ At(r, "rebuild")
    /\ sidecar' = request[r].read
    /\ Known(r, request[r].read)
    /\ UNCHANGED <<object, refusals, harms, history>>

\* The file is opened after the headers were decided.
Stream(r) ==
    /\ At(r, "stream")
    /\ Answer(r, IF object = "none" THEN "broken" ELSE object)
    /\ UNCHANGED <<files, refusals, harms, history>>

-----------------------------------------------------------------------------
(* DELETE, faults and restart.                                             *)

BeginDelete(r) ==
    /\ At(r, "idle")
    /\ Step(r, [Idle EXCEPT !.pc = "remove", !.kind = "delete", !.left = Parts])
    /\ acked' = FALSE
    /\ calm' = {}
    /\ UNCHANGED <<files, refusals, harms>>

\* Both files are removed at the same time, in any order.
Remove(r, part) ==
    /\ At(r, "remove") /\ part \in request[r].left
    /\ IF part = "object" THEN object' = "none" /\ UNCHANGED sidecar
       ELSE sidecar' = "none" /\ UNCHANGED object
    /\ IF request[r].left = {part} THEN Answer(r, "gone")
       ELSE Step(r, [request[r] EXCEPT !.left = @ \ {part}])
    /\ UNCHANGED <<refusals, harms, history>>

\* The response is out.
Close(r) ==
    /\ At(r, "answered")
    /\ Step(r, Idle)
    /\ calm' = calm \ {r}
    /\ UNCHANGED <<files, refusals, harms, acked>>

\* The test hook of the node that inverts the first byte.
Corrupt ==
    /\ object \in {"good", "flipped"} /\ Harm
    /\ object' = IF object = "good" THEN "flipped" ELSE "good"
    /\ acked' = FALSE /\ calm' = {}
    /\ UNCHANGED <<sidecar, refusals, request>>

\* The disk loses bytes of the object, or all of it.
Decay ==
    /\ object # "none" /\ Harm
    /\ object' \in {"short", "none"}
    /\ acked' = FALSE /\ calm' = {}
    /\ UNCHANGED <<sidecar, refusals, request>>

SetRefusals(n) ==
    /\ refusals' = n
    /\ UNCHANGED <<files, request, harms, history>>

\* Temporary files may stay behind; nothing reads them.
Crash ==
    /\ request' = [r \in Requests |-> Idle]
    /\ refusals' = 0
    /\ calm' = {}
    /\ UNCHANGED <<files, harms, acked>>

-----------------------------------------------------------------------------
Observe ==
    seen' = [r \in Requests |-> IF request'[r].pc = "idle" THEN {}
                                ELSE seen[r] \union {object'}]

Serve(r) ==
    \/ \E kind \in Kinds : BeginPut(r, kind) \/ BeginRead(r, kind)
    \/ Verify(r) \/ Receive(r) \/ Rename(r) \/ Persist(r) \/ PersistFails(r)
    \/ Stat(r) \/ ReadSidecar(r) \/ Hash(r) \/ Rebuild(r) \/ Stream(r)
    \/ BeginDelete(r) \/ Close(r)
    \/ \E part \in Parts : Remove(r, part)

Next ==
    /\ \/ \E r \in Requests : Serve(r)
       \/ Corrupt \/ Decay \/ Crash
       \/ \E n \in 0..MaxRefusals : SetRefusals(n)
    /\ Observe

Spec == Init /\ [][Next]_vars

-----------------------------------------------------------------------------
(* Properties.                                                             *)

TypeOK ==
    /\ object \in Contents
    /\ sidecar \in Contents
    /\ refusals \in 0..MaxRefusals
    /\ request \in [Requests -> RequestState]
    /\ harms \in 0..MaxHarms
    /\ acked \in BOOLEAN
    /\ calm \subseteq Requests
    /\ seen \in [Requests -> SUBSET Contents]

\* As long as nothing damages it, what is under the key is never part of an
\* upload or an upload that failed its checks, and the sidecar never records
\* such bytes, whatever PUTs, rebuilds and deletions overlap and wherever the
\* node crashes.
NeverTorn == harms = 0 => {object, sidecar} \subseteq {"none", "good"}

\* A PUT that was answered 200 is on disk, through crashes and beside any
\* other PUT, until somebody deletes or damages the object.
AckIsDurable == acked => object = "good"

\* What an answer says of the bytes that were under the key in the meantime.
TrueOf(answer, kind, meantime) ==
    /\ answer \in {"none", "broken", "gone"} => "none" \in meantime
    /\ answer = "ok" => "good" \in meantime
    /\ answer = "conflict" => meantime \ {"none", "good"} # {}
    /\ answer \in Bytes => \E bytes \in meantime : SameSize(answer, bytes)
    /\ answer \in Bytes /\ kind = "get" => answer \in meantime

\* Every answer was true at some instant of its request, although it is put
\* together from files read and written at different times: a PUT that was
\* answered 200 has stored its object or found it, a conflicting one has found
\* another, a DELETE has seen it gone; HEAD gives a size the object had (the
\* sidecar may hide same-size damage), GET bytes it had, and neither calls it
\* missing without it having been missing.
AnswersAreCurrent ==
    \A r \in Requests :
        At(r, "answered") => TrueOf(request[r].answer, request[r].kind, seen[r])

\* Once every request is answered, the sidecar beside an acknowledged object
\* is the sidecar of that object.
SidecarIsOfObject ==
    acked /\ (\A r \in Requests : At(r, "idle")) => sidecar \in {"none", "good"}
=============================================================================
