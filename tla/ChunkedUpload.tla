---------------------------- MODULE ChunkedUpload ----------------------------
(***************************************************************************)
(* The uploader of the web client (apps/web, startChunkedUpload) and the   *)
(* user who pauses, resumes and cancels it, against one upload session of  *)
(* the server. A browser tab is one event loop: a step is one task (a      *)
(* click, an answer, bytes read from disk) with every promise callback it  *)
(* runs. The server's own races are UploadSession's; here it answers, or   *)
(* fails to, one request at a time.                                        *)
(***************************************************************************)
EXTENDS Integers, FiniteSets

CONSTANTS
    Chunks,     \* the chunk indexes of the file
    Parallel,   \* MAX_PARALLEL_CHUNKS
    Delays,     \* number of delays before a chunk is given up
    MaxPauses,  \* bound on pauses
    MaxFaults   \* bound on failing requests, expiry and reloads

ASSUME ChunksAssumption == IsFiniteSet(Chunks)
ASSUME ParallelAssumption == Parallel \in Nat \ {0}
ASSUME DelaysAssumption == Delays \in Nat
ASSUME BoundsAssumption == MaxPauses \in Nat /\ MaxFaults \in Nat

VARIABLES
    main,       \* where the upload's promise stands
    paused, cancelled,
    aborted,    \* the current round's controller was aborted
    chunk,      \* the workers of the current round, by the chunk they are on
    stale,      \* workers of earlier rounds that are still hashing
    completed,  \* the keys of completedSizes
    phase,      \* the last phase reported to onProgress
    shown,      \* the phase whose buttons the page shows
    deleting,   \* cancel waits for its DELETE
    persisted,  \* localStorage has a record of the session
    session,    \* the session on the server
    rows,       \* the chunks it has
    stray,      \* aborted requests that the server may still carry out
    pauses, faults

client == <<main, paused, cancelled, aborted, chunk, stale, completed, phase>>
control == <<paused, cancelled, aborted>>
browser == <<shown, deleting, persisted>>
server == <<session, rows, stray>>
bounds == <<pauses, faults>>
vars == <<client, browser, server, bounds>>

Phases == {"hashing", "uploading", "paused", "completing", "complete",
           "cancelled", "failed"}
Ends == {"complete", "cancelled", "failed"}
Sessions == {"none", "active", "gone", "published"}
Places == {"idle", "queued", "hash", "put", "wait"}

Nowhere == [pc |-> "idle", tries |-> 0]
NoWorkers == [c \in Chunks |-> Nowhere]
On(c, pc) == chunk[c].pc = pc
In(pc) == {c \in Chunks : On(c, pc)}
Interruptible == In("put") \union In("wait")
Terminal == main = "settled"
Fault == faults < MaxFaults /\ faults' = faults + 1

Init ==
    /\ main = "hashing"
    /\ paused = FALSE /\ cancelled = FALSE /\ aborted = FALSE
    /\ chunk = NoWorkers
    /\ stale = 0
    /\ completed = {}
    /\ phase = "hashing" /\ shown = "hashing"
    /\ deleting = FALSE
    /\ \/ session = "none" /\ rows = {} /\ persisted = FALSE
       \/ session = "active" /\ rows \in SUBSET Chunks /\ persisted = TRUE
    /\ stray = {}
    /\ pauses = 0 /\ faults = 0

-----------------------------------------------------------------------------
(* The upload's promise.                                                   *)

\* The catch of the promise: a paused upload reports nothing.
Settle ==
    /\ main' = "settled"
    /\ phase' = IF cancelled THEN "cancelled" ELSE IF paused THEN phase ELSE "failed"

\* The next round takes what is missing, with a controller of its own; its
\* workers stop at once if the user has paused or cancelled meanwhile.
Missing == Chunks \ completed'
Round ==
    /\ aborted' = FALSE
    /\ \/ /\ cancelled
          /\ main' = "settled" /\ phase' = "cancelled" /\ chunk' = NoWorkers
       \/ /\ ~cancelled /\ paused
          /\ main' = "parked" /\ phase' = "paused" /\ chunk' = NoWorkers
       \/ /\ ~cancelled /\ ~paused /\ Missing = {}
          /\ main' = "completing" /\ phase' = "completing" /\ chunk' = NoWorkers
       \/ /\ ~cancelled /\ ~paused /\ Missing # {}
          /\ main' = "round" /\ phase' = "uploading"
          /\ \E first \in SUBSET Missing :
                /\ Cardinality(first) <= Parallel
                /\ first # Missing => Cardinality(first) = Parallel
                /\ chunk' = [c \in Chunks |->
                      [pc |-> IF c \in first THEN "hash"
                              ELSE IF c \in Missing THEN "queued" ELSE "idle",
                       tries |-> 0]]

Hash ==
    /\ main = "hashing"
    /\ IF cancelled THEN Settle ELSE main' = "creating" /\ UNCHANGED phase
    /\ UNCHANGED <<control, chunk, stale, completed, browser, server, bounds>>

\* An active session of the same file is continued with the chunks it has;
\* otherwise there is a new one, and requests on the old one are void.
ServerHasNone == {}                          \* mistake: the answer is not read
ServerHas == rows'
Created ==
    /\ main = "creating"
    /\ session' = "active" /\ persisted' = TRUE
    /\ IF session = "active" THEN UNCHANGED <<rows, stray>> ELSE rows' = {} /\ stray' = {}
    /\ completed' = ServerHas
    /\ Round
    /\ UNCHANGED <<paused, cancelled, stale, shown, deleting, bounds>>

CreateFails ==
    /\ main = "creating"
    /\ Fault
    /\ Settle
    /\ stray' \in {stray, stray \union {"create"}}
    /\ UNCHANGED <<control, chunk, stale, completed, browser, session, rows, pauses>>

\* After a pause the session is asked what it has.
Fetched ==
    /\ main = "fetching" /\ session = "active"
    /\ UNCHANGED server
    /\ completed' = ServerHas
    /\ Round
    /\ UNCHANGED <<paused, cancelled, stale, browser, bounds>>

FetchFails ==
    /\ main = "fetching"
    /\ (session # "active" /\ UNCHANGED faults) \/ Fault
    /\ Settle
    /\ UNCHANGED <<control, chunk, stale, completed, browser, server, pauses>>

Completed ==
    /\ main = "completing" /\ session = "active" /\ rows = Chunks
    /\ session' = "published"
    /\ main' = "settled" /\ phase' = "complete"
    /\ persisted' = FALSE
    /\ UNCHANGED <<control, chunk, stale, completed, shown, deleting, rows, stray, bounds>>

CompleteFails ==
    /\ main = "completing"
    /\ \/ ~(session = "active" /\ rows = Chunks) /\ UNCHANGED <<faults, stray>>
       \/ Fault /\ stray' \in {stray, stray \union {"complete"}}
    /\ Settle
    /\ UNCHANGED <<control, chunk, stale, completed, browser, session, rows, pauses>>

-----------------------------------------------------------------------------
(* The workers of a round.                                                 *)

\* A worker of an aborted round throws: the round is over, and others that
\* are still hashing are left behind.
Interrupt(others) ==
    /\ chunk' = NoWorkers
    /\ stale' = stale + Cardinality(others)
    /\ IF paused' THEN main' = "parked" /\ phase' = "paused"
       ELSE main' = "settled" /\ phase' = IF cancelled' THEN "cancelled" ELSE "failed"

\* The bytes of a chunk are read and hashed, then the flags are looked at.
StoppedNever == FALSE                        \* mistake: only checked before hashing
Stopped == paused \/ cancelled \/ aborted
Hashed(c) ==
    /\ On(c, "hash")
    /\ IF Stopped
       THEN UNCHANGED control /\ Interrupt(In("hash") \ {c})
       ELSE /\ chunk' = [chunk EXCEPT ![c].pc = "put"]
            /\ UNCHANGED <<main, phase, stale, control>>
    /\ UNCHANGED <<completed, browser, server, bounds>>

\* The upload is over when no chunk is left and no worker is at work.
RoundOverEarly(c) == In("queued") = {}       \* mistake: workers are not awaited
RoundOver(c) == \A d \in Chunks \ {c} : On(d, "idle")
Sent(c) ==
    /\ On(c, "put") /\ session = "active"
    /\ rows' = rows \union {c}
    /\ completed' = completed \union {c}
    /\ \/ /\ In("queued") # {}
          /\ \E d \in In("queued") :
                chunk' = [chunk EXCEPT ![c] = Nowhere, ![d] = [pc |-> "hash", tries |-> 0]]
          /\ phase' = "uploading" /\ UNCHANGED main
       \/ /\ In("queued") = {}
          /\ chunk' = [chunk EXCEPT ![c] = Nowhere]
          /\ IF RoundOver(c) /\ main = "round"
             THEN main' = "completing" /\ phase' = "completing"
             ELSE phase' = "uploading" /\ UNCHANGED main
    /\ UNCHANGED <<control, stale, browser, session, stray, bounds>>

\* onUploadProgress.
Progress(c) ==
    /\ On(c, "put") /\ ~Stopped
    /\ phase' = "uploading"
    /\ UNCHANGED <<main, control, chunk, stale, completed, browser, server, bounds>>

\* The network or the server fails, and another attempt follows a delay.
RetriesLonger(c) == chunk[c].tries <= Delays   \* mistake: one delay too many
Retries(c) == chunk[c].tries < Delays
Again(c) ==
    /\ On(c, "put") /\ Fault
    /\ Retries(c)
    /\ chunk' = [chunk EXCEPT ![c] = [pc |-> "wait", tries |-> @.tries + 1]]
    /\ stray' \in {stray, stray \union {c}}
    /\ UNCHANGED <<main, control, stale, completed, phase, browser, session, rows, pauses>>

Waited(c) ==
    /\ On(c, "wait")
    /\ chunk' = [chunk EXCEPT ![c].pc = "put"]
    /\ UNCHANGED <<main, control, stale, completed, phase, browser, server, bounds>>

\* The attempts are used up, or the server refuses the chunk. The first
\* worker to throw ends the upload; the others go on.
GiveUp(c) ==
    /\ On(c, "put")
    /\ \/ Fault /\ stray' \in {stray, stray \union {c}}
       \/ session # "active" /\ UNCHANGED <<faults, stray>>
    /\ chunk' = [chunk EXCEPT ![c] = Nowhere]
    /\ IF main = "round" THEN Settle ELSE phase' = "uploading" /\ UNCHANGED main
    /\ UNCHANGED <<control, stale, completed, browser, session, rows, pauses>>

\* A worker of an aborted round is done hashing and stops.
Stale ==
    /\ stale > 0
    /\ stale' = stale - 1
    /\ phase' = IF paused \/ cancelled THEN phase ELSE "uploading"
    /\ UNCHANGED <<main, control, chunk, completed, browser, server, bounds>>

-----------------------------------------------------------------------------
(* The user. The page offers what uploadActionsForPhase says of the phase  *)
(* it shows; a click on a finished upload does nothing.                    *)

Render ==
    /\ shown # phase
    /\ shown' = phase
    /\ UNCHANGED <<client, deleting, persisted, server, bounds>>

\* What becomes of the requests under way when their page drops them.
Drops ==
    stray' \in {stray \union s : s \in SUBSET (In("put") \union
                  (IF main = "creating" THEN {"create"} ELSE {}) \union
                  (IF main = "completing" THEN {"complete"} ELSE {}))}

\* What abort does to the requests and timers of the current round.
Abort == aborted' = TRUE /\ Drops

Pause ==
    /\ shown = "uploading"
    /\ ~Terminal /\ ~cancelled /\ ~paused /\ main \notin {"hashing", "creating"}
    /\ pauses < MaxPauses /\ pauses' = pauses + 1
    /\ paused' = TRUE
    /\ Abort
    /\ UNCHANGED cancelled
    /\ IF main = "round" /\ Interruptible # {} THEN Interrupt(In("hash"))
       ELSE /\ main' = IF main = "completing" THEN "settled" ELSE main
            /\ phase' = "paused"
            /\ UNCHANGED <<chunk, stale>>
    /\ UNCHANGED <<completed, browser, session, rows, faults>>

WakesNothing(at) == at                       \* mistake: wakeResume is not called
Wakes(at) == IF at = "parked" THEN "fetching" ELSE at
Resume ==
    /\ shown = "paused"
    /\ ~Terminal /\ paused
    /\ paused' = FALSE
    /\ main' = Wakes(main)
    /\ UNCHANGED <<cancelled, aborted, chunk, stale, completed, phase, browser,
                   server, bounds>>

\* Cancelling rejects what can be rejected. The session is deleted if the
\* client knows it, and then the record; a record of an unknown session goes
\* at once.
RejectsRequests(at) == at \in {"creating", "completing"}   \* mistake: nobody is woken
Rejects(at) == at \in {"creating", "parked", "completing"}
Known == main \notin {"hashing", "creating"}
Cancel ==
    /\ shown \notin Ends
    /\ ~Terminal /\ ~cancelled
    /\ cancelled' = TRUE /\ paused' = FALSE
    /\ Abort
    /\ IF main = "round" /\ Interruptible # {} THEN Interrupt(In("hash"))
       ELSE /\ UNCHANGED <<chunk, stale>>
            /\ IF Rejects(main)
               THEN main' = "settled" /\ phase' = "cancelled"
               ELSE UNCHANGED <<main, phase>>
    /\ deleting' = Known
    /\ persisted' = (persisted /\ main # "creating")
    /\ UNCHANGED <<completed, shown, session, rows, bounds>>

Deleted ==
    /\ deleting
    /\ deleting' = FALSE /\ persisted' = FALSE
    /\ \/ session' = (IF session = "active" THEN "gone" ELSE session) /\ UNCHANGED faults
       \/ Fault /\ UNCHANGED session
    /\ UNCHANGED <<client, shown, rows, stray, pauses>>

-----------------------------------------------------------------------------
(* The server on its own, and the tab.                                     *)

\* A request the client no longer waits for is carried out or lost.
Stray(x) ==
    /\ x \in stray
    /\ stray' = stray \ {x}
    /\ \/ UNCHANGED <<session, rows>>
       \/ x = "create" /\ session = "none" /\ session' = "active" /\ UNCHANGED rows
       \/ /\ x = "complete" /\ session = "active" /\ rows = Chunks
          /\ session' = "published" /\ UNCHANGED rows
       \/ /\ x \in Chunks /\ session = "active"
          /\ rows' = rows \union {x} /\ UNCHANGED session
    /\ UNCHANGED <<client, browser, bounds>>

Expire ==
    /\ session = "active" /\ Fault
    /\ session' = "gone"
    /\ UNCHANGED <<client, browser, rows, stray, pauses>>

\* The page is reloaded and the user chooses the same file again.
Reload ==
    /\ Fault
    /\ main' = "hashing" /\ phase' = "hashing" /\ shown' = "hashing"
    /\ paused' = FALSE /\ cancelled' = FALSE /\ aborted' = FALSE
    /\ chunk' = NoWorkers /\ stale' = 0 /\ completed' = {}
    /\ deleting' = FALSE
    /\ Drops
    /\ UNCHANGED <<persisted, session, rows, pauses>>
-----------------------------------------------------------------------------
Promise == Hash \/ Created \/ CreateFails \/ Fetched \/ FetchFails \/ Completed \/ CompleteFails
Work(c) == Hashed(c) \/ Sent(c) \/ Again(c) \/ Waited(c) \/ GiveUp(c)
User == Render \/ Pause \/ Resume \/ Cancel

Next ==
    \/ Promise \/ Stale \/ Deleted \/ User \/ Expire \/ Reload
    \/ \E c \in Chunks : Work(c) \/ Progress(c)
    \/ \E x \in stray : Stray(x)

Spec == Init /\ [][Next]_vars

\* Requests are answered or fail, the disk is read, timers fire; nothing is
\* assumed of the user.
FairSpec ==
    /\ Spec
    /\ WF_vars(Promise) /\ WF_vars(Deleted)
    /\ \A c \in Chunks : WF_vars(Work(c))

-----------------------------------------------------------------------------
(* Properties.                                                             *)

TypeOK ==
    /\ main \in {"hashing", "creating", "fetching", "parked", "round",
                 "completing", "settled"}
    /\ {paused, cancelled, aborted, deleting, persisted} \subseteq BOOLEAN
    /\ chunk \in [Chunks -> [pc: Places, tries: 0..Delays]]
    /\ stale \in 0..(Parallel * (pauses + 1))
    /\ completed \subseteq Chunks /\ rows \subseteq Chunks
    /\ phase \in Phases /\ shown \in Phases
    /\ session \in Sessions
    /\ stray \subseteq Chunks \union {"create", "complete"}
    /\ pauses \in 0..MaxPauses /\ faults \in 0..MaxFaults

\* The upload is only completed when the server has every chunk, after any
\* pauses, aborted requests the server carried out, retries and reloads.
CompletesWhole == main = "completing" /\ session = "active" => rows = Chunks

\* No chunk is on the wire while the upload is paused or cancelled, also
\* none whose worker was hashing when the user clicked.
QuietWhenStopped == paused \/ cancelled => In("put") \union In("wait") = {}

\* Resuming keeps every chunk that was sent: progress never goes back.
ProgressIsKept ==
    [][main = "fetching" /\ main' \in {"round", "completing"}
          => completed \subseteq completed']_vars

\* Whatever the upload was doing, a cancellation settles it and the DELETE
\* is done with; only a reload takes a cancellation back.
CancelEnds == cancelled ~> (~cancelled \/ (Terminal /\ phase = "cancelled" /\ ~deleting))

\* An upload that is not paused comes to an end: no resume, retry or worker
\* leaves its promise hanging.
UploadEnds == ~Terminal ~> (Terminal \/ paused)

-----------------------------------------------------------------------------
(* What tests and documents say and the code does not do.                  *)

\* Pausing and resuming alone never fail an upload.
ResumeContinues == faults = 0 => phase # "failed"

\* A failed upload stays failed, so that the page offers to retry it.
FailureIsFinal == [][phase = "failed" => phase' \in {"failed", "hashing"}]_vars

\* What is shown as paused can be resumed.
PausedCanResume == phase = "paused" => ~Terminal

\* A cancelled upload of which no record is left has no session either.
CancelCleansUp ==
    phase = "cancelled" /\ Terminal /\ ~deleting /\ ~persisted /\ stray = {}
        => session # "active"
=============================================================================
