------------------------ MODULE ChunkedUploadProofs -------------------------
(***************************************************************************)
(* What holds in ChunkedUpload for files of any number of chunks, however  *)
(* often the user pauses and the network fails: its types, with a bound on *)
(* the workers that are left behind; that an upload is completed whole,    *)
(* that nothing is on the wire while it is stopped, and that resuming      *)
(* keeps what was sent.                                                    *)
(***************************************************************************)
EXTENDS ChunkedUpload, FiniteSetTheorems, TLAPS

Worker == [pc: Places, tries: 0..Delays]

\* TypeOK without the bound on the workers left behind.
DataOK ==
    /\ main \in {"hashing", "creating", "fetching", "parked", "round",
                 "completing", "settled"}
    /\ paused \in BOOLEAN /\ cancelled \in BOOLEAN /\ aborted \in BOOLEAN
    /\ deleting \in BOOLEAN /\ persisted \in BOOLEAN
    /\ chunk \in [Chunks -> Worker]
    /\ stale \in Nat
    /\ completed \subseteq Chunks /\ rows \subseteq Chunks
    /\ phase \in Phases /\ shown \in Phases
    /\ session \in Sessions
    /\ stray \subseteq Chunks \union {"create", "complete"}
    /\ pauses \in 0..MaxPauses /\ faults \in 0..MaxFaults

\* Whoever asked a round to stop: every pause and the cancellation can leave
\* one round's workers behind.
Busy == In("hash") \union Interruptible
Stops == pauses + (IF cancelled THEN 1 ELSE 0)
StaleInv ==
    /\ Cardinality(Busy) <= Parallel
    /\ stale <= Parallel * Stops
    /\ Busy # {} /\ (paused \/ cancelled) => aborted
    /\ Busy # {} /\ aborted => stale + Parallel <= Parallel * Stops

\* The client never counts a chunk that the session does not have.
KeptInv == session \in {"none", "active"} => completed \subseteq rows

\* What the workers have to do with the chunks that are missing.
WholeInv ==
    /\ main = "completing" => completed = Chunks
    /\ main = "round" => \A c \in Chunks : On(c, "idle") => c \in completed

\* Only a round, or one that failed, has workers.
QuietInv ==
    /\ QuietWhenStopped
    /\ main \notin {"round", "settled"} => \A c \in Chunks : On(c, "idle")

UploaderInv == DataOK /\ StaleInv /\ KeptInv /\ WholeInv /\ QuietInv

-----------------------------------------------------------------------------
(* What the steps do to the workers.                                       *)

LEMMA NoWorkersType ==
  /\ Nowhere \in Worker /\ Nowhere.pc = "idle"
  /\ NoWorkers \in [Chunks -> Worker]
  /\ \A c \in Chunks : NoWorkers[c].pc = "idle"
<1>1. Nowhere \in Worker /\ Nowhere.pc = "idle"
  BY DelaysAssumption DEF Nowhere, Worker, Places
<1> QED BY <1>1 DEF NoWorkers

LEMMA NobodyBusy ==
  ASSUME chunk' = NoWorkers
  PROVE  Busy' = {} /\ Interruptible' = {} /\ Cardinality(Busy') = 0
<1>1. Busy' = {} /\ Interruptible' = {}
  BY NoWorkersType DEF Busy, Interruptible, In, On
<1> QED BY <1>1, FS_EmptySet

\* A set of chunks is finite, and so is what is counted.
LEMMA ChunksFinite ==
  ASSUME NEW S \in SUBSET Chunks
  PROVE  IsFiniteSet(S) /\ Cardinality(S) \in Nat
  BY ChunksAssumption, FS_Subset, FS_CardinalityType

\* A round starts with at most Parallel workers, all of them hashing, and the
\* others of the missing chunks queued.
LEMMA RoundMoves ==
  ASSUME completed' \in SUBSET Chunks, Round
  PROVE  /\ aborted' = FALSE /\ phase' \in Phases /\ chunk' \in [Chunks -> Worker]
         /\ main' \in {"settled", "parked", "completing", "round"}
         /\ main' # "round" => chunk' = NoWorkers
         /\ main' = "round" => ~paused /\ ~cancelled
         /\ Interruptible' = {} /\ Cardinality(Busy') <= Parallel
         /\ main' = "completing" => completed' = Chunks
         /\ main' = "round" => \A c \in Chunks : On(c, "idle")' => c \in completed'
<1>1. CASE chunk' = NoWorkers /\ main' # "round"
  BY <1>1, NoWorkersType, NobodyBusy, ParallelAssumption DEF Round, Phases, Missing
<1>2. ASSUME NEW first \in SUBSET Missing, Cardinality(first) <= Parallel, Missing # {},
             ~cancelled, ~paused, main' = "round", phase' = "uploading",
             chunk' = [c \in Chunks |->
                         [pc |-> IF c \in first THEN "hash"
                                 ELSE IF c \in Missing THEN "queued" ELSE "idle",
                          tries |-> 0]]
      PROVE  /\ phase' \in Phases /\ chunk' \in [Chunks -> Worker]
             /\ Interruptible' = {} /\ Cardinality(Busy') <= Parallel
             /\ \A c \in Chunks : On(c, "idle")' => c \in completed'
  <2>1. \A c \in Chunks :
           /\ chunk'[c].pc = IF c \in first THEN "hash"
                             ELSE IF c \in Missing THEN "queued" ELSE "idle"
           /\ chunk'[c] \in Worker
    BY <1>2, DelaysAssumption DEF Worker, Places
  <2>2. Interruptible' = {} /\ Busy' = first
    BY <1>2, <2>1 DEF Busy, Interruptible, In, On, Missing
  <2>3. chunk' \in [Chunks -> Worker]
    BY <1>2, <2>1
  <2> QED BY <1>2, <2>1, <2>2, <2>3 DEF Phases, On, Missing
<1>3. aborted' = FALSE
  BY DEF Round
<1>4. \/ chunk' = NoWorkers /\ main' # "round"
      \/ /\ ~cancelled /\ ~paused /\ Missing # {} /\ main' = "round" /\ phase' = "uploading"
         /\ \E first \in SUBSET Missing :
               /\ Cardinality(first) <= Parallel
               /\ chunk' = [c \in Chunks |->
                              [pc |-> IF c \in first THEN "hash"
                                      ELSE IF c \in Missing THEN "queued" ELSE "idle",
                               tries |-> 0]]
  BY DEF Round
<1>5. CASE ~(chunk' = NoWorkers /\ main' # "round")
  BY <1>2, <1>3, <1>4, <1>5
<1> QED BY <1>1, <1>5
-----------------------------------------------------------------------------
(* Types.                                                                  *)

LEMMA SettleType ==
  ASSUME DataOK, Settle
  PROVE  main' = "settled" /\ phase' \in Phases
  BY DEF DataOK, Settle, Phases

LEMMA FaultType ==
  ASSUME DataOK, Fault
  PROVE  faults' \in 0..MaxFaults
  BY BoundsAssumption DEF DataOK, Fault

LEMMA InterruptType ==
  ASSUME DataOK, NEW S \in SUBSET Chunks, Interrupt(S)
  PROVE  /\ main' \in {"parked", "settled"} /\ phase' \in Phases
         /\ chunk' = NoWorkers /\ chunk' \in [Chunks -> Worker] /\ stale' \in Nat
  BY ChunksFinite, NoWorkersType DEF DataOK, Interrupt, Phases

\* The steps of the upload's promise.
LEMMA PromiseType ==
  ASSUME DataOK, Promise
  PROVE  DataOK'
<1> USE DEF control, browser, server, bounds
<1>1. CASE Hash
  BY <1>1, SettleType DEF Hash, DataOK
<1>2. CASE Created
  <2>1. completed' \in SUBSET Chunks /\ rows' \in SUBSET Chunks
        /\ stray' \subseteq Chunks \union {"create", "complete"}
    BY <1>2 DEF Created, ServerHas, DataOK
  <2>2. Round
    BY <1>2 DEF Created
  <2>3. /\ aborted' = FALSE /\ phase' \in Phases /\ chunk' \in [Chunks -> Worker]
        /\ main' \in {"settled", "parked", "completing", "round"}
    BY <2>1, <2>2, RoundMoves
  <2> QED BY <1>2, <2>1, <2>3 DEF Created, DataOK, Sessions
<1>3. CASE Fetched
  <2>1. completed' \in SUBSET Chunks
    BY <1>3 DEF Fetched, ServerHas, DataOK
  <2>2. Round
    BY <1>3 DEF Fetched
  <2>3. /\ aborted' = FALSE /\ phase' \in Phases /\ chunk' \in [Chunks -> Worker]
        /\ main' \in {"settled", "parked", "completing", "round"}
    BY <2>1, <2>2, RoundMoves
  <2> QED BY <1>3, <2>1, <2>3 DEF Fetched, DataOK
<1>4. CASE CreateFails
  BY <1>4, SettleType, FaultType DEF CreateFails, DataOK
<1>5. CASE FetchFails
  BY <1>5, SettleType, FaultType DEF FetchFails, DataOK
<1>6. CASE Completed
  BY <1>6 DEF Completed, DataOK, Sessions, Phases
<1>7. CASE CompleteFails
  BY <1>7, SettleType, FaultType DEF CompleteFails, DataOK
<1> QED BY <1>1, <1>2, <1>3, <1>4, <1>5, <1>6, <1>7 DEF Promise

\* One worker goes on to another place.
LEMMA WorkerType ==
  ASSUME DataOK, NEW c \in Chunks, NEW w \in Worker
  PROVE  [chunk EXCEPT ![c] = w] \in [Chunks -> Worker]
  BY DEF DataOK

\* The steps of the workers.
LEMMA WorkType ==
  ASSUME DataOK, NEW c \in Chunks, Work(c) \/ Progress(c)
  PROVE  DataOK'
<1> USE DEF control, browser, server, bounds
<1>1. CASE Hashed(c)
  <2>1. CASE Stopped
    BY <1>1, <2>1, InterruptType DEF Hashed, In, DataOK
  <2>2. CASE ~Stopped
    <3>1. chunk' \in [Chunks -> Worker]
      BY <1>1, <2>2 DEF Hashed, DataOK, Worker, Places
    <3> QED BY <1>1, <2>2, <3>1 DEF Hashed, DataOK
  <2> QED BY <2>1, <2>2
<1>2. CASE Sent(c)
  <2>1. chunk' \in [Chunks -> Worker]
    <3>1. [pc |-> "hash", tries |-> 0] \in Worker
      BY DelaysAssumption DEF Worker, Places
    <3> QED BY <1>2, <3>1, NoWorkersType DEF Sent, DataOK
  <2>2. main' \in {main, "completing"} /\ phase' \in Phases
    BY <1>2 DEF Sent, Phases
  <2> QED BY <1>2, <2>1, <2>2 DEF Sent, DataOK
<1>3. CASE Progress(c)
  BY <1>3 DEF Progress, DataOK, Phases
<1>4. CASE Again(c)
  <2>1. [pc |-> "wait", tries |-> chunk[c].tries + 1] \in Worker
    BY <1>4, DelaysAssumption DEF Again, Retries, DataOK, Worker, Places
  <2>2. chunk' = [chunk EXCEPT ![c] = [pc |-> "wait", tries |-> chunk[c].tries + 1]]
    BY <1>4 DEF Again, DataOK
  <2>3. chunk' \in [Chunks -> Worker]
    BY <2>1, <2>2, WorkerType
  <2> QED BY <1>4, <2>3, FaultType DEF Again, DataOK
<1>5. CASE Waited(c)
  <2>1. chunk' \in [Chunks -> Worker]
    BY <1>5 DEF Waited, DataOK, Worker, Places
  <2> QED BY <1>5, <2>1 DEF Waited, DataOK
<1>6. CASE GiveUp(c)
  <2>1. chunk' \in [Chunks -> Worker]
    BY <1>6, NoWorkersType, WorkerType DEF GiveUp
  <2>2. main' \in {main, "settled"} /\ phase' \in Phases
    BY <1>6, SettleType DEF GiveUp, Phases
  <2>3. faults' \in 0..MaxFaults /\ stray' \subseteq Chunks \union {"create", "complete"}
    BY <1>6, FaultType DEF GiveUp, DataOK
  <2> QED BY <1>6, <2>1, <2>2, <2>3 DEF GiveUp, DataOK
<1> QED BY <1>1, <1>2, <1>3, <1>4, <1>5, <1>6 DEF Work

\* What an abort or a reload leaves behind is a request the client has made.
LEMMA DropsType ==
  ASSUME DataOK, Drops
  PROVE  stray' \subseteq Chunks \union {"create", "complete"}
  BY DEF Drops, In, DataOK
LEMMA AbortType ==
  ASSUME DataOK, Abort
  PROVE  aborted' = TRUE /\ stray' \subseteq Chunks \union {"create", "complete"}
  BY DropsType DEF Abort

\* The steps of the user, the tab and the server.
LEMMA OtherType ==
  ASSUME DataOK, \/ Stale \/ Deleted \/ User \/ Expire \/ Reload \/ \E x \in stray : Stray(x)
  PROVE  DataOK'
<1> USE DEF client, control, browser, server, bounds
<1>1. CASE Stale
  BY <1>1 DEF Stale, DataOK, Phases
<1>2. CASE Deleted
  BY <1>2, FaultType DEF Deleted, DataOK, Sessions
<1>3. CASE Render
  BY <1>3 DEF Render, DataOK
<1>4. CASE Pause
  <2>1. pauses' \in 0..MaxPauses
    BY <1>4, BoundsAssumption DEF Pause, DataOK
  <2>2. In("hash") \in SUBSET Chunks
    BY DEF In
  <2>3. /\ main' \in {"parked", "settled", main} /\ phase' \in Phases
        /\ chunk' \in [Chunks -> Worker] /\ stale' \in Nat
    BY <1>4, <2>2, InterruptType DEF Pause, DataOK, Phases
  <2> QED BY <1>4, <2>1, <2>3, AbortType DEF Pause, DataOK
<1>5. CASE Resume
  BY <1>5 DEF Resume, Wakes, DataOK
<1>6. CASE Cancel
  <2>1. In("hash") \in SUBSET Chunks
    BY DEF In
  <2>2. /\ main' \in {"parked", "settled", main} /\ phase' \in Phases
        /\ chunk' \in [Chunks -> Worker] /\ stale' \in Nat
    BY <1>6, <2>1, InterruptType DEF Cancel, DataOK, Phases
  <2>3. deleting' \in BOOLEAN /\ persisted' \in BOOLEAN
    BY <1>6 DEF Cancel, Known, DataOK
  <2> QED BY <1>6, <2>2, <2>3, AbortType DEF Cancel, DataOK
<1>7. CASE Expire
  BY <1>7, FaultType DEF Expire, DataOK, Sessions
<1>8. CASE Reload
  BY <1>8, FaultType, NoWorkersType, DropsType DEF Reload, DataOK, Phases
<1>9. ASSUME NEW x \in stray, Stray(x) PROVE DataOK'
  BY <1>9 DEF Stray, DataOK, Sessions
<1> QED BY <1>1, <1>2, <1>3, <1>4, <1>5, <1>6, <1>7, <1>8, <1>9 DEF User

\* Every step keeps the types.
LEMMA NextType ==
  ASSUME DataOK, [Next]_vars
  PROVE  DataOK'
<1>1. CASE UNCHANGED vars
  BY <1>1 DEF vars, client, browser, server, bounds, DataOK
<1> QED BY <1>1, PromiseType, WorkType, OtherType DEF Next
-----------------------------------------------------------------------------
(* What the client counts, and what the server has.                        *)

LEMMA NextKept ==
  ASSUME DataOK, KeptInv, [Next]_vars
  PROVE  KeptInv'
<1> USE DEF KeptInv, client, control, browser, server, bounds
<1>1. CASE UNCHANGED <<session, completed, rows>>
  BY <1>1
<1>2. CASE Created \/ Fetched
  BY <1>2 DEF Created, Fetched, ServerHas
<1>3. CASE Completed \/ Expire
  BY <1>3 DEF Completed, Expire
<1>4. CASE Hash \/ CreateFails \/ FetchFails \/ CompleteFails
  BY <1>1, <1>4 DEF Hash, CreateFails, FetchFails, CompleteFails
<1>5. ASSUME NEW c \in Chunks, Sent(c) PROVE KeptInv'
  BY <1>5 DEF Sent
<1>6. ASSUME NEW c \in Chunks, Hashed(c) \/ Again(c) \/ Waited(c) \/ GiveUp(c) \/ Progress(c)
      PROVE  KeptInv'
  BY <1>1, <1>6 DEF Hashed, Again, Waited, GiveUp, Progress
<1>7. CASE Stale \/ User
  BY <1>1, <1>7 DEF Stale, User, Render, Pause, Resume, Cancel
<1>8. CASE Deleted \/ Reload
  BY <1>8 DEF Deleted, Reload
<1>9. ASSUME NEW x \in stray, Stray(x) PROVE KeptInv'
  BY <1>9 DEF Stray
<1>10. CASE UNCHANGED vars
  BY <1>1, <1>10 DEF vars
<1> QED BY <1>2, <1>3, <1>4, <1>5, <1>6, <1>7, <1>8, <1>9, <1>10 DEF Next, Promise, Work

-----------------------------------------------------------------------------
(* What the workers of a round still have to do, and when they are quiet.  *)

RoundInv == WholeInv /\ QuietInv

LEMMA SettledRound ==
  ASSUME RoundInv, Settle, UNCHANGED <<control, chunk, completed>>
  PROVE  RoundInv'
  BY DEF Settle, RoundInv, WholeInv, QuietInv, QuietWhenStopped, Interruptible, In, On, control

\* A round that is interrupted leaves nothing on the wire.
LEMMA InterruptedRound ==
  ASSUME NEW S, Interrupt(S)
  PROVE  RoundInv'
<1>1. chunk' = NoWorkers /\ main' \in {"parked", "settled"}
  BY DEF Interrupt
<1>2. Interruptible' = {} /\ \A c \in Chunks : On(c, "idle")'
  BY <1>1, NobodyBusy, NoWorkersType DEF On
<1> QED BY <1>1, <1>2 DEF RoundInv, WholeInv, QuietInv, QuietWhenStopped, Interruptible

LEMMA PromiseRound ==
  ASSUME DataOK, RoundInv, Promise
  PROVE  RoundInv'
<1>1. CASE Hash
  BY <1>1, SettledRound
     DEF Hash, RoundInv, WholeInv, QuietInv, QuietWhenStopped, Interruptible, In, On, control
<1>2. CASE Created \/ Fetched
  <2>1. completed' \in SUBSET Chunks
    BY <1>2 DEF Created, Fetched, ServerHas, DataOK, server
  <2>2. Round
    BY <1>2 DEF Created, Fetched
  <2>3. /\ main' # "round" => chunk' = NoWorkers
        /\ Interruptible' = {}
        /\ main' = "completing" => completed' = Chunks
        /\ main' = "round" => \A c \in Chunks : On(c, "idle")' => c \in completed'
    BY <2>1, <2>2, RoundMoves
  <2>4. main' \notin {"round", "settled"} => \A c \in Chunks : On(c, "idle")'
    BY <2>3, NoWorkersType DEF On
  <2> QED BY <2>3, <2>4 DEF RoundInv, WholeInv, QuietInv, QuietWhenStopped, Interruptible
<1>3. CASE CreateFails \/ FetchFails \/ CompleteFails
  BY <1>3, SettledRound DEF CreateFails, FetchFails, CompleteFails
<1>4. CASE Completed
  BY <1>4 DEF Completed, control, RoundInv, WholeInv, QuietInv, QuietWhenStopped, Interruptible,
              In, On
<1> QED BY <1>1, <1>2, <1>3, <1>4 DEF Promise

LEMMA WorkRound ==
  ASSUME DataOK, RoundInv, NEW c \in Chunks, Work(c) \/ Progress(c)
  PROVE  RoundInv'
<1> USE DEF control, DataOK
<1>1. /\ On(c, "idle") <=> chunk[c].pc = "idle"
      /\ chunk[c] \in Worker
      /\ main \notin {"round", "settled"} => chunk[c].pc = "idle"
  BY NoWorkersType DEF RoundInv, QuietInv, On
<1>2. chunk[c].pc \in {"put", "wait"} => ~paused /\ ~cancelled
  BY DEF RoundInv, QuietInv, QuietWhenStopped, In, On
<1>3. CASE Hashed(c)
  <2>1. CASE Stopped
    BY <1>3, <2>1, InterruptedRound DEF Hashed
  <2>2. CASE ~Stopped
    <3>1. /\ ~paused' /\ ~cancelled' /\ main' = main /\ completed' = completed
          /\ chunk' = [chunk EXCEPT ![c].pc = "put"]
      BY <1>3, <2>2 DEF Hashed, Stopped
    <3>2. \A e \in Chunks : On(e, "idle")' => On(e, "idle")
      BY <3>1 DEF On, Worker
    <3>3. main \in {"round", "settled"}
      BY <1>1, <1>3 DEF Hashed, On
    <3> QED BY <3>1, <3>2, <3>3 DEF RoundInv, WholeInv, QuietInv, QuietWhenStopped
  <2> QED BY <2>1, <2>2
<1>4. CASE Sent(c)
  <2>1. ~paused /\ ~cancelled /\ main \in {"round", "settled"}
    BY <1>1, <1>2, <1>4 DEF Sent, On
  <2>2. CASE In("queued") # {}
    <3>1. PICK d \in In("queued") :
             chunk' = [chunk EXCEPT ![c] = Nowhere, ![d] = [pc |-> "hash", tries |-> 0]]
      BY <1>4, <2>2 DEF Sent
    <3>2. main' = main /\ completed' = completed \union {c} /\ UNCHANGED <<paused, cancelled>>
      BY <1>4, <2>2 DEF Sent
    <3>3. \A e \in Chunks : On(e, "idle")' => e = c \/ On(e, "idle")
      BY <3>1 DEF On, In, Worker
    <3> QED BY <2>1, <3>2, <3>3 DEF RoundInv, WholeInv, QuietInv, QuietWhenStopped
  <2>3. CASE In("queued") = {}
    <3>1. chunk' = [chunk EXCEPT ![c] = Nowhere] /\ completed' = completed \union {c}
          /\ UNCHANGED <<paused, cancelled>>
      BY <1>4, <2>3 DEF Sent
    <3>2. \A e \in Chunks : e # c => chunk'[e] = chunk[e]
      BY <3>1
    <3>3. CASE RoundOver(c) /\ main = "round"
      <4>1. main' = "completing"
        BY <1>4, <2>3, <3>3 DEF Sent
      <4>2. completed' = Chunks
        BY <3>1, <3>3 DEF RoundOver, RoundInv, WholeInv
      <4>3. \A e \in Chunks : On(e, "idle")'
        BY <3>1, <3>2, <3>3, NoWorkersType DEF RoundOver, On
      <4> QED BY <2>1, <3>1, <4>1, <4>2, <4>3 DEF RoundInv, WholeInv, QuietInv, QuietWhenStopped
    <3>4. CASE ~(RoundOver(c) /\ main = "round")
      <4>1. main' = main
        BY <1>4, <2>3, <3>4 DEF Sent
      <4> QED BY <2>1, <3>1, <3>2, <4>1 DEF RoundInv, WholeInv, QuietInv, QuietWhenStopped, On
    <3> QED BY <3>3, <3>4
  <2> QED BY <2>2, <2>3
<1>5. CASE Progress(c)
  BY <1>5 DEF Progress, On, In, RoundInv, WholeInv, QuietInv, QuietWhenStopped
<1>6. CASE Again(c) \/ Waited(c)
  <2>1. ~paused /\ ~cancelled /\ main \in {"round", "settled"}
    BY <1>1, <1>2, <1>6 DEF Again, Waited, On
  <2>2. UNCHANGED <<main, paused, cancelled, completed>>
    BY <1>6 DEF Again, Waited
  <2>3. \A e \in Chunks : On(e, "idle")' => On(e, "idle")
    BY <1>6 DEF Again, Waited, On, Worker
  <2> QED BY <2>1, <2>2, <2>3 DEF RoundInv, WholeInv, QuietInv, QuietWhenStopped
<1>7. CASE GiveUp(c)
  <2>1. ~paused /\ ~cancelled /\ main \in {"round", "settled"}
    BY <1>1, <1>2, <1>7 DEF GiveUp, On
  <2>2. main' = "settled" /\ UNCHANGED <<paused, cancelled, completed>>
    BY <1>7, <2>1 DEF GiveUp, Settle
  <2> QED BY <2>1, <2>2 DEF RoundInv, WholeInv, QuietInv, QuietWhenStopped
<1> QED BY <1>3, <1>4, <1>5, <1>6, <1>7 DEF Work

LEMMA OtherRound ==
  ASSUME DataOK, RoundInv,
         \/ Stale \/ Deleted \/ User \/ Expire \/ Reload \/ \E x \in stray : Stray(x)
  PROVE  RoundInv'
<1> USE DEF client, control, browser, server, bounds
<1>1. CASE UNCHANGED <<main, control, chunk, completed>>
  BY <1>1 DEF RoundInv, WholeInv, QuietInv, QuietWhenStopped, In, On
<1>2. CASE Stale \/ Deleted \/ Render \/ Expire \/ \E x \in stray : Stray(x)
  BY <1>1, <1>2 DEF Stale, Deleted, Render, Expire, Stray
<1>3. CASE Pause \/ Cancel
  <2>1. CASE main = "round" /\ Interruptible # {}
    BY <1>3, <2>1, InterruptedRound DEF Pause, Cancel
  <2>2. CASE ~(main = "round" /\ Interruptible # {})
    <3>1. UNCHANGED <<chunk, completed>> /\ main' \in {main, "settled"} /\ main # "settled"
      BY <1>3, <2>2 DEF Pause, Cancel, Terminal
    <3>2. Interruptible = {}
      BY <2>2, <3>1, NoWorkersType DEF RoundInv, QuietInv, Interruptible, In, On
    <3> QED BY <3>1, <3>2
            DEF RoundInv, WholeInv, QuietInv, QuietWhenStopped, Interruptible, In, On
  <2> QED BY <2>1, <2>2
<1>4. CASE Resume
  BY <1>4 DEF Resume, Wakes, RoundInv, WholeInv, QuietInv, QuietWhenStopped, In, On
<1>5. CASE Reload
  <2>1. Interruptible' = {} /\ \A c \in Chunks : On(c, "idle")'
    BY <1>5, NobodyBusy, NoWorkersType DEF Reload, On
  <2> QED BY <1>5, <2>1 DEF Reload, RoundInv, WholeInv, QuietInv, QuietWhenStopped, Interruptible
<1> QED BY <1>2, <1>3, <1>4, <1>5 DEF User
-----------------------------------------------------------------------------
(* How many workers are left behind.                                       *)

\* Every stop allows for the workers of one round.
LEMMA Allowance ==
  \A n \in Nat : Parallel * n \in Nat /\ Parallel * (n + 1) = Parallel * n + Parallel
BY ParallelAssumption

LEMMA StopsType ==
  ASSUME DataOK
  PROVE  Stops \in Nat /\ pauses \in Nat /\ (Stops = pauses \/ Stops = pauses + 1)
<1>1. pauses \in Nat
  BY BoundsAssumption DEF DataOK
<1> QED BY <1>1 DEF Stops

LEMMA NextStops ==
  ASSUME DataOK'
  PROVE  Stops' \in Nat
<1>1. pauses' \in Nat
  BY BoundsAssumption DEF DataOK
<1>2. Stops' = pauses' \/ Stops' = pauses' + 1
  <2>1. CASE cancelled'
    BY <1>1, <2>1 DEF Stops
  <2>2. CASE ~cancelled'
    <3>1. Stops' = pauses' + 0
      BY <2>2 DEF Stops
    <3>2. \A n \in Nat : n + 0 = n
      OBVIOUS
    <3> QED BY <1>1, <3>1, <3>2
  <2> QED BY <2>1, <2>2
<1> QED BY <1>1, <1>2

LEMMA BusyType == Busy \in SUBSET Chunks /\ In("hash") \in SUBSET Busy
  BY DEF Busy, Interruptible, In

\* Workers that finish, or go on to another place, leave no more behind.
LEMMA FewerBusy ==
  ASSUME StaleInv, Busy' \subseteq Busy, UNCHANGED <<paused, cancelled, aborted, stale, pauses>>
  PROVE  StaleInv'
<1>1. Cardinality(Busy') <= Cardinality(Busy)
  BY BusyType, ChunksFinite, FS_Subset
<1>2. Cardinality(Busy') \in Nat /\ Cardinality(Busy) \in Nat /\ Parallel \in Nat
  BY BusyType, ChunksFinite, ParallelAssumption
<1> QED BY <1>1, <1>2 DEF StaleInv, Stops

LEMMA SameBusy ==
  ASSUME StaleInv, UNCHANGED <<chunk, paused, cancelled, aborted, stale, pauses>>
  PROVE  StaleInv'
<1>1. Busy' = Busy
  BY DEF Busy, Interruptible, In, On
<1> QED BY <1>1, FewerBusy

\* A round that is interrupted leaves the others behind that are hashing.
LEMMA InterruptedBusy ==
  ASSUME DataOK, DataOK', NEW S \in SUBSET Busy, Cardinality(Busy) <= Parallel, Interrupt(S),
         stale + Parallel <= Parallel * Stops'
  PROVE  StaleInv'
<1>1. Cardinality(S) <= Cardinality(Busy) /\ Cardinality(S) \in Nat /\ Cardinality(Busy) \in Nat
  BY BusyType, ChunksFinite, FS_Subset
<1>2. Busy' = {} /\ Cardinality(Busy') = 0 /\ stale' = stale + Cardinality(S)
  BY NobodyBusy DEF Interrupt
<1>3. Stops' \in Nat
  BY NextStops
<1>4. Parallel * Stops' \in Nat /\ Parallel \in Nat /\ stale \in Nat
  BY <1>3, Allowance, ParallelAssumption DEF DataOK
<1> QED BY <1>1, <1>2, <1>4 DEF StaleInv

LEMMA NextStale ==
  ASSUME DataOK, DataOK', StaleInv, [Next]_vars
  PROVE  StaleInv'
<1> USE DEF client, control, browser, server, bounds
<1>1. CASE UNCHANGED vars
  BY <1>1, SameBusy DEF vars
<1>2. CASE Hash \/ CreateFails \/ FetchFails \/ Completed \/ CompleteFails
  BY <1>2, SameBusy DEF Hash, CreateFails, FetchFails, Completed, CompleteFails
<1>3. CASE Created \/ Fetched
  <2>1. completed' \in SUBSET Chunks /\ UNCHANGED <<paused, cancelled, stale, pauses>>
    BY <1>3 DEF Created, Fetched, DataOK
  <2>2. Round
    BY <1>3 DEF Created, Fetched
  <2>3. /\ aborted' = FALSE
        /\ main' # "round" => chunk' = NoWorkers
        /\ main' = "round" => ~paused /\ ~cancelled
        /\ Cardinality(Busy') <= Parallel
    BY <2>1, <2>2, RoundMoves
  <2>4. main' # "round" => Busy' = {}
    BY <2>3, NobodyBusy
  <2> QED BY <2>1, <2>3, <2>4 DEF StaleInv, Stops
<1>4. ASSUME NEW c \in Chunks, Hashed(c) PROVE StaleInv'
  <2>1. c \in Busy
    BY <1>4 DEF Hashed, Busy, In
  <2>2. CASE Stopped
    <3>1. Interrupt(In("hash") \ {c}) /\ UNCHANGED <<pauses, cancelled>>
      BY <1>4, <2>2 DEF Hashed
    <3>2. stale + Parallel <= Parallel * Stops'
      BY <2>1, <2>2, <3>1 DEF Stopped, StaleInv, Stops
    <3>3. In("hash") \ {c} \in SUBSET Busy
      BY BusyType
    <3> QED BY <3>1, <3>2, <3>3, InterruptedBusy DEF StaleInv
  <2>3. CASE ~Stopped
    <3>1. chunk' = [chunk EXCEPT ![c].pc = "put"]
          /\ UNCHANGED <<paused, cancelled, aborted, stale, pauses>>
      BY <1>4, <2>3 DEF Hashed
    <3>2. Busy' \subseteq Busy
      BY <2>1, <3>1 DEF Busy, Interruptible, In, On, DataOK, Worker
    <3> QED BY <3>1, <3>2, FewerBusy
  <2> QED BY <2>2, <2>3
<1>5. ASSUME NEW c \in Chunks, Sent(c) PROVE StaleInv'
  <2>1. c \in Busy /\ UNCHANGED <<paused, cancelled, aborted, stale, pauses>>
    BY <1>5 DEF Sent, Busy, Interruptible, In
  <2>2. ASSUME NEW d \in In("queued"),
               chunk' = [chunk EXCEPT ![c] = Nowhere, ![d] = [pc |-> "hash", tries |-> 0]]
        PROVE  StaleInv'
    <3>1. d \notin Busy
      BY <2>2 DEF Busy, Interruptible, In, On
    <3>2. Busy' = (Busy \ {c}) \union {d}
      BY <2>1, <2>2, <3>1, NoWorkersType DEF Busy, Interruptible, In, On, DataOK, Worker
    <3>3. IsFiniteSet(Busy) /\ IsFiniteSet(Busy \ {c}) /\ Cardinality(Busy) \in Nat
      BY BusyType, ChunksFinite, FS_RemoveElement
    <3>4. /\ Cardinality(Busy \ {c}) = Cardinality(Busy) - 1
          /\ Cardinality((Busy \ {c}) \union {d}) = Cardinality(Busy \ {c}) + 1
      BY <2>1, <3>1, <3>3, FS_RemoveElement, FS_AddElement
    <3>5. Cardinality(Busy') = Cardinality(Busy) /\ Busy # {}
      BY <2>1, <3>2, <3>3, <3>4
    <3> QED BY <2>1, <3>5 DEF StaleInv, Stops
  <2>3. ASSUME chunk' = [chunk EXCEPT ![c] = Nowhere] PROVE StaleInv'
    <3>1. Busy' \subseteq Busy
      BY <2>3, NoWorkersType DEF Busy, Interruptible, In, On, DataOK, Worker
    <3> QED BY <2>1, <3>1, FewerBusy
  <2> QED BY <1>5, <2>2, <2>3 DEF Sent
<1>6. ASSUME NEW c \in Chunks, Again(c) \/ Waited(c) \/ GiveUp(c) PROVE StaleInv'
  <2>1. UNCHANGED <<paused, cancelled, aborted, stale, pauses>>
    BY <1>6 DEF Again, Waited, GiveUp
  <2>2. c \in Busy /\ \A e \in Chunks : e # c => chunk'[e] = chunk[e]
    BY <1>6 DEF Again, Waited, GiveUp, Busy, Interruptible, In, DataOK
  <2>3. Busy' \subseteq Busy
    BY <2>2 DEF Busy, Interruptible, In, On
  <2> QED BY <2>1, <2>3, FewerBusy
<1>7. ASSUME NEW c \in Chunks, Progress(c) PROVE StaleInv'
  BY <1>7, SameBusy DEF Progress
<1>8. CASE Stale
  <2>1. Busy' = Busy /\ stale' = stale - 1 /\ stale > 0
        /\ UNCHANGED <<paused, cancelled, aborted, pauses>>
    BY <1>8 DEF Stale, Busy, Interruptible, In, On
  <2> QED BY <2>1, Allowance, StopsType, ParallelAssumption DEF StaleInv, Stops, DataOK
<1>9. CASE Pause \/ Cancel
  <2>1. Stops' = Stops + 1 /\ aborted' = TRUE
    <3>1. CASE Pause
      <4>1. aborted' = TRUE /\ pauses' = pauses + 1 /\ UNCHANGED cancelled
        BY <3>1 DEF Pause, Abort
      <4> QED BY <4>1, BoundsAssumption DEF Stops, DataOK
    <3>2. CASE Cancel
      <4>1. aborted' = TRUE /\ UNCHANGED pauses /\ ~cancelled /\ cancelled'
        BY <3>2 DEF Cancel, Abort, bounds
      <4> QED BY <4>1, BoundsAssumption DEF Stops, DataOK
    <3> QED BY <1>9, <3>1, <3>2
  <2>2. stale + Parallel <= Parallel * Stops'
    BY <2>1, Allowance, StopsType, ParallelAssumption DEF StaleInv, DataOK
  <2>3. CASE main = "round" /\ Interruptible # {}
    BY <1>9, <2>2, <2>3, BusyType, InterruptedBusy DEF Pause, Cancel, StaleInv
  <2>4. CASE ~(main = "round" /\ Interruptible # {})
    <3>1. UNCHANGED <<chunk, stale>>
      BY <1>9, <2>4 DEF Pause, Cancel
    <3>2. Busy' = Busy
      BY <3>1 DEF Busy, Interruptible, In, On
    <3> QED BY <2>1, <2>2, <3>1, <3>2, Allowance, StopsType, ParallelAssumption DEF StaleInv, DataOK
  <2> QED BY <2>3, <2>4
<1>10. CASE Resume
  <2>1. Busy' = Busy /\ UNCHANGED <<cancelled, aborted, stale, pauses>> /\ ~paused'
    BY <1>10 DEF Resume, Busy, Interruptible, In, On
  <2> QED BY <2>1 DEF StaleInv, Stops
<1>11. CASE Render \/ Deleted \/ Expire \/ \E x \in stray : Stray(x)
  BY <1>11, SameBusy DEF Render, Deleted, Expire, Stray
<1>12. CASE Reload
  <2>1. Busy' = {} /\ Cardinality(Busy') = 0 /\ stale' = 0
    BY <1>12, NobodyBusy DEF Reload
  <2>2. Stops' \in Nat
    BY NextStops
  <2>3. Parallel * Stops' \in Nat
    BY <2>2, Allowance
  <2> QED BY <2>1, <2>3, ParallelAssumption DEF StaleInv
<1> QED BY <1>1, <1>2, <1>3, <1>4, <1>5, <1>6, <1>7, <1>8, <1>9, <1>10, <1>11, <1>12
        DEF Next, Promise, Work, User

-----------------------------------------------------------------------------
(* The invariant.                                                          *)

\* The uploader's invariant, over any number of chunks, pauses, retries, lost
\* or late requests, expiries and reloads.
THEOREM UploaderInvariant == Spec => []UploaderInv
<1>1. Init => UploaderInv
  <2> SUFFICES ASSUME Init PROVE UploaderInv
    OBVIOUS
  <2>1. DataOK
    <3>1. 0 \in 0..MaxPauses /\ 0 \in 0..MaxFaults
      BY BoundsAssumption
    <3>2. session \in Sessions /\ rows \subseteq Chunks /\ persisted \in BOOLEAN
      BY DEF Init, Sessions
    <3> QED BY <3>1, <3>2, NoWorkersType DEF Init, DataOK, Phases
  <2>2. Busy = {} /\ Interruptible = {} /\ Cardinality(Busy) = 0
    <3>1. Busy = {} /\ Interruptible = {}
      BY NoWorkersType DEF Init, Busy, Interruptible, In, On
    <3> QED BY <3>1, FS_EmptySet
  <2>3. StaleInv
    <3>1. Parallel * Stops \in Nat /\ Parallel \in Nat
      BY <2>1, StopsType, Allowance, ParallelAssumption
    <3> QED BY <2>2, <3>1 DEF Init, StaleInv
  <2> QED BY <2>1, <2>2, <2>3, NoWorkersType
          DEF Init, UploaderInv, KeptInv, WholeInv, QuietInv, QuietWhenStopped, Interruptible, On
<1>2. UploaderInv /\ [Next]_vars => UploaderInv'
  <2> SUFFICES ASSUME UploaderInv, [Next]_vars PROVE UploaderInv'
    OBVIOUS
  <2>1. DataOK' /\ StaleInv' /\ KeptInv'
    BY NextType, NextStale, NextKept DEF UploaderInv
  <2>2. RoundInv'
    <3>1. CASE UNCHANGED vars
      BY <3>1 DEF vars, client, control, UploaderInv, RoundInv, WholeInv, QuietInv,
                  QuietWhenStopped, In, On
    <3> QED BY <3>1, PromiseRound, WorkRound, OtherRound DEF Next, UploaderInv, RoundInv
  <2> QED BY <2>1, <2>2 DEF UploaderInv, RoundInv
<1> QED BY <1>1, <1>2, PTL DEF Spec

\* The state of the client, the page and the session keep their types; a pause
\* or a cancellation leaves at most one round's workers hashing.
THEOREM TypeCorrect == Spec => []TypeOK
<1>1. UploaderInv => TypeOK
  <2> SUFFICES ASSUME UploaderInv PROVE TypeOK
    OBVIOUS
  <2>1. stale \in 0..(Parallel * (pauses + 1))
    <3>1. pauses \in Nat /\ stale \in Nat /\ Parallel \in Nat /\ Stops \in {pauses, pauses + 1}
      BY StopsType, ParallelAssumption DEF UploaderInv, DataOK
    <3>2. Parallel * (pauses + 1) = Parallel * pauses + Parallel /\ Parallel * pauses \in Nat
      BY <3>1, Allowance
    <3> QED BY <3>1, <3>2 DEF UploaderInv, StaleInv
  <2> QED BY <2>1 DEF UploaderInv, DataOK, TypeOK, Worker
<1> QED BY <1>1, UploaderInvariant, PTL

\* startChunkedUpload asks to complete an active session only when the server
\* has every chunk of it.
THEOREM WholeCorrect == Spec => []CompletesWhole
<1>1. UploaderInv => CompletesWhole
  BY DEF UploaderInv, KeptInv, WholeInv, DataOK, CompletesWhole
<1> QED BY <1>1, UploaderInvariant, PTL

\* The flags are looked at after each hash, so that a paused or cancelled upload
\* sends nothing.
THEOREM QuietCorrect == Spec => []QuietWhenStopped
<1>1. UploaderInv => QuietWhenStopped
  BY DEF UploaderInv, QuietInv
<1> QED BY <1>1, UploaderInvariant, PTL

\* After a pause the client counts what the server has, which is no less than
\* what it had counted itself.
THEOREM ProgressCorrect == Spec => ProgressIsKept
<1>1. UploaderInv /\ [Next]_vars =>
        (main = "fetching" /\ main' \in {"round", "completing"} => completed \subseteq completed')
  <2> SUFFICES ASSUME UploaderInv, [Next]_vars, main = "fetching",
                      main' \in {"round", "completing"}
               PROVE  completed \subseteq completed'
    OBVIOUS
  <2> USE DEF client, control, browser, server, bounds
  <2>1. CASE Fetched
    BY <2>1 DEF Fetched, ServerHas, UploaderInv, KeptInv
  <2>2. CASE UNCHANGED completed
    BY <2>2
  <2>3. CASE Hash \/ Created \/ CreateFails \/ FetchFails \/ Completed \/ CompleteFails
    BY <2>2, <2>3 DEF Hash, Created, CreateFails, FetchFails, Completed, CompleteFails
  <2>4. ASSUME NEW c \in Chunks, Work(c) \/ Progress(c) PROVE completed \subseteq completed'
    BY <2>4 DEF Work, Hashed, Sent, Again, Waited, GiveUp, Progress
  <2>5. CASE Stale \/ Deleted \/ User \/ Expire \/ Reload \/ \E x \in stray : Stray(x)
    BY <2>5 DEF Stale, Deleted, User, Render, Pause, Resume, Cancel, Expire, Reload, Stray
  <2>6. CASE UNCHANGED vars
    BY <2>6 DEF vars
  <2> QED BY <2>1, <2>3, <2>4, <2>5, <2>6 DEF Next, Promise
<1> QED BY <1>1, UploaderInvariant, PTL DEF Spec, ProgressIsKept
=============================================================================
