---------------------------- MODULE Replication ----------------------------
(***************************************************************************)
(* The replication engine of the coordinator (apps/api): one stored file,  *)
(* its replica rows and durable storage operations in the database, the    *)
(* objects on the storage nodes, and the jobs that work on them: uploads,  *)
(* deletions, downloads, scrubs, repair passes and startup recovery.       *)
(*                                                                         *)
(* The coordinator is one Node.js process. A job is one asynchronous call  *)
(* chain; jobs interleave at every await, so one step of a process below   *)
(* is the code between two awaits on the database, the staging area or a   *)
(* storage node. What a job read before an await is kept in its record and *)
(* used after it, however stale it has become.                             *)
(***************************************************************************)
EXTENDS Integers

CONSTANTS
    Nodes,      \* storage nodes
    Procs,      \* concurrent jobs of the coordinator
    Jobs,       \* the jobs the coordinator is asked to run
    Faults,     \* the faults the environment may inject
    MaxFaults,  \* bound on their number
    NoNode      \* no storage node

JobKinds == {"upload", "retry", "delete", "download", "scrub", "repair"}
FaultKinds == {"refused", "lost", "late", "crash", "damage", "down"}

ASSUME NodesAssumption == NoNode \notin Nodes
ASSUME JobsAssumption == Jobs \subseteq JobKinds
ASSUME FaultsAssumption == Faults \subseteq FaultKinds /\ MaxFaults \in Nat

VARIABLES
    file,     \* File.status, with "NONE" before and "GONE" after the row
    session,  \* the upload session of the file is still there, COMPLETING
    staging,  \* the verified bytes are in the coordinator's staging area
    replica,  \* FileReplica.status by node, "NONE" when there is no row
    op,       \* StorageOperation.status by type and node, "NONE": no row
    node,     \* StorageNode.status as the heartbeat last recorded it
    object,   \* what the storage node holds under the file's storage key
    late,     \* abandoned PUT requests that a node may still carry out
    served,   \* the kinds of bytes that downloads have handed to users
    faults,   \* injected faults so far
    proc      \* the state of each job

database == <<file, session, staging, replica, op>>
cluster == <<node, object, late>>
vars == <<file, session, staging, replica, op, node, object, late, served,
          faults, proc>>

Kinds == {"CREATE", "DELETE", "REPAIR"}
Ops == Kinds \X Nodes
NoOp == <<"NONE", NoNode>>
OpsOf(kind) == {kind} \X Nodes

FileStatus == {"NONE", "PENDING", "AVAILABLE", "DELETING", "GONE"}
ReplicaStatus == {"NONE", "PENDING", "HEALTHY", "MISSING", "UNAVAILABLE",
                  "CORRUPT", "DELETE_PENDING"}
OpStatus == {"NONE", "PENDING", "RUNNING", "DONE", "FAILED"}
\* "absent": never stored or deleted; "lost": vanished behind the node's back.
ObjectStatus == {"absent", "good", "bad", "lost"}
Answers == {"none", "good", "bad", "MISSING", "CORRUPT", "UNAVAILABLE"}

Labels == {"idle", "list", "loop", "begin", "put", "confirm", "commit",
           "reject", "erase", "source", "head", "get", "verdict", "next",
           "lookup", "enqueue", "mark", "replace", "insert", "queue",
           "inspect", "drop", "publish", "unsession", "unstage", "boot"}

ProcState ==
    [pc: Labels, job: JobKinds \union {"none", "boot", "recover"},
     todo: SUBSET Ops,             \* operations still to run
     cur: Ops \union {NoOp},       \* the operation being run
     src: Nodes \union {NoNode},   \* the node being read or looked up
     got: Answers,                 \* what reading it gave
     visit: SUBSET Nodes,          \* replicas of the snapshot still to visit
     down: SUBSET Nodes,           \* those whose node the snapshot says is down
     need: BOOLEAN]                \* a repair pass has scheduled nothing yet

Idle == [pc |-> "idle", job |-> "none", todo |-> {}, cur |-> NoOp,
         src |-> NoNode, got |-> "none", visit |-> {}, down |-> {},
         need |-> FALSE]

-----------------------------------------------------------------------------
AtLeastTwo(S) == \E a, b \in S : a # b
Rows == {n \in Nodes : replica[n] # "NONE"}
RowExists == file \notin {"NONE", "GONE"}
Live == {n \in Nodes : node[n] = "HEALTHY"}
Healthy == {n \in Nodes : replica[n] = "HEALTHY"}
Booting == \E p \in Procs : proc[p].job \in {"boot", "recover"}

At(p, label) == proc[p].pc = label
Step(p, state) == proc' = [proc EXCEPT ![p] = state]
Goto(p, label) == Step(p, [proc[p] EXCEPT !.pc = label])
Finish(p) == Step(p, Idle)

\* A job starts when a process is free; at startup nothing else runs yet.
Ready(p, job) == job \in Jobs /\ At(p, "idle") /\ ~Booting
Start(p, job, label) == Step(p, [Idle EXCEPT !.pc = label, !.job = job])

\* One more injected fault, or a node that is down anyway.
Inject(fault) ==
    fault \in Faults /\ faults < MaxFaults /\ faults' = faults + 1
Unanswered(n) ==
    Inject("refused") \/ (node[n] = "UNAVAILABLE" /\ UNCHANGED faults)

Init ==
    /\ file = "NONE"
    /\ session = FALSE
    /\ staging = FALSE
    /\ replica = [n \in Nodes |-> "NONE"]
    /\ op = [o \in Ops |-> "NONE"]
    /\ node = [n \in Nodes |-> "HEALTHY"]
    /\ object = [n \in Nodes |-> "absent"]
    /\ late = {}
    /\ served = {}
    /\ faults = 0
    /\ proc = [p \in Procs |-> Idle]

-----------------------------------------------------------------------------
(* Requests that begin a job.                                              *)

\* prepareFile commits the file, its replicas and its CREATE operations in
\* one transaction, then publishPrepared runs them. A direct upload has no
\* session; a chunked one leaves its session COMPLETING.
Upload(p) ==
    /\ Ready(p, "upload")
    /\ file = "NONE"
    /\ \E a, b \in Live :
          /\ a # b
          /\ replica' = [n \in Nodes |-> IF n \in {a, b} THEN "PENDING" ELSE "NONE"]
          /\ op' = [o \in Ops |-> IF o \in {"CREATE"} \X {a, b} THEN "PENDING" ELSE "NONE"]
    /\ file' = "PENDING"
    /\ staging' = TRUE
    /\ session' \in BOOLEAN
    /\ Start(p, "upload", "list")
    /\ UNCHANGED <<cluster, served, faults>>

\* A second complete request for a session that is COMPLETING.
Retry(p) ==
    /\ Ready(p, "retry")
    /\ session /\ RowExists
    /\ Start(p, "retry", "list")
    /\ UNCHANGED <<database, cluster, served, faults>>

\* scheduleDelete: the client learnt the file's id once it was AVAILABLE.
Delete(p) ==
    /\ Ready(p, "delete")
    /\ file \in {"AVAILABLE", "DELETING"}
    /\ file' = "DELETING"
    /\ replica' = [n \in Nodes |-> IF n \in Rows THEN "DELETE_PENDING" ELSE "NONE"]
    /\ op' = [o \in Ops |-> IF o \in {"DELETE"} \X Rows THEN "PENDING" ELSE op[o]]
    /\ Start(p, "delete", "list")
    /\ UNCHANGED <<session, staging, cluster, served, faults>>

\* openDownload tries the replicas that its snapshot shows HEALTHY on a
\* HEALTHY node. The route does not look at the file's status.
Download(p) ==
    /\ Ready(p, "download")
    /\ file \in {"AVAILABLE", "DELETING"}
    /\ Step(p, [Idle EXCEPT !.pc = "next", !.job = "download",
                            !.visit = Healthy \intersect Live])
    /\ UNCHANGED <<database, cluster, served, faults>>

Scrub(p) ==
    /\ Ready(p, "scrub")
    /\ file = "AVAILABLE"
    /\ Step(p, [Idle EXCEPT !.pc = "next", !.job = "scrub",
                            !.visit = Healthy, !.down = Healthy \ Live])
    /\ UNCHANGED <<database, cluster, served, faults>>

\* reconcileRepairs takes its snapshot. aged: the nodes and replicas that
\* have been silent or UNAVAILABLE for the grace period.
RepairPass(p, aged) ==
    LET selected == file = "AVAILABLE" /\ (Rows \ Healthy) \union (Rows \ Live) # {}
        short == ~AtLeastTwo(Healthy \intersect Live)
        due == {n \in Rows \intersect Live :
                  \/ replica[n] \in {"MISSING", "CORRUPT", "PENDING"}
                  \/ replica[n] = "UNAVAILABLE" /\ n \in aged}
    IN  /\ Ready(p, "repair")
        /\ Step(p, [Idle EXCEPT
                      !.pc = IF selected THEN "mark" ELSE "queue",
                      !.job = "repair",
                      !.down = IF selected THEN (Healthy \ Live) \intersect aged ELSE {},
                      !.visit = IF selected /\ short THEN due ELSE {},
                      !.need = selected /\ short])
        /\ UNCHANGED <<database, cluster, served, faults>>

-----------------------------------------------------------------------------
(* Running operations: reconcileFile, run, claim.                          *)

List(p) ==
    /\ At(p, "list")
    /\ Step(p, [proc[p] EXCEPT !.pc = "loop",
                  !.todo = {o \in Ops : op[o] \notin {"NONE", "DONE"}}])
    /\ UNCHANGED <<database, cluster, served, faults>>

\* Operations are listed by creation time: the CREATEs come first.
Due(p, o) ==
    /\ o \in proc[p].todo
    /\ o \in OpsOf("CREATE") \/ proc[p].todo \intersect OpsOf("CREATE") = {}

\* The conditional update that lets one runner through.
ClaimableRunning == {"PENDING", "FAILED", "RUNNING"}   \* mistake: no condition
ClaimableOnce == {"PENDING"}                           \* mistake: no retry
Claimable == {"PENDING", "FAILED"}

Claim(p, o) ==
    /\ At(p, "loop") /\ Due(p, o)
    /\ op[o] \in Claimable
    /\ op' = [op EXCEPT ![o] = "RUNNING"]
    /\ Step(p, [proc[p] EXCEPT !.pc = "begin", !.cur = o, !.todo = @ \ {o}])
    /\ UNCHANGED <<file, session, staging, replica, cluster, served, faults>>

NotClaimed(p, o) ==
    /\ At(p, "loop") /\ Due(p, o)
    /\ op[o] \notin Claimable
    /\ Step(p, [proc[p] EXCEPT !.todo = @ \ {o}])
    /\ UNCHANGED <<database, cluster, served, faults>>

\* All listed operations were run: a repair pass ends, a startup goes on to
\* the incomplete file, every other job inspects the file.
AllRun(p) ==
    /\ At(p, "loop") /\ proc[p].todo = {}
    /\ \/ /\ proc[p].job \in {"upload", "retry", "delete", "recover"}
          /\ Goto(p, "inspect")
       \/ /\ proc[p].job = "boot" /\ file \in {"PENDING", "DELETING"}
          /\ Start(p, "recover", "list")
       \/ /\ proc[p].job = "boot" /\ file \notin {"PENDING", "DELETING"}
          /\ Finish(p)
       \/ proc[p].job = "repair" /\ Finish(p)
    /\ UNCHANGED <<database, cluster, served, faults>>

BeginCreate(p) ==
    /\ At(p, "begin") /\ proc[p].cur \in OpsOf("CREATE")
    /\ op[proc[p].cur] # "NONE"
    /\ Goto(p, IF staging THEN "put" ELSE "reject")
    /\ UNCHANGED <<database, cluster, served, faults>>

BeginDelete(p) ==
    /\ At(p, "begin") /\ proc[p].cur \in OpsOf("DELETE")
    /\ op[proc[p].cur] # "NONE"
    /\ Goto(p, "erase")
    /\ UNCHANGED <<database, cluster, served, faults>>

BeginRepair(p) ==
    /\ At(p, "begin") /\ proc[p].cur \in OpsOf("REPAIR")
    /\ op[proc[p].cur] # "NONE"
    /\ Goto(p, IF file = "AVAILABLE" /\ proc[p].cur[2] \in Live THEN "source" ELSE "reject")
    /\ UNCHANGED <<database, cluster, served, faults>>

Source(p, n) ==
    /\ At(p, "source")
    /\ n \in (Healthy \intersect Live) \ {proc[p].cur[2]}
    /\ Step(p, [proc[p] EXCEPT !.pc = "head", !.src = n])
    /\ UNCHANGED <<database, cluster, served, faults>>

NoSource(p) ==
    /\ At(p, "source")
    /\ (Healthy \intersect Live) \subseteq {proc[p].cur[2]}
    /\ Goto(p, "reject")
    /\ UNCHANGED <<database, cluster, served, faults>>

\* What a PUT does to a node. Only a repair may replace an object that does
\* not verify; a matching object makes the PUT a no-op.
Accepts(o) == object[o[2]] # "bad" \/ o \in OpsOf("REPAIR")
StoredNowhere(o) == object   \* mistake: acknowledged before the rename
Stored(o) == [object EXCEPT ![o[2]] = "good"]

Put(p) ==
    /\ At(p, "put") /\ Accepts(proc[p].cur)
    /\ object' = Stored(proc[p].cur)
    /\ Goto(p, IF proc[p].cur \in OpsOf("REPAIR") THEN "confirm" ELSE "commit")
    /\ UNCHANGED <<database, node, late, served, faults>>

PutConflict(p) ==
    /\ At(p, "put") /\ ~Accepts(proc[p].cur)
    /\ Goto(p, "reject")
    /\ UNCHANGED <<database, cluster, served, faults>>

\* The request fails, or is carried out and its answer lost, or times out
\* and is carried out later.
PutFails(p) ==
    LET o == proc[p].cur
    IN  /\ At(p, "put")
        /\ \/ Unanswered(o[2]) /\ UNCHANGED <<object, late>>
           \/ /\ Inject("lost") /\ Accepts(o)
              /\ object' = Stored(o) /\ UNCHANGED late
           \/ Inject("late") /\ late' = late \union {o} /\ UNCHANGED object
        /\ Goto(p, "reject")
        /\ UNCHANGED <<database, node, served>>

\* The repaired target is asked for its metadata; same-size damage since
\* the PUT does not show there.
Confirm(p) ==
    LET n == proc[p].cur[2]
    IN  /\ At(p, "confirm")
        /\ \/ object[n] \in {"good", "bad"} /\ Goto(p, "commit")
           \/ object[n] # "good" /\ Goto(p, "reject")
        /\ UNCHANGED <<database, cluster, served, faults>>

ConfirmFails(p) ==
    /\ At(p, "confirm")
    /\ Unanswered(proc[p].cur[2])
    /\ Goto(p, "reject")
    /\ UNCHANGED <<database, cluster, served>>

Erase(p) ==
    /\ At(p, "erase")
    /\ object' = [object EXCEPT ![proc[p].cur[2]] = "absent"]
    /\ Goto(p, "commit")
    /\ UNCHANGED <<database, node, late, served, faults>>

EraseFails(p) ==
    LET n == proc[p].cur[2]
    IN  /\ At(p, "erase")
        /\ \/ Unanswered(n) /\ UNCHANGED object
           \/ Inject("lost") /\ object' = [object EXCEPT ![n] = "absent"]
        /\ Goto(p, "reject")
        /\ UNCHANGED <<database, node, late, served>>

NextOp(p) ==
    Step(p, [proc[p] EXCEPT !.pc = "loop", !.cur = NoOp, !.src = NoNode,
                            !.got = "none"])

\* The operation is DONE and, unless it deletes, its replica HEALTHY.
Commit(p) ==
    LET o == proc[p].cur
    IN  /\ At(p, "commit") /\ op[o] # "NONE"
        /\ op' = [op EXCEPT ![o] = "DONE"]
        /\ replica' = IF o \in OpsOf("DELETE") THEN replica
                      ELSE [replica EXCEPT ![o[2]] = "HEALTHY"]
        /\ NextOp(p)
        /\ UNCHANGED <<file, session, staging, cluster, served, faults>>

RejectAlways(p) ==   \* mistake: the operation's status goes to the replica
    /\ At(p, "reject")
    /\ replica' = [replica EXCEPT ![proc[p].cur[2]] = "FAILED"]
    /\ NextOp(p)
    /\ UNCHANGED <<file, session, staging, op, cluster, served, faults>>

\* The operation is FAILED; a failed CREATE makes its replica UNAVAILABLE.
Reject(p) ==
    LET o == proc[p].cur
    IN  /\ At(p, "reject") /\ op[o] # "NONE"
        /\ op' = [op EXCEPT ![o] = "FAILED"]
        /\ replica' = IF o \in OpsOf("CREATE")
                      THEN [replica EXCEPT ![o[2]] = "UNAVAILABLE"] ELSE replica
        /\ NextOp(p)
        /\ UNCHANGED <<file, session, staging, cluster, served, faults>>

-----------------------------------------------------------------------------
(* reconcileFile once its operations were run.                             *)

\* As many DELETE operations as replicas, and every one DONE.
ErasedOrFailed ==            \* mistake: a failed DELETE counts
    \A n \in Rows : op[<<"DELETE", n>>] \in {"DONE", "FAILED"}
Erased == \A n \in Rows : op[<<"DELETE", n>>] = "DONE"

PlacedTwice == AtLeastTwo(Rows)   \* mistake: any replica counts
Replicated == AtLeastTwo(Healthy)

\* Both decisions are taken on one read of the file and its rows.
Inspect(p) ==
    /\ At(p, "inspect")
    /\ \/ file = "DELETING" /\ Erased /\ Goto(p, "drop")
       \/ file = "DELETING" /\ ~Erased /\ Finish(p)
       \/ file \in {"PENDING", "AVAILABLE"} /\ Replicated /\ Goto(p, "publish")
       \/ file \in {"PENDING", "AVAILABLE"} /\ ~Replicated /\ Finish(p)
       \/ ~RowExists /\ Finish(p)
    /\ UNCHANGED <<database, cluster, served, faults>>

\* Deleting the file row cascades to its replicas and operations.
Drop(p) ==
    /\ At(p, "drop") /\ RowExists
    /\ file' = "GONE"
    /\ replica' = [n \in Nodes |-> "NONE"]
    /\ op' = [o \in Ops |-> "NONE"]
    /\ Finish(p)
    /\ UNCHANGED <<session, staging, cluster, served, faults>>

Publish(p) ==
    /\ At(p, "publish") /\ RowExists
    /\ file' = "AVAILABLE"
    /\ Goto(p, "unsession")
    /\ UNCHANGED <<session, staging, replica, op, cluster, served, faults>>

Unsession(p) ==
    /\ At(p, "unsession")
    /\ session' = FALSE
    /\ Goto(p, "unstage")
    /\ UNCHANGED <<file, staging, replica, op, cluster, served, faults>>

Unstage(p) ==
    /\ At(p, "unstage")
    /\ staging' = FALSE
    /\ Finish(p)
    /\ UNCHANGED <<file, session, replica, op, cluster, served, faults>>

\* A row the job is about to read or write is gone: Prisma throws, nothing
\* catches it and the job ends.
Vanished(p) ==
    /\ \/ /\ At(p, "begin") \/ At(p, "commit") \/ At(p, "reject")
          /\ op[proc[p].cur] = "NONE"
       \/ (At(p, "drop") \/ At(p, "publish") \/ At(p, "insert")) /\ ~RowExists
       \/ At(p, "enqueue") /\ replica[proc[p].src] = "NONE"
       \/ At(p, "mark") /\ \E n \in proc[p].down : replica[n] = "NONE"
    /\ Finish(p)
    /\ UNCHANGED <<database, cluster, served, faults>>

-----------------------------------------------------------------------------
(* stageVerified: a replica is read into a private staging file.           *)

\* HEAD compares the persisted size and hash: a missing object and one
\* whose size changed show here, damage that keeps the size does not.
Head(p) ==
    LET held == object[proc[p].src]
        answer(got) == Step(p, [proc[p] EXCEPT !.pc = "verdict", !.got = got])
    IN  /\ At(p, "head")
        /\ \/ held \in {"absent", "lost"} /\ answer("MISSING")
           \/ held = "bad" /\ answer("CORRUPT")
           \/ held \in {"good", "bad"} /\ Goto(p, "get")
        /\ UNCHANGED <<database, cluster, served, faults>>

\* GET streams the bytes; an object that is gone by now is a failed request.
Get(p) ==
    LET held == object[proc[p].src]
    IN  /\ At(p, "get")
        /\ Step(p, [proc[p] EXCEPT !.pc = "verdict",
                      !.got = IF held \in {"good", "bad"} THEN held ELSE "UNAVAILABLE"])
        /\ UNCHANGED <<database, cluster, served, faults>>

ReadFails(p) ==
    /\ At(p, "head") \/ At(p, "get")
    /\ Unanswered(proc[p].src)
    /\ Step(p, [proc[p] EXCEPT !.pc = "verdict", !.got = "UNAVAILABLE"])
    /\ UNCHANGED <<database, cluster, served>>

\* Size and SHA-256 decide; the row is updated whatever its status is now.
\* When it is gone a failure is still a failure, and a success becomes one.
StatusByHead(got) == IF got \in {"good", "bad"} THEN "HEALTHY" ELSE got  \* mistake: no hashing
StatusOf(got) ==
    CASE got = "good" -> "HEALTHY" [] got = "bad" -> "CORRUPT" [] OTHER -> got
Passes(p) == StatusOf(proc[p].got) = "HEALTHY" /\ replica[proc[p].src] # "NONE"
RecordVerdict(p) ==
    LET n == proc[p].src
    IN  /\ At(p, "verdict")
        /\ replica' = IF replica[n] = "NONE" THEN replica
                      ELSE [replica EXCEPT ![n] = StatusOf(proc[p].got)]
        /\ UNCHANGED <<file, session, staging, op, cluster, faults>>

\* Of a repair's source.
VerdictRepair(p) ==
    /\ RecordVerdict(p) /\ proc[p].cur # NoOp
    /\ Step(p, [proc[p] EXCEPT !.pc = IF Passes(p) THEN "put" ELSE "reject",
                               !.src = NoNode, !.got = "none"])
    /\ UNCHANGED served

VerdictScrub(p) ==
    /\ RecordVerdict(p) /\ proc[p].job = "scrub"
    /\ Step(p, [proc[p] EXCEPT !.pc = IF Passes(p) THEN "next" ELSE "lookup",
                               !.src = IF Passes(p) THEN NoNode ELSE @,
                               !.got = "none"])
    /\ UNCHANGED served

\* A verified replica is streamed to the user from the staging file.
VerdictDownload(p) ==
    /\ RecordVerdict(p) /\ proc[p].job = "download"
    /\ \/ /\ Passes(p)
          /\ served' = served \union {proc[p].got}
          /\ Finish(p)
       \/ /\ ~Passes(p)
          /\ Step(p, [proc[p] EXCEPT !.pc = "lookup", !.got = "none"])
          /\ UNCHANGED served

-----------------------------------------------------------------------------
(* Visiting the replicas of a snapshot: download, scrub and repair pass.   *)

\* A download or a scrub verifies the replica, a repair pass enqueues it. A
\* scrub fails a replica whose node was down in the snapshot unread.
Visit(p, n) ==
    /\ At(p, "next") /\ n \in proc[p].visit
    /\ \/ /\ proc[p].job = "repair"
          /\ Step(p, [proc[p] EXCEPT !.pc = "lookup", !.src = n, !.visit = @ \ {n}])
       \/ /\ proc[p].job # "repair" /\ n \notin proc[p].down
          /\ Step(p, [proc[p] EXCEPT !.pc = "head", !.src = n, !.visit = @ \ {n}])
       \/ /\ proc[p].job # "repair" /\ n \in proc[p].down
          /\ Step(p, [proc[p] EXCEPT !.pc = "verdict", !.src = n, !.visit = @ \ {n},
                                     !.got = "UNAVAILABLE"])
    /\ UNCHANGED <<database, cluster, served, faults>>

Visited(p) ==
    /\ At(p, "next") /\ proc[p].visit = {}
    /\ IF proc[p].job = "repair"
       THEN Goto(p, IF proc[p].need THEN "replace" ELSE "queue")
       ELSE Finish(p)
    /\ UNCHANGED <<database, cluster, served, faults>>

RepairableAbsent(n) == replica[n] = "MISSING"   \* mistake: CORRUPT is forgotten
Repairable(n) == replica[n] \notin {"NONE", "HEALTHY", "DELETE_PENDING"}

\* enqueueRepair reads the replica and its file, then upserts the operation.
Lookup(p) ==
    LET repairable == file = "AVAILABLE" /\ Repairable(proc[p].src)
    IN  /\ At(p, "lookup")
        /\ Step(p, [proc[p] EXCEPT !.pc = IF repairable THEN "enqueue" ELSE "next",
                                   !.src = IF repairable THEN @ ELSE NoNode])
        /\ UNCHANGED <<database, cluster, served, faults>>

Enqueue(p) ==
    LET n == proc[p].src
    IN  /\ At(p, "enqueue") /\ replica[n] # "NONE"
        /\ op' = [op EXCEPT ![<<"REPAIR", n>>] = "PENDING"]
        /\ Step(p, [proc[p] EXCEPT !.pc = "next", !.src = NoNode, !.need = FALSE])
        /\ UNCHANGED <<file, session, staging, replica, cluster, served, faults>>

\* The grace period of a HEALTHY replica's node is over.
Mark(p) ==
    /\ At(p, "mark")
    /\ \/ \E n \in proc[p].down :
             /\ replica[n] # "NONE"
             /\ replica' = [replica EXCEPT ![n] = "UNAVAILABLE"]
             /\ Step(p, [proc[p] EXCEPT !.down = @ \ {n}])
       \/ proc[p].down = {} /\ Goto(p, "next") /\ UNCHANGED replica
    /\ UNCHANGED <<file, session, staging, op, cluster, served, faults>>

\* createReplacement looks for a HEALTHY node without a replica ...
Replace(p) ==
    LET spare == Live \ Rows
    IN  /\ At(p, "replace")
        /\ \/ /\ file = "AVAILABLE"
              /\ \E n \in spare : Step(p, [proc[p] EXCEPT !.pc = "insert", !.src = n])
           \/ (file # "AVAILABLE" \/ spare = {}) /\ Goto(p, "queue")
        /\ UNCHANGED <<database, cluster, served, faults>>

\* ... and inserts a replica and its repair, unless one was inserted since.
Insert(p) ==
    LET n == proc[p].src
    IN  /\ At(p, "insert") /\ RowExists
        /\ IF replica[n] = "NONE"
           THEN /\ replica' = [replica EXCEPT ![n] = "PENDING"]
                /\ op' = [op EXCEPT ![<<"REPAIR", n>>] = "PENDING"]
           ELSE UNCHANGED <<replica, op>>
        /\ Step(p, [proc[p] EXCEPT !.pc = "queue", !.src = NoNode])
        /\ UNCHANGED <<file, session, staging, cluster, served, faults>>

PendingRepairs == {o \in OpsOf("REPAIR") : op[o] = "PENDING"}

Queue(p) ==
    /\ At(p, "queue")
    /\ Step(p, [proc[p] EXCEPT !.pc = "loop", !.todo = PendingRepairs])
    /\ UNCHANGED <<database, cluster, served, faults>>

-----------------------------------------------------------------------------
(* Restart and environment.                                                *)

\* The coordinator dies and is started again; nodes may still carry out
\* PUTs that were under way.
Crash(p) ==
    /\ Inject("crash")
    /\ proc' = [[q \in Procs |-> Idle] EXCEPT
                  ![p] = [Idle EXCEPT !.pc = "boot", !.job = "boot"]]
    /\ late' \in IF "late" \in Faults
                 THEN {late \union {proc[q].cur : q \in s} :
                         s \in SUBSET {q \in Procs : At(q, "put")}}
                 ELSE {late}
    /\ UNCHANGED <<database, node, object, served>>

RecoveredAsIs(o) == op[o]   \* mistake: nothing is reset
Recovered(o) == IF op[o] = "RUNNING" THEN "PENDING" ELSE op[o]

\* reconcileIncomplete: RUNNING operations are PENDING again, pending
\* repairs run first, then an incomplete file is reconciled.
Boot(p) ==
    /\ At(p, "boot")
    /\ op' = [o \in Ops |-> Recovered(o)]
    /\ Step(p, [proc[p] EXCEPT !.pc = "loop",
                  !.todo = {o \in OpsOf("REPAIR") : Recovered(o) = "PENDING"}])
    /\ UNCHANGED <<file, session, staging, replica, cluster, served, faults>>

\* The heartbeat records a node as down, or as back.
NodeDown(n) ==
    /\ node[n] = "HEALTHY" /\ Inject("down")
    /\ node' = [node EXCEPT ![n] = "UNAVAILABLE"]
    /\ UNCHANGED <<database, object, late, served, proc>>

NodeUp(n) ==
    /\ node[n] = "UNAVAILABLE"
    /\ node' = [node EXCEPT ![n] = "HEALTHY"]
    /\ UNCHANGED <<database, object, late, served, faults, proc>>

\* A stored object is damaged or lost behind the node's back.
Damage(n) ==
    /\ object[n] \in {"good", "bad"} /\ Inject("damage")
    /\ \E harm \in {"bad", "lost"} \ {object[n]} : object' = [object EXCEPT ![n] = harm]
    /\ UNCHANGED <<database, node, late, served, proc>>

LatePut(o) ==
    /\ o \in late
    /\ late' = late \ {o}
    /\ object' = IF Accepts(o) THEN Stored(o) ELSE object
    /\ UNCHANGED <<database, node, served, faults, proc>>

-----------------------------------------------------------------------------
Request(p) ==
    \/ Upload(p) \/ Retry(p) \/ Delete(p) \/ Download(p) \/ Scrub(p)
    \/ \E aged \in SUBSET Nodes : RepairPass(p, aged)

Verify(p) ==
    \/ Head(p) \/ Get(p) \/ ReadFails(p)
    \/ VerdictRepair(p) \/ VerdictScrub(p) \/ VerdictDownload(p)

Operate(p) ==
    \/ \E o \in Ops : Claim(p, o) \/ NotClaimed(p, o)
    \/ AllRun(p) \/ BeginCreate(p) \/ BeginDelete(p) \/ BeginRepair(p)
    \/ \E n \in Nodes : Source(p, n)
    \/ NoSource(p) \/ Put(p) \/ PutConflict(p) \/ PutFails(p)
    \/ Confirm(p) \/ ConfirmFails(p) \/ Erase(p) \/ EraseFails(p)
    \/ Commit(p) \/ Reject(p)

Reconcile(p) ==
    \/ List(p) \/ Inspect(p) \/ Drop(p) \/ Publish(p) \/ Unsession(p)
    \/ Unstage(p) \/ Vanished(p) \/ Boot(p)

Schedule(p) ==
    \/ \E n \in Nodes : Visit(p, n)
    \/ Visited(p) \/ Lookup(p) \/ Enqueue(p) \/ Mark(p) \/ Replace(p)
    \/ Insert(p) \/ Queue(p)

\* A job that was started, one await further.
Advance(p) == Operate(p) \/ Reconcile(p) \/ Verify(p) \/ Schedule(p)

Environment ==
    \/ \E p \in Procs : Crash(p)
    \/ \E n \in Nodes : NodeDown(n) \/ NodeUp(n) \/ Damage(n)
    \/ \E o \in Ops : LatePut(o)

Next == Environment \/ \E p \in Procs : Request(p) \/ Advance(p)

Spec == Init /\ [][Next]_vars

\* The event loop keeps running every job that was started, the repair
\* timer keeps firing, and time passes for whatever stays silent.
FairSpec ==
    /\ Spec
    /\ \A p \in Procs : WF_vars(Advance(p))
    /\ SF_vars(\E p \in Procs : RepairPass(p, Nodes))
    /\ SF_vars(\E p \in Procs : Scrub(p))
    /\ \A n \in Nodes : WF_vars(NodeUp(n))

-----------------------------------------------------------------------------
(* Properties.                                                             *)

TypeOK ==
    /\ file \in FileStatus
    /\ session \in BOOLEAN
    /\ staging \in BOOLEAN
    /\ replica \in [Nodes -> ReplicaStatus]
    /\ op \in [Ops -> OpStatus]
    /\ node \in [Nodes -> {"HEALTHY", "UNAVAILABLE"}]
    /\ object \in [Nodes -> ObjectStatus]
    /\ late \subseteq Ops
    /\ served \subseteq {"good", "bad"}
    /\ faults \in 0..MaxFaults
    /\ proc \in [Procs -> ProcState]

Acknowledged == {n \in Nodes : op[<<"CREATE", n>>] = "DONE"}
Scheduled(n) == op[<<"DELETE", n>>] # "NONE"

\* A file becomes visible to its user (reconcileFile, AVAILABLE) only once
\* two nodes have acknowledged their copy, and such a node keeps an object
\* until the deletion of that replica is a durable operation.
PublishedMeansStored ==
    /\ file \in {"AVAILABLE", "DELETING"} => AtLeastTwo(Acknowledged)
    /\ \A n \in Acknowledged : ~Scheduled(n) => object[n] # "absent"

\* The coordinator drops its own copy of the bytes (staging.delete) only when
\* no CREATE operation can need it again, whoever runs it and whenever.
StagingOutlivesCreates ==
    RowExists /\ ~staging =>
        \A n \in Nodes : op[<<"CREATE", n>>] \in {"NONE", "DONE"}

\* The conditional claim lets one job at a time run a CREATE operation, also
\* when an upload, its retry and a deletion all list it.
OneCreator ==
    \A p, q \in Procs :
        p # q /\ proc[p].cur = proc[q].cur => proc[p].cur \notin OpsOf("CREATE")

\* An operation that is RUNNING has a job that runs it, or a startup that is
\* about to reset it: none is left RUNNING for ever, where no claim, list of
\* pending repairs or user could get at it, although enqueueRepair and
\* scheduleDelete overwrite the status of operations that others run.
RunningHasRunner ==
    \A o \in Ops : op[o] = "RUNNING" =>
        \E p \in Procs : proc[p].cur = o \/ proc[p].pc = "boot"

\* A replica the database calls HEALTHY was really stored: its node did not
\* end up without an object through a PUT, a delayed PUT, a repair, a
\* deletion or a stale verification of the coordinator's own.
HealthyIsBacked ==
    \A n \in Healthy : ~Scheduled(n) => object[n] # "absent"

\* Once the rows of a deleted file are gone no node keeps its bytes, whatever
\* was refused, lost, retried or interrupted on the way. (Without repairs and
\* requests that time out: a PUT the node still carries out when the rows are
\* gone brings the object back, and nobody knows of it any more.)
GoneMeansErased ==
    file = "GONE" => \A n \in Nodes : object[n] \in {"absent", "lost"}

\* Users are never handed bytes that do not match the recorded SHA-256,
\* whatever happens to the object between HEAD, GET and the answer.
ServedIsGood == "bad" \notin served

\* What users see of the file is the abstract lifecycle: published once two
\* copies are acknowledged, never visible again once deletion was accepted.
\* (Without completion retries: see DeletionIsFinal below.)
Lifecycle == INSTANCE FileLifecycle WITH status <- file, copies <- Acknowledged
RefinesLifecycle == Lifecycle!Spec

-----------------------------------------------------------------------------
(* Liveness, once the environment has stopped injecting faults.            *)

Calm == faults = MaxFaults
\* A startup that meets working nodes and no further fault.
Recovering == Calm /\ Live = Nodes /\ \E p \in Procs : At(p, "boot")

\* A crash at any point of an upload loses nothing: the startup publishes the
\* PENDING file from the staging area, unless its user deletes it first.
RecoveryCompletes ==
    (Recovering /\ file = "PENDING") ~> (file \in {"AVAILABLE", "DELETING", "GONE"})

\* A deletion interrupted by a crash, a refusal or a lost answer is completed
\* by the startup.
DeletionRecovers == (Recovering /\ file = "DELETING") ~> (file = "GONE")

Intact(n) == replica[n] = "HEALTHY" /\ object[n] = "good" /\ node[n] = "HEALTHY"

\* An AVAILABLE file of which one verified copy survives gets its second
\* good copy back.
SelfHealing ==
    (\E n \in Nodes : [](Calm /\ file = "AVAILABLE" /\ Intact(n)))
        ~> (AtLeastTwo({n \in Nodes : Intact(n)}) \/ file # "AVAILABLE")
\* A HEALTHY pair that only a node outage disturbed is whole again once the
\* nodes are back, since every byte is still there.
Undamaged == AtLeastTwo({n \in Nodes : object[n] = "good"})
OutageHeals ==
    (Calm /\ file = "AVAILABLE" /\ Undamaged) ~> (AtLeastTwo(Healthy) \/ file # "AVAILABLE")

-----------------------------------------------------------------------------
(* What the documentation says and the code does not do.                   *)
(* They are false; the README gives the instance and the trace of each.    *)

\* Nothing leads out of DELETE_PENDING but the end of the replica.
DeletePendingIsFinal ==
    [][\A n \in Nodes : replica[n] = "DELETE_PENDING" =>
          replica'[n] \in {"DELETE_PENDING", "NONE"}]_vars

\* No two jobs run the same operation at the same time.
OneRunnerPerOperation ==
    \A p, q \in Procs : p # q /\ proc[p].cur = proc[q].cur => proc[p].cur = NoOp

\* A deletion knows every replica it has to erase.
DeletionCoversReplicas == file = "DELETING" => \A n \in Rows : Scheduled(n)

\* An accepted deletion is never taken back.
DeletionIsFinal == [][file = "DELETING" => file' \in {"DELETING", "GONE"}]_vars

\* The outage of a node makes its replicas UNAVAILABLE only through the
\* repair pass, which waits for the grace period.
GraceIsRespected ==
    [][\A p \in Procs, n \in Nodes :
          replica[n] = "HEALTHY" /\ n \in proc[p].down
            /\ At(p, "verdict") /\ proc[p].src = n
          => replica'[n] = "HEALTHY" \/ proc'[p] = proc[p]]_vars
=============================================================================
