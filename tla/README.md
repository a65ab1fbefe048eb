# DepotDrive: specification, model checking and proofs

DepotDrive is a small replicated file store: a web client that uploads files in
chunks, a coordinator (`apps/api`, Fastify + Prisma/PostgreSQL) that keeps the
metadata and drives replication, and storage nodes (`apps/storage-node`) that keep
objects on disk. This directory holds TLA+ modules of the parts that carry its
own protocol, the TLC configurations that check them, and TLAPS proofs of their safety
for any number of nodes, requests and chunks. Paths below are relative to the repository.

Contents: [Inventory](#1-inventory) · [Modules](#2-modules-and-how-they-correspond-to-the-code) ·
[Runs](#3-runs) · [Fairness](#4-fairness) · [Proofs](#5-proofs) ·
[What the code does not promise](#6-what-the-code-does-not-promise) ·
[Not modelled](#7-what-is-not-modelled) · [Plan](#8-plan)

Check a run with `tlc -workers 2 -config <run>.cfg <module>`, the proofs with
`tlapm <module>.tla` for each module whose name ends in `Proofs`.

## 1. Inventory

| Component | State it keeps | Operations | Talks to |
|---|---|---|---|
| **Replication engine** `apps/api/src/modules/storage/{operation,replica,integrity,scrub}-service.ts`, started by `server.ts` | `File.status`, `FileReplica.status`, `StorageOperation.status`, the staging area | prepare a file, run CREATE / DELETE / REPAIR operations, reconcile a file, verified download, scrub tick, repair tick, replacement of replicas, startup recovery | database, staging area, storage nodes over HTTP |
| **Storage node** `apps/storage-node/src/{object-store,app}.ts` | object file and metadata sidecar per key, the `failNextPuts` test counter | PUT (verify, receive, rename, persist sidecar), HEAD (rebuilds the sidecar), GET, DELETE, test hooks | the coordinator; the file system |
| **Upload sessions** `apps/api/src/modules/uploads/service.ts`, `storage/local-file-storage.ts` | session and chunk rows, chunk files, assembled file | create or reuse up to a limit, save a chunk, complete, retry of a completion, cancel, cleanup of expired sessions, renewal | database, staging area, replication engine |
| **Web uploader** `apps/web/src/chunked-upload.ts`, `components/UploadManager.tsx` | its promise, `paused`, `cancelled`, the round's AbortController, completed chunks, the phase it shows, a localStorage record | hash, create, fetch missing, upload in parallel with retries, complete, pause, resume, cancel | upload routes |
| **Node registry, heartbeat, placement** `metadata-service.ts`, `heartbeat-service.ts`, `placement.ts` | `StorageNode.status`, `lastHeartbeatAt` | heartbeat tick, refresh before an upload, mark stale nodes, choose nodes | storage nodes (`/health`), database |
| **Storage node client** `storage/storage-node-http.ts` | none | upload, download, metadata, delete with timeouts | storage nodes |
| **Files and folders routes** `modules/files/routes.ts`, `modules/folders/routes.ts` | file and folder rows, staged bytes of a direct upload | create and delete folders, direct upload, download, delete, rename, list | engine, database |
| **Authentication** `modules/auth`, `apps/web/src/{auth.tsx,auth-policy.ts}` | a cookie with a JWT; in the page the user, loading, the form, the coordinator of 401s, the query cache | register, login, logout, look up the session, handle a 401 | API, React Query, pages |
| **Monitoring, web pages, configuration, containers** | append-only events | read-only views | - |

*What is hard.* The coordinator is one Node.js process without locks. Every
`await` is a point where another job, timer tick or request may run, and what was
read before it is used after it. Its timeouts do not cancel work on the nodes, its
crashes leave rows and files as they are, and each recovery path runs beside the
normal ones. The storage node has the same shape with file-system calls, and the
browser with promises and AbortControllers. `hazards` in `PROJECT.json` lists every
place found while reading, with the properties that cover it.

*What makes each part correct.*

- Engine: a file is visible only when two nodes have it; staged bytes outlive
  every operation that may need them; a CREATE operation has one runner; nothing is
  RUNNING without a runner; HEALTHY means stored; users get only verified bytes;
  interrupted uploads and deletions are finished at startup; deletion erases
  everything; a lost copy is made again.
- Node: what a PUT acknowledged is on disk; nothing torn is ever under a key;
  answers describe bytes that were there.
- Sessions: an acknowledged chunk is on disk with its bytes; what is prepared has
  the session's SHA-256; one request finalizes.
- Uploader: it completes only what the server has entirely; it is quiet while
  paused or cancelled; progress is kept; cancellation and uploads end.
- Node registry: a node that stopped or came back is known as such within fixed
  times, however ticks overlap and answers overtake each other; a heartbeat is from when
  the node was working, or at most a request timeout later; placement takes the least
  utilised nodes with room.
- Files and folders: nothing is left in a folder that is gone, whatever is created
  while it is deleted; every staged byte has a request that will deal with it; the
  number of sessions stays bounded.
- Repair and scrub queues: every replica gets its turn.
- Web session: the cache holds nothing of another session; as long as sign-ins do not
  overlap, nobody sees what was fetched for somebody else and the user shown is the one the
  cookie names; the page does not stay blank.

## 2. Modules and how they correspond to the code

| Module | Models |
|---|---|
| `FileLifecycle` | abstract: what the owner of a file is promised |
| `Replication` | the engine, one file, any nodes and jobs; implements `FileLifecycle` |
| `ReplicationProofs`, `PublicationProofs` | theorems about `Replication`: types and runners; publication, refinement, erasure and what a deletion covers |
| `ObjectStore` | one key of a storage node |
| `UploadLifecycle` | abstract: what a client that uploads a file in chunks is promised |
| `UploadSession` | one chunked upload on the coordinator; implements `UploadLifecycle` |
| `ChunkedUpload` | one upload in the browser against one session |
| `NodeRegistry` | heartbeat ticks, refreshes and the choice of nodes, in discrete time |
| `Placement` | `chooseReplicaNodes` and a reference definition of it |
| `Catalog` | folders, files and several sessions of a user, tied by foreign keys |
| `RepairQueue` | the batches of the scrub and repair timers over many replicas |
| `Login` | the signed-in user of one tab of the web client |
| `ObjectStoreProofs`, `UploadSessionProofs`, `ChunkedUploadProofs`, `NodeRegistryProofs`, `CatalogProofs`, `LoginProofs` | theorems about the module named |
| `MC*` | symmetry sets and definitions for TLC |

In all of them a step is the code between two awaits (in the browser: one task
with the promise callbacks it triggers). `proc[p].pc` or `request[r].pc` says at
which await a call chain stands and the rest of the record what it read before.

**Replication.** `file`, `replica`, `op` are the database columns (with `NONE` and
`GONE` where there is no row), `staging` the coordinator's own copy, `object` what each
node stores, `node` its status as the heartbeat last recorded it. A process runs one
job: `Upload` is `prepareFile` up to its transaction; `List`, `Claim`, `BeginCreate`,
`Put`, `Commit`, `Reject`, `Inspect`, `Publish`, `Unsession`, `Unstage` are
`reconcileFile` and `runCreate`; `Delete`, `BeginDelete`, `Erase`, `EraseFails`, `Drop` are
`scheduleDelete` and `runDelete`; `BeginRepair` ... `ConfirmFails` are `runRepair`; `Head`, `Get`,
`ReadFails` and the three `Verdict...` actions are `stageVerified` for its three callers;
`Scrub`, `Visit`, `Visited`, `Lookup`, `Enqueue` the scrub tick; `RepairPass`, `Mark`, `Replace`,
`Insert`, `Queue` the repair tick; `Crash` and `Boot` a restart with `reconcileIncomplete`.
Faults are a refused write, an answer that is lost, a timed-out PUT that the node
carries out later (`LatePut`), a crash, damage on a node, and a node going down.

Abstractions: one file, whose bytes are "good" or not; CREATE operations run before the
others as `reconcileFile` orders them, those of one type in any order; the source
of a repair and the target of a replacement are any node that qualifies, not the first
in the query's order; the grace period and the age of rows are a free choice of
the repair pass (`aged`); heartbeat freshness is the node's status; a repair batch is as
large as the pending repairs; a DELETE that timed out is carried out at once or
never; an error of the database itself is a crash; a node's sidecar is hidden
inside the object here and modelled in `ObjectStore`.

**ObjectStore.** `object` and `sidecar` are the two files, by whose bytes they hold or
describe; a request stands before `stat`, reading the sidecar, hashing, rebuilding,
receiving, renaming, persisting or removing. Hashing or streaming a whole file is one step;
temporary files are invisible as no request reads them. The histories `acked`,
`calm`, `seen` exist for the properties only.

**UploadSession.** `rows` are the chunk rows and `disk` the chunk files, by whose
bytes; requests save, complete, cancel, clean up or renew, and stand at each
database or file-system await. `mkdir` and `link` of a chunk are one step, as are the
existence checks and the assembly; a session that is created anew under the same
identity is out of scope. A crash leaves the rows and files. `Phase` maps the row's status to
`UploadLifecycle`, in which a chunk is held from its row on, as that is what clients are told.

**ChunkedUpload.** `main` is where the promise of `startChunkedUpload` stands, `chunk` the
workers of the current round by the chunk they are on, `stale` the workers of aborted rounds
that are still hashing, since `file.slice().arrayBuffer()` and the digest cannot be
aborted. `stray` are aborted requests that the server may carry out all the same.
The server answers one request at a time; chunks are taken in any order;
throughput metrics and the two-file queue of the page are left out.

**NodeRegistry.** A round is one heartbeat tick or one refresh; for each node it has a probe,
which waits for the answers of `health` and `capacity` (`Health`, `Capacity`,
`CapacityFails`) and ends with `recordHeartbeat`. A behaviour begins with the tick that `server.ts:14`
awaits; `Start` is `heartbeat.start()`, which comes any time after it, as the startup in between may
take long, and from then on `Tick` is `setInterval`, which starts a tick
beside those still under way. The properties about times count from `Start` too (`running`).
`EndTick` and `Dashboard` are `markStaleDead`, `EndRefresh` is
`chooseNodes`. An answer of a node that was working at some time since it was asked may come in at any
time until the request's timeout, also after the node has stopped and after a newer tick or refresh
has recorded it as dead; it counts from when it comes in (`Heard`, `checkedAt`), and is recorded
over the newer result. Instants are kept as ages that saturate, `Pass` is a unit of time, which no
request may outlast its timeout by: the client's timer ends with the headers of an answer, and its body, a few
numbers, is taken to come with them. One refresh at a time; a database step is shorter than
a unit and one with the answer before it; `chosen` is forgotten as time passes. `Turn`, a
node that stops or comes back, happens `MaxTurns` times. `Placement` has no state: `Sorted` is
the order the comparison of the sort gives the candidates, and `PlacementIsLeast` compares what is taken from it
with a reference (`LeastUtilised`) for every cluster in `Clusters`, in the run `Nodes` three nodes of every load.

**Catalog.** `place` is the folder of every row, so that a row exists when it has one; `claimed` are
the sessions that are COMPLETING. A request stands between the check it made and the write that
relies on it: folder seen and row to be inserted, contents counted and folder to be deleted,
sessions counted and session to be created, bytes staged and file to be created. The
foreign keys are in `Refers` and `Removable`: an insert into a folder that is gone and the
deletion of one that is not empty fail. `Publish` is the whole of replication in one
step at any later time (a 503 leaves it for later), since `Replication` has its steps; a
completion retry is there too. A request that got a 503 stands for the file's staged bytes until then; there are no crashes. Identifiers are random: one that is in use is not given
again. An insert may also fail for any other reason. Names, renaming and listing are left out.

**RepairQueue.** One replica per file, with the operation that repairs it; `verified` and `changed`
are the orders of `lastVerifiedAt` and `updatedAt`. The files a repair pass finds come in any order, as
the query has none. `Hopeless` replicas have no good source, so each of their repairs fails.
A verification and a repair are one step each, and what spares a replica from being enqueued (enough others, the grace
period, a node that is back, `operation-service.ts:161`, `:166`) is left out: `Replication` has those steps.

**Login.** One tab. `cookie` is whose session the browser sends, `user` and `loading` are the
state of `AuthProvider`, `page` is what React last rendered, which lags
behind (`Render`), `cache` whose data is under each query key. A step is the code one event
runs with the promise callbacks it queues: clearing the cache awaits only such callbacks.
Requests carry the cookie they were sent with and are answered in any order; the request
of a cancelled query goes on as a `call`, and only its 401 matters. Which page is rendered is
determined by user and loading (`App.tsx`), but not what it remembers: `busy` is state of one mounted
`AuthPage`, and going back to a page of the drive, which redirects to `/login`, or to `/register`, mounts
another. `establishSession` has no guard of its own, so `Login` has none beyond the form being shown, and
sign-ins overlap. The browser takes the cookie of a login in the step that handles its answer. The history variable `alone` says that they have not since last none
was under way; the properties that need it say so. `useNavigate` changes with the path, hence `AuthProvider`
makes a new coordinator of 401s on each, and a request keeps the one it was sent under: `Refused` either
clears the session or, as with a coordinator that has handled a 401, does not, at any time.

## 3. Runs

All bounds are constants in the `.cfg`. Passing runs (states are distinct states):

| Run | Instance | Shows |
|---|---|---|
| `Integrity` | 2 nodes, 2 jobs, upload/delete/download/repair, 2 faults of refused, late, crash, damage (1.9M) | `TypeOK`; `PublishedMeansStored`; `HealthyIsBacked`; `ServedIsGood` |
| `Lifecycle` | 3 nodes, 2 jobs, upload/delete/repair, one of lost, crash, down (796k) | `RunningHasRunner`; `RefinesLifecycle`: `Replication` implements `FileLifecycle` |
| `Recovery` | 2 nodes, 2 jobs, upload/retry/delete, 3 faults of refused, lost, crash, fair (163k) | `StagingOutlivesCreates`; `OneCreator`; `GoneMeansErased`; `RecoveryCompletes`, `DeletionRecovers`: a startup finishes what a crash interrupted |
| `Healing` | 2 nodes, 2 jobs, upload/scrub/repair, one damage, fair | `SelfHealing`: the timers restore the second copy |
| `Store` | 2 requests, 2 harms, 1 refusal (398k) | `TypeOK`; `NeverTorn`; `AckIsDurable`; `AnswersAreCurrent` |
| `Upload` | 2 chunks, 3 requests, right and wrong bytes, 1 fault (46k) | `TypeOK`; `AcknowledgedIsOnDisk`; `PreparedIsRight`; `RefinesUpload`: `UploadSession` implements `UploadLifecycle` |
| `Uploader` | 3 chunks, 2 workers, 1 retry delay, 1 pause, 2 faults, fair (198k) | `TypeOK`; `CompletesWhole`; `QuietWhenStopped`; `ProgressIsKept`; `CancelEnds`; `UploadEnds` |
| `Nodes` | 1 node, interval 2, timeout 2, failure 4, latency up to 1, 3 turns (1.4M) | `TypeOK`; `BeatIsHeard`; `DeadIsNoticed`; `AliveIsNoticed`; `ChosenAnswered`; and for 3 nodes with loads up to 3 of 3 `PlacementIsLeast` |
| `Folders` | 2 folders, 1 file, 3 sessions, 1 identity, limit 1, 2 requests (1.5M) | `NothingLosesItsFolder`; `SessionsBounded`; `StagingHasOwner` |
| `Login` | 2 users of whom one is ADMIN, 2 query keys, 3 requests under way, fair (555k) | `OwnDataOnly`; `OneIdentity`; `BlankEnds` |
| `Queue` | 4 replicas of which 1 hopeless, batches of 2, 3 damages, 1 failure, fair (169k) | `DamageIsFound`; `FoundIsRepaired` |

Why the bounds are enough. A file has two replicas, so two nodes hold every
situation of an ordinary file and a third gives the replacement its target. Two jobs
give every pairwise race between a read and the write that relies on it, and the
third party (a late PUT, a node, a crash) is the environment's; three faults put
two failing operations and a crash into one upload. One chunk more than
workers makes a worker take a second chunk. Three requests on a session allow two racing
writers and a completion or cancellation. A pause makes the workers that
it could not abort meet the next round; two failing requests exhaust the retries of a chunk.

Two faults in `Integrity` let a damaged copy, or a crash, meet a refused or delayed
write; a scrub differs from a download only in what it does with the verdict, and runs in
`Healing`. A crash costs one fault in `Lifecycle`, which has three nodes; crashes on top of
other faults are in `Recovery`, which has no repairs and no late PUTs, with which
`GoneMeansErased` is false (section 6); `Lifecycle` has no completion retries, with which
`RefinesLifecycle` is false (section 6).

One node in `Nodes` is enough because others only delay the end of a round, which can be late for
one as well; the theorems of section 5 hold for any number. The choice among several is `Placement`,
evaluated on three. Three turns are a stop and a return in either order and the next
change, at any times. The four times are small ones for which ticks overlap and answers overtake each other, as the
interval is no longer than the timeout, and the limits are reached: with one unit less in `DeathKnown`, in `Failure`, or
in the timeouts that `BeatIsHeard` and `ChosenAnswered` allow, or one more in `Latency`, a property is false. With one unit less in
`ReturnKnown` one is false for interval 3 and failure 5. The default times, 2, 3 and 6 units of 5 s, pass too
with latencies of 1 and 2 (1 turn, 1.6M and 2.9M states).

In `Folders` a limit of 1 and three sessions let the limit be exceeded; two requests are a check and what happens before its write, and the folder is deleted by
the one while the other fills it. Three requests in `Login` are a login, a lookup and a late answer, or two sign-ins and a query.
Four replicas in `Queue` are more than one hopeless and a batch; two repaired, one damaged and
one hopeless replica are what a wrong order of either batch would starve.

One run ends in a counterexample to a sentence of the documentation (quoted in `findings`):

| Run | Property | What happens |
|---|---|---|
| `LateReplica` | `DeletionCoversReplicas` | a replacement replica is inserted after the deletion was scheduled; it has no DELETE operation, so neither this deletion nor a startup removes the file, which stays DELETING until the DELETE request is repeated: that schedules the late replica too (`files/routes.ts:30-32`, `replica-service.ts:83-97`) |

`CHECK_DEADLOCK FALSE` is set where the system may stop: a deleted file, a session
nothing can complete, an upload that ended or waits for its user, a tab on which nobody signs in.

## 4. Fairness

`Replication!FairSpec`: weak fairness of `Advance(p)`, as the event loop resumes every job whose
awaited promise settles, and every node call has a timeout; strong fairness of the repair
pass and of the scrub, which `setInterval` starts again and again (`server.ts:7-13`) and which skip
a tick while the previous one runs; weak fairness of `NodeUp`, the assumption of an environment
that comes back, which only `OutageHeals` (section 6) needs. Nothing is fair about
requests, faults, damage or crashes; the liveness properties are conditioned on `Calm`,
the fault budget being spent.

`ChunkedUpload!FairSpec`: weak fairness of the promise chain, of the DELETE of a cancellation and
of every worker: requests are answered or fail, timers fire and files are read. Nothing
is assumed of the user, so `UploadEnds` allows an upload that stays paused.

`RepairQueue!FairSpec`: weak fairness of the steps of each timer, which `setInterval` keeps
starting (`server.ts:8-14`). `Login!FairSpec`: weak fairness of `Render`, as React renders what
was set, and of every `Answer(s)`, as the browser answers or fails every request. Nothing
is assumed of users. The times of `NodeRegistry` are part of its safety: `Pass` waits for what is due.

The other modules state safety only.

## 5. Proofs

TLAPS proves, for all values of `Nodes`, `Procs`, `Jobs`, `Faults` and `MaxFaults` that satisfy
`NodesAssumption` (`NoNode` is no node), `JobsAssumption` and `FaultsAssumption`:

| Theorem | Statement |
|---|---|
| `ReplicationProofs!TypeCorrect` | `Spec => []TypeOK` |
| `ReplicationProofs!CreatorCorrect` | `Spec => []OneCreator` |
| `ReplicationProofs!RunnerCorrect` | `Spec => []RunningHasRunner` |
| `ReplicationProofs!ServedCorrect` | `Spec => []ServedIsGood` |
| `PublicationProofs!PublicationCorrect` | `Spec => []PublishedMeansStored` |
| `PublicationProofs!BackedCorrect` | `Spec => []HealthyIsBacked` |
| `PublicationProofs!StagingCorrect` | `Spec => []StagingOutlivesCreates` |
| `PublicationProofs!RefinementCorrect` | `Spec => RefinesLifecycle`, if `"retry"` is not in `Jobs` |
| `PublicationProofs!FinalCorrect` | `Spec => DeletionIsFinal`, if `"retry"` is not in `Jobs` |
| `PublicationProofs!CoverCorrect` | `Spec => []DeletionCoversReplicas`, if `"repair"` is not in `Jobs` |
| `PublicationProofs!ErasureCorrect` | `Spec => []GoneMeansErased`, if `Jobs` has only uploads, completion retries and deletions and `"late"` is not in `Faults` |

for all rows, identities and requests that satisfy `RowsAssumption` (the sets of identifiers are
disjoint and hold neither `Root` nor `None`):

| Theorem | Statement |
|---|---|
| `CatalogProofs!TypeCorrect` | `Spec => []TypeOK` |
| `CatalogProofs!FoldersCorrect` | `Spec => []NothingLosesItsFolder` |
| `CatalogProofs!StagingCorrect` | `Spec => []StagingHasOwner` |
| `CatalogProofs!SessionsCorrect` | `Spec => []SessionsBounded`, sessions and requests being finite and the limit positive (`FiniteAssumption`, `LimitAssumption`) |

for all users, keys and numbers of requests that satisfy `UsersAssumption` (no user is
`None` or the name of a page) and `KeysAssumption`:

| Theorem | Statement |
|---|---|
| `LoginProofs!TypeCorrect` | `Spec => []TypeOK` |
| `LoginProofs!IdentityCorrect` | `Spec => []OneIdentity` |
| `LoginProofs!DataCorrect` | `Spec => []OwnDataOnly` |

for all requests, kinds of requests, faults and refusals of a node (`BoundsAssumption`):

| Theorem | Statement |
|---|---|
| `ObjectStoreProofs!TypeCorrect` | `Spec => []TypeOK` |
| `ObjectStoreProofs!WholeCorrect` | `Spec => []NeverTorn` |
| `ObjectStoreProofs!AckCorrect` | `Spec => []AckIsDurable` |
| `ObjectStoreProofs!AnswersCorrect` | `Spec => []AnswersAreCurrent` |

for all chunks, requests and faults of an upload session (`BodiesAssumption`, `FaultsAssumption`):

| Theorem | Statement |
|---|---|
| `UploadSessionProofs!TypeCorrect` | `Spec => []TypeOK` |
| `UploadSessionProofs!AcknowledgedCorrect` | `Spec => []AcknowledgedIsOnDisk` |
| `UploadSessionProofs!PreparedCorrect` | `Spec => []PreparedIsRight` |
| `UploadSessionProofs!FinalizerCorrect` | `Spec => []OneFinalizer` |
| `UploadSessionProofs!SessionRefines` | `Spec => RefinesUpload` |

for all finite sets of chunks, workers, retries, pauses and faults in the browser (`ChunksAssumption`,
`ParallelAssumption`, `DelaysAssumption`, `BoundsAssumption`):

| Theorem | Statement |
|---|---|
| `ChunkedUploadProofs!TypeCorrect` | `Spec => []TypeOK` |
| `ChunkedUploadProofs!WholeCorrect` | `Spec => []CompletesWhole` |
| `ChunkedUploadProofs!QuietCorrect` | `Spec => []QuietWhenStopped` |
| `ChunkedUploadProofs!ProgressCorrect` | `Spec => ProgressIsKept` |

and for all nodes, intervals, timeouts and latencies that satisfy `TimesAssumption` (they are positive,
and a node that answers does so within the timeout), and, for placement, all finite clusters of candidates with distinct identifiers
(`ClustersAssumption`, in which `Whole` is any common multiple of their capacities):

| Theorem | Statement |
|---|---|
| `NodeRegistryProofs!TypeCorrect` | `Spec => []TypeOK` |
| `NodeRegistryProofs!HeardCorrect` | `Spec => []BeatIsHeard` |
| `NodeRegistryProofs!ChosenCorrect` | `Spec => ChosenAnswered` |
| `NodeRegistryProofs!DeadCorrect` | `Spec => []DeadIsNoticed` |
| `NodeRegistryProofs!AliveCorrect` | `Spec => []AliveIsNoticed`, if `Latency < Timeout` and `Interval + 2 * Latency <= Failure` (`InTime`) |
| `NodeRegistryProofs!PlacementCorrect` | `Spec => []PlacementIsLeast` |

*Types.* `TypeOK` alone is not inductive: the record of a job has fields that only make
sense at some labels (`cur` is an operation exactly while one is run, `src` a node exactly while one is
read). `TypeInv` adds that shape per label. The proof has one lemma per action that says to
which label it moves which fields, five that gather the actions of a group, and
one for the data the group writes.

*Runners.* `OneCreator` needs more than itself: that a second claim fails because the row is RUNNING
as long as somebody runs it (`CreateInv`), that nothing else runs while a startup resets RUNNING
rows (`BootInv`), and that a new file's rows are new (`Unborn`). Their conjunction with the two
properties, `RunnerInv`, is inductive over `TypeInv`. Most actions neither take nor end
an operation (`Plain`) and are treated by one lemma; `Upload`, `Claim`, `Commit`/`Reject`,
`Vanished`/`Drop`, `Boot` and `Crash` each have their own. The argument is why the claim may only be
trusted for CREATE operations: `enqueueRepair` and `scheduleDelete` write PENDING over RUNNING, so REPAIR and
DELETE operations satisfy only the weaker `RunningHasRunner`.

*Served bytes.* `ServedIsGood` is inductive over `TypeInv`, since only a verdict that passed hands out bytes.

*Publication.* `PublishedMeansStored` speaks of the rows and the nodes, but a job decides on what it read and
writes later. `PublicationInv` has a half for each. `RowsInv`: before the file is published there are only CREATE
operations and only their success makes a replica HEALTHY; at most two nodes have a CREATE operation, so that with
two acknowledged none is left to run (`TwiceAll`), which is `StagingOutlivesCreates`; what is acknowledged or HEALTHY has
an object, or a DELETE operation (`Kept`). `JobInv`: a job that is about to commit a PUT, or a verdict that
found good bytes, stands before a node that has kept them; a job that stands before `Publish` saw two
acknowledged copies, and one that erases does so by a durable operation. A step of another job takes none of it away
(`OthersRely`), as long as it takes nothing from the rows (`Keeps`); a write that leaves CREATE and DELETE operations
alone never does (`SoftWrite`), which covers verdicts, marks, repairs and replacements. `CreateInv` is
used once: the failure that `Reject` records cannot be that of an operation another job has meanwhile completed.

*Refinement.* Under the mapping of `Replication`, every step is a step of `FileLifecycle` or a stutter. Three
actions could be neither: `Publish` of a file that is being deleted, `Drop` of one that is not, and `Commit`
of a CREATE operation again or after publication. The last is `CreateInv` with `TwiceAll`: the operation is RUNNING, so
two are not DONE yet. `LifecycleInv` rules the first two out by saying which job may still decide: an
upload that has not published finds the file PENDING, as nobody else can publish it and only a
published file can be deleted; beside a startup nothing runs. With completion retries there are two deciders,
and the theorem is false: hence its assumption (`DeletionIsFinal`, section 6). Under it `DeletionIsFinal` is a
corollary (`FinalCorrect`), since no step of `FileLifecycle` leads back from DELETING.

*Erasure.* `ErasureInv`: every node without a replica row, and every node whose DELETE operation is DONE, holds
nothing, and a job that is about to drop the rows has seen that of all nodes. It lasts because whoever
still stores anything runs a CREATE operation of an unpublished file; `TwiceAll` is why none is left to claim when the file is
published. The two assumptions are those without which it is false: a repair's PUT and a request
carried out after its timeout both store where an operation has erased.

*What a deletion covers.* `CoverInv`: whatever has an operation has a replica row, and the rows of a file
that is being deleted each have a DELETE operation. `scheduleDelete` establishes it for the rows it finds, and every other write leaves the set
of rows as it is (`SameRows`), `createReplacement` alone excepted, which only a repair pass reaches (`Spares`). So the run
`LateReplica` needs a replacement: scrubs, retries, crashes and startups do not do it.

*Rows.* `CatalogInv` has two halves. `RowsOK` is about the database: every row is in a folder that
exists, and nothing is kept of a session without a row. `RowAdded` and `RowRemoved` say what
one statement does to it; the foreign keys (`Refers`, `Removable`) are their hypotheses, and the counts that
the routes take before are not used: the constraint is what protects the folders. `RequestsOK`
is about what requests remember: a completion works in the folder of its session while that
exists (`PlaceInv`), and the label tells whether the request holds a file (`Shape`), without which `StagingHasOwner`
is not inductive. `RequestKeeps` says when a request may move on; each action is an instance.

*Sessions of a tab.* Two parts of `LoginInv` need nothing of the user. `SessionDataInv`: what is cached or being fetched under a key
of `userQueryRoots` is the cookie's, since the cookie becomes somebody's only in the step that clears both.
`StartInv`: the lookup of the start is over before anything else begins. The rest, `Single`, holds where sign-ins do
not overlap, and a sign-in that begins while none is under way restores it, whatever went before: the form
is shown only when nobody is signed in and nothing is looked up. `EntryInv` is its core: of the first lookup, a login and the
lookup after it at most one is under way. Then the cookie can change only when nobody is believed to be signed in,
and the answer of a lookup still names the cookie's user (`IdentityInv`). `PageInv` adds that whatever is cached or being
fetched is the rendered user's, also after the session is over, and that
nothing is there while a login is being established: `ClearCache` runs after the old page is gone.

*Number of sessions.* That the ACTIVE sessions stay within the limit and the number of requests is not
inductive: a completion takes a session out of the count and a failed one brings it back uncounted.
`SessionsInv` counts the sessions that are ACTIVE or held by a completion, together with the requests that have
counted and not yet inserted: fewer than the limit and the number of requests. Only the count itself adds to it, and
then fewer than the limit are ACTIVE, while the completing requests, which hold a session each, and
those that have counted are different ones.

*Object of a node.* `Current` says of what a request has read, and of its answer (`TrueOf`), that it was among the bytes of the key
since the request began; that set only grows, so no step of another request disturbs it.
`AckInv` is about the two files of a PUT: a deletion clears `acked` and `calm` before it removes either, so a PUT that is
still calm when it persists its sidecar finds its bytes where its rename left them. `NeverTorn` needs no order of requests either:
only a PUT that has verified its bytes gets to the rename, and a HEAD that rebuilds the sidecar of an undamaged key has hashed good bytes (`WholeInv`).

*Upload session.* Requests interfere only through the row and the directory of the session, so `Knows(s)` says what a
request may rely on at its label: before it inserts the row its chunk is on disk, unless the
directory was deleted; before it prepares the file it has seen the right digest; while it finalizes the session
is COMPLETING or gone. `OthersKnow`: no step of another request takes any of that away. Two facts of
the code carry it: a chunk file is linked, never overwritten, and the claim is a conditional update.

*Refinement of an upload.* Every step of `UploadSession` is a step of `UploadLifecycle` or a stutter (`AdvanceLives`). Three could be
neither: the row of a chunk while the session is COMPLETING, a claim of a session that lacks chunks, and a file that is prepared, or a
session taken back to ACTIVE, by a request that was overtaken. `LifeInv` rules out the first: a COMPLETING session has
every row, so that the insert finds one and changes nothing. `Sees(s)` says what a request that stands before one of the others has seen: the rows were complete
when it counted them, and while it finalizes no file was made. The rows never go before the session does and a session that is gone stays gone (`Lasts`), so the one
survives every step of the others; the other needs `OneFinalizer`, as only a request that finalizes makes a file.

*Upload in the browser.* Workers of an aborted round that are hashing go on, and TLC can only count them in small
instances. `StaleInv` bounds them by the workers of a round for each pause and the cancellation, because a
round has to have been resumed before it can leave workers behind again. `WholeInv`: a chunk without a
worker in the round is completed, so that the end of the round means all are; `KeptInv`: what is completed, the session has.
A stale worker breaks neither, since it finds the round aborted before it sends anything.

*Times of the registry.* Ticks overlap and record out of order, so the status of a node depends on which of the ticks
under way ends last, and an answer given before the node stopped may be the last to be recorded. `TypeInv` bounds the age of a round by what its
probes still wait for. By `HeardInv` whatever is recorded, or about to be, of a stopped node as alive came in within a timeout of the stop,
since it was asked for before; what can still be recorded of it later is bounded by the second request of its round. `DeadInv` and `AliveInv`
each list the times at which a status may lag: no tick has begun since the node stopped or came back
(its age is at most `timer`), or one that has begun within `Interval` of it is still on its way (`Expected`, `Awaited`). Both end
within bounded times, which are `DeathKnown` and `ReturnKnown`. To stay HEALTHY (`Lasting`) also needs that
the heartbeat outlives the wait for the next record, which is the second half of `InTime`; by `PromptInv`, ticks
from after the return find the node alive, which is its first half. The default configuration satisfies `InTime`
for nodes that answer within 10 s; section 6 shows what happens without it.

*Placement.* What a sort returns for every input is an induction over data, which the installed provers cannot do; `Sorted` is therefore
stated by what the comparison demands of the order, and the proof has to show that there is such an order, that is, that the
comparison is a strict total one (`StrictOrder`). For finitely many candidates without induction: the place of a candidate is the number of those that precede it
and itself; different candidates have different places, all of them in `1..n`, so by the pigeonhole principle each place is taken (`SortedIs`).
That cross products compare utilisations is `CrossProduct`, over parts of `Whole`. The rest is `ChosenLeast`: of a sorted sequence
a prefix precedes whatever is left out.

Only model-checked: all liveness (`RecoveryCompletes`, `DeletionRecovers`, `SelfHealing`, `CancelEnds`, `UploadEnds`, `BlankEnds`,
`DamageIsFound`, `FoundIsRepaired`), since TLAPS does not do fairness, and so `RepairQueue`, whose properties are of that kind only.
Every other property of the passing runs is stated by a theorem.

## 6. What the code does not promise

While modelling, these formulas were derived from documents and tests and turned
out false, although some hold under the conditions of section 5. `DeletionCoversReplicas` is a run of its own (section 3); the others are stated at the end of their module
and can be reproduced with the instance given (symmetry as in the runs).

| Property (module) | Instance | Trace |
|---|---|---|
| `OutageHeals` (Replication) | 2 nodes, 2 jobs, upload/repair, 2 outages, `FairSpec`, no symmetry | both replicas became UNAVAILABLE in an outage; both nodes are back with good bytes, and nothing verifies them again (`operation-service.ts:72`), although `docs/v1/PHASE1_IMPLEMENTATION.md` says a later probe can move them back to HEALTHY |
| `DeletionIsFinal` (Replication) | 2 nodes, 2 jobs, upload/retry/delete, no fault | an upload and its completion retry both decide to publish; the first does, the file is deleted, the second sets AVAILABLE over DELETING (`operation-service.ts:190`) |
| `GoneMeansErased` (Replication) | 2 nodes, 2 jobs, upload/delete/scrub/repair, one damage | a repair's PUT lands after the deletion erased its target; nobody knows of the object (`:81`) |
| `DeletePendingIsFinal` (Replication) | 2 nodes, 2 jobs, upload/delete/scrub, no fault | a verification that began before the deletion writes HEALTHY over DELETE_PENDING (`integrity-service.ts:47`); harmless to the deletion, which looks at operations |
| `OneRunnerPerOperation` (Replication) | 2 nodes, 3 jobs, upload/scrub/repair, one damage | `enqueueRepair` resets a RUNNING repair to PENDING and a second pass claims it (`:119`) |
| `GraceIsRespected` (Replication) | 2 nodes, 2 jobs, upload/scrub, one outage | a scrub makes replicas of a node that is down UNAVAILABLE at once (`integrity-service.ts:31`) |
| `SidecarIsOfObject` (ObjectStore) | that of `Store` | a HEAD that hashed damaged bytes writes their sidecar after a replacing PUT wrote its own (`object-store.ts:59`); it takes damage, without which `NeverTorn` says as much |
| `FinalizationIsRepeatable` (UploadSession) | that of `Upload` with 2 requests | a crash between claim and preparation leaves COMPLETING without a file: completion and cancellation are refused and cleanup skips it; only a creation under the same identity after it expired replaces it (`uploads/service.ts:95`, `:52-55`) |
| `CleanupSparesCompleting` (UploadSession) | 2 requests, no fault | cleanup lists an expired ACTIVE session, a completion claims it and prepares its file, cleanup deletes it by id (`uploads/service.ts:109`), although `docs/v1/RESUMABLE_UPLOAD_DESIGN.md` says it spares COMPLETING sessions |
| `NoChunkLeft` (UploadSession) | 2 requests, no fault | a chunk under way when its session is cancelled recreates the directory (`local-file-storage.ts:32`) |
| `ResumeContinues` (ChunkedUpload) | 2 chunks, 1 pause, no fault | pause while every worker hashes and resume before one is done: the round ends with an AbortError while `paused` is false, and the upload fails (`chunked-upload.ts:220`) |
| `FailureIsFinal` (ChunkedUpload) | 2 chunks, 1 fault, no pause | `Promise.all` settles with the first error, the other worker still reports uploading (`chunked-upload.ts:184`) |
| `PausedCanResume` (ChunkedUpload) | 2 chunks, 1 pause | pausing during completion aborts it and the ended upload shows paused (`:234`) |
| `CancelCleansUp` (ChunkedUpload) | 2 chunks, no pause, no fault | cancelling while the session is created sends no DELETE (`:260`) |
| `AliveIsNoticed` (NodeRegistry) | the default times (2, 3 and 6 units of 5 s) with `Latency` 3, 2 turns | a node that answers within the default timeout of 15 s, but later than 10 s, is set UNAVAILABLE now and then: of two overlapping ticks the older heartbeat is written last and is older than 30 s before the next one (`heartbeat-service.ts:21`) |
| `LimitHolds` (Catalog) | that of `Folders` | two creations count before either inserts; a completion that fails makes its session ACTIVE again uncounted (`uploads/service.ts:65`, `:103`) |
| `EmptyFolderGoes` (Catalog) | that of `Folders` | sessions are not counted, but restrict the deletion: a folder that looks empty cannot be deleted while a session, an expired one included, is for it, and the route answers 500 (`folders/routes.ts:11`) |
| `CompletingIsKept` (Catalog) | that of `Folders` | cancel and cleanup delete by id a session that was claimed meanwhile (`uploads/service.ts:106`, `:109`) |
| `NobodyStarves` (RepairQueue) | that of `Queue` with 2 hopeless | every pass enqueues, and thereby changes, all bad replicas; when the hopeless ones come first they fill every batch (`operation-service.ts:170`) |
| `StaysSignedIn` (Login) | that of `Login` | a 401 of a request sent before the login arrives after the new session was established and signs the user out (`auth-policy.ts:30`) |
| `SameUser`, `SameData` (Login) | that of `Login` | a second sign-in is sent from a form that was mounted anew while the first is under way; the answer to the first lookup comes after the second login changed the cookie, and the client shows one user and fetches for the other (`AuthPage.tsx:2`, `auth.tsx:48-60`) |
| `NothingLeft` (Login) | that of `Login` | the monitoring overview is not among `userQueryRoots` and stays in the cache for the next administrator (`auth-policy.ts:4`); it holds nothing of the user |

## 7. What is not modelled

- Registration apart from login, password hashing, the user table, demo accounts.
- Two tabs of one browser, which share the cookie of `Login`.
- Renaming and listing of files and folders, names and their conflicts.
- The two-slot queue of the upload manager and its list of interrupted uploads.
- Sockets and DNS: a node request is answered, fails, is lost or times out.
- Monitoring, dashboards, error wording, configuration, deployment: no protocol state.
- PostgreSQL, the file system and fetch are assumed to do what the code relies on:
  transactions are atomic, `updateMany` is conditional, rename and link are atomic.

## 8. Plan

Order of work, the most important behaviour first:

1. *Done.* `Replication` with `FileLifecycle`; runs `Integrity`, `Lifecycle`,
   `Recovery`, `Healing`; `ReplicationProofs`, `PublicationProofs`.
2. *Done.* `ObjectStore`, `UploadSession`, `ChunkedUpload`, their runs and proofs.
3. *Done.* `NodeRegistry` and `Placement`, `Catalog`, `RepairQueue`, `Login` and their runs;
   `NodeRegistryProofs`, `CatalogProofs`, `LoginProofs`.
4. The upload manager: a queue of files over `ChunkedUpload`, in which a job can be
   retried twice before it starts.
5. Composition: `UploadSession` with `Replication` (the file a completion prepares, its
   publication and the session's end as one protocol), `ChunkedUpload` with
   the server's steps of `UploadSession`.
