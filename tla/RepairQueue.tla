------------------------------ MODULE RepairQueue ------------------------------
(***************************************************************************)
(* Which replicas the two timers of the coordinator get round to: each     *)
(* scrub verifies the ScrubBatch replicas verified longest ago, each       *)
(* repair pass enqueues every bad replica and runs the Batch pending       *)
(* repairs that changed longest ago. One replica per file, and a repair in *)
(* one step: Replication has its steps. A step is one round of a loop.     *)
(***************************************************************************)
EXTENDS Integers, Sequences, SequencesExt

CONSTANTS
    Replicas,
    Hopeless,     \* replicas whose file has no good copy left
    Batch,        \* REPAIR_BATCH_SIZE
    ScrubBatch,   \* SCRUB_BATCH_SIZE
    MaxDamage,    \* bound: replicas that go bad
    MaxFailures   \* bound: repairs that fail although there is a source

ASSUME SizesAssumption == {Batch, ScrubBatch} \subseteq Nat \ {0} /\ {MaxDamage, MaxFailures} \subseteq Nat
ASSUME HopelessAssumption == Hopeless \subseteq Replicas

VARIABLES
    damaged,    \* replicas whose bytes are bad
    healthy,    \* replicas with status HEALTHY
    verified,   \* all replicas by lastVerifiedAt, oldest first
    status,     \* of the repair operation of a replica
    changed,    \* the replicas that have one, by its updatedAt, oldest first
    scrub,      \* replicas the running scrub has still to verify
    repair,     \* what the running repair pass is doing
    damages, failures

vars == <<damaged, healthy, verified, status, changed, scrub, repair, damages, failures>>

Off == [pc |-> "off", todo |-> <<>>]

Init ==
    /\ damaged = Hopeless /\ healthy = Replicas \ Hopeless
    /\ verified \in SetToSeqs(Replicas)
    /\ status = [r \in Replicas |-> "NONE"] /\ changed = <<>>
    /\ scrub = <<>> /\ repair = Off
    /\ damages = 0 /\ failures = 0

ToBack(s, r) == Append(Remove(s, r), r)
First(s, n) == SubSeq(s, 1, IF Len(s) < n THEN Len(s) ELSE n)

Damage(r) ==
    /\ r \notin damaged /\ damages < MaxDamage
    /\ damaged' = damaged \union {r} /\ damages' = damages + 1
    /\ UNCHANGED <<healthy, verified, status, changed, scrub, repair, failures>>

\* One operation per replica: the upsert of enqueueRepair, which sets updatedAt.
Enqueue(r) == status' = [status EXCEPT ![r] = "PENDING"] /\ changed' = ToBack(changed, r)

-----------------------------------------------------------------------------
(* ScrubService.tick                                                       *)

NewestFirst(s) == Reverse(s)   \* mistake: orderBy desc
OldestFirst(s) == s

ScrubBegins ==
    /\ scrub = <<>>
    /\ scrub' = First(SelectSeq(OldestFirst(verified), LAMBDA r : r \in healthy), ScrubBatch)
    /\ scrub' # <<>>
    /\ UNCHANGED <<damaged, healthy, verified, status, changed, repair, damages, failures>>

Verify ==
    /\ scrub # <<>>
    /\ LET r == Head(scrub)
       IN  IF r \in damaged
           THEN healthy' = healthy \ {r} /\ Enqueue(r) /\ UNCHANGED verified
           ELSE /\ healthy' = healthy \union {r} /\ verified' = ToBack(verified, r)
                /\ UNCHANGED <<status, changed>>
    /\ scrub' = Tail(scrub)
    /\ UNCHANGED <<damaged, repair, damages, failures>>

-----------------------------------------------------------------------------
(* reconcileRepairs                                                        *)

\* The files with a bad replica come in any order.
PassBegins ==
    /\ repair = Off
    /\ \E s \in SetToSeqs(Replicas \ healthy) : repair' = [pc |-> "enqueue", todo |-> s]
    /\ UNCHANGED <<damaged, healthy, verified, status, changed, scrub, damages, failures>>

EnqueueNext ==
    /\ repair.pc = "enqueue" /\ repair.todo # <<>>
    /\ LET r == Head(repair.todo)
       IN  IF r \in healthy THEN UNCHANGED <<status, changed>> ELSE Enqueue(r)
    /\ repair' = [repair EXCEPT !.todo = Tail(@)]
    /\ UNCHANGED <<damaged, healthy, verified, scrub, damages, failures>>

WaitsAlways(r) == TRUE   \* mistake: the oldest operations, whatever their status
Waits(r) == status[r] = "PENDING"

TakeBatch ==
    /\ repair.pc = "enqueue" /\ repair.todo = <<>>
    /\ repair' = [pc |-> "run", todo |-> First(SelectSeq(changed, Waits), Batch)]
    /\ UNCHANGED <<damaged, healthy, verified, status, changed, scrub, damages, failures>>

\* run: what cannot be claimed is passed over.
RunNext ==
    /\ repair.pc = "run" /\ repair.todo # <<>>
    /\ repair' = [repair EXCEPT !.todo = Tail(@)]
    /\ UNCHANGED <<scrub, damages>>
    /\ LET r == Head(repair.todo)
       IN  \/ /\ status[r] \notin {"PENDING", "FAILED"}
              /\ UNCHANGED <<damaged, healthy, verified, status, changed, failures>>
           \/ /\ status[r] \in {"PENDING", "FAILED"} /\ r \notin Hopeless
              /\ damaged' = damaged \ {r} /\ healthy' = healthy \union {r}
              /\ verified' = ToBack(verified, r)
              /\ status' = [status EXCEPT ![r] = "DONE"] /\ changed' = ToBack(changed, r)
              /\ UNCHANGED failures
           \/ /\ status[r] \in {"PENDING", "FAILED"}
              /\ r \in Hopeless \/ failures < MaxFailures
              /\ failures' = IF r \in Hopeless THEN failures ELSE failures + 1
              /\ status' = [status EXCEPT ![r] = "FAILED"] /\ changed' = ToBack(changed, r)
              /\ UNCHANGED <<damaged, healthy, verified>>

PassEnds ==
    /\ repair.pc = "run" /\ repair.todo = <<>>
    /\ repair' = Off
    /\ UNCHANGED <<damaged, healthy, verified, status, changed, scrub, damages, failures>>

ScrubStep == ScrubBegins \/ Verify
RepairStep == PassBegins \/ EnqueueNext \/ TakeBatch \/ RunNext \/ PassEnds
Next == ScrubStep \/ RepairStep \/ \E r \in Replicas : Damage(r)

Spec == Init /\ [][Next]_vars

\* Both timers go on.
FairSpec == Spec /\ WF_vars(ScrubStep) /\ WF_vars(RepairStep)

-----------------------------------------------------------------------------
(* Properties.                                                             *)

\* However many replicas there are for the batch, a scrub gets round to each
\* of them: damage is found (scrub-service.ts:16-21).
DamageIsFound == \A r \in Replicas : r \in damaged ~> r \notin damaged \cap healthy

\* A bad replica that has a source is repaired, although every pass enqueues
\* and changes all repairs again and some fail for ever, provided that those
\* are fewer than a batch (operation-service.ts:145-173).
FoundIsRepaired ==
    Cardinality(Hopeless) < Batch =>
        \A r \in Replicas \ Hopeless : r \notin healthy ~> r \in healthy

-----------------------------------------------------------------------------
(* What the code does not promise.                                         *)

\* The same without the proviso. False: a batch of hopeless repairs that the
\* pass enqueues first is all it ever runs.
NobodyStarves == \A r \in Replicas \ Hopeless : r \notin healthy ~> r \in healthy
=============================================================================
