-------------------------- MODULE PublicationProofs -------------------------
(***************************************************************************)
(* What replication achieves, for every set of nodes, of concurrent jobs   *)
(* and of faults: what a published file has behind it, that Replication    *)
(* implements FileLifecycle, and that a deletion erases everything.        *)
(***************************************************************************)
EXTENDS ReplicationProofs

-----------------------------------------------------------------------------
(***************************************************************************)
(* What a published file has behind it: two nodes that acknowledged their  *)
(* copy, and on every node whose replica the database trusts an object,    *)
(* until the deletion of that replica is a durable operation. The          *)
(* invariant PublicationInv says it of the rows (RowsInv) and of what the  *)
(* jobs have read and will still write (JobInv).                           *)
(***************************************************************************)

CreateOf(n) == op[<<"CREATE", n>>]
Unpublished == file \in {"NONE", "PENDING"}
Twice == AtLeastTwo(Acknowledged)

\* No step but an erasure that is a durable operation takes an object away.
Kept(n) == Scheduled(n) \/ object[n] # "absent"

GoneInv == file = "GONE" => /\ \A o \in Ops : op[o] = "NONE"
                            /\ \A n \in Nodes : replica[n] = "NONE"
\* Until the file is published there are only CREATE operations, and nothing
\* but their success makes a replica HEALTHY.
UnpublishedInv ==
    Unpublished => /\ \A o \in Ops \ OpsOf("CREATE") : op[o] = "NONE"
                   /\ \A n \in Healthy : CreateOf(n) = "DONE"
PublishedInv ==
    /\ file \in {"AVAILABLE", "DELETING"} => Twice
    /\ RowExists /\ ~staging => Twice
\* A file is created on two nodes, never on more.
PairInv == \E a, b \in Nodes \union {NoNode} : \A n \in Nodes \ {a, b} : CreateOf(n) = "NONE"
KeptInv == \A n \in Nodes : n \in Acknowledged \union Healthy => Kept(n)

RowsInv == GoneInv /\ UnpublishedInv /\ PublishedInv /\ PairInv /\ KeptInv

\* Labels that only a job on an AVAILABLE file reaches.
PublishedLabels ==
    {"mark", "next", "lookup", "enqueue", "replace", "insert", "source", "head",
     "get", "verdict"}

\* What a job at label l that runs o and reads n, with answer g, relies on
\* while there is a file.
Relies(l, o, n, g) ==
    /\ Unpublished => l \notin PublishedLabels /\ o \notin OpsOf("DELETE") \union OpsOf("REPAIR")
    /\ file # "GONE" =>
          /\ o \in OpsOf("DELETE") => Scheduled(o[2])
          /\ l = "commit" /\ o \in Ops => Kept(o[2])
          /\ l = "verdict" /\ g = "good" /\ n \in Nodes => Kept(n)
          /\ l \in {"publish", "unsession", "unstage"} => Twice

JobInv == \A p \in Procs : Relies(proc[p].pc, proc[p].cur, proc[p].src, proc[p].got)

PublicationInv == RowsInv /\ JobInv

-----------------------------------------------------------------------------
(* Steps of a job, by what they write.                                     *)

\* A step takes nothing away from what the jobs rely on.
Keeps ==
    /\ Unpublished' => Unpublished
    /\ file' # "GONE" => /\ file # "GONE"
                         /\ Twice => Twice'
                         /\ \A n \in Nodes : Scheduled(n) => Scheduled(n)'
                         /\ \A n \in Nodes : Kept(n) => Kept(n)'

\* NoOp runs nothing.
LEMMA NoOpOf == NoOp \notin OpsOf("CREATE") \union OpsOf("DELETE") \union OpsOf("REPAIR")
  BY DEF NoOp, OpsOf

\* A job that reads and runs nothing relies on nothing, but before publishing.
LEMMA FreeRelies ==
  ASSUME NEW l, NEW n, NEW g,
         l \notin PublishedLabels \union {"commit", "publish", "unsession", "unstage"}
  PROVE  Relies(l, NoOp, n, g) /\ Relies(l, NoOp, n, g)'
  BY NoOpOf DEF Relies, PublishedLabels

\* What a job relies on is still there after a step of another one.
LEMMA OthersRely ==
  ASSUME Keeps, NEW l, NEW o \in Ops \union {NoOp}, NEW n, NEW g, Relies(l, o, n, g)
  PROVE  Relies(l, o, n, g)'
  BY NoOpOf, NoOpFree DEF Keeps, Relies, Ops, Kinds, OpsOf

\* A step that keeps the rows right and after which its job may rely on
\* what it goes on with.
LEMMA JobStep ==
  ASSUME TypeInv, PublicationInv, RowsInv', Keeps,
         NEW p \in Procs, NEW l, NEW j, NEW o, NEW n, NEW g,
         Moved(p, l, j, o, n, g), Relies(l, o, n, g)'
  PROVE  PublicationInv'
<1>1. ASSUME NEW q \in Procs, q # p
      PROVE  Relies(proc[q].pc, proc[q].cur, proc[q].src, proc[q].got)'
  <2>1. proc'[q] = proc[q]
    BY <1>1 DEF Moved
  <2>2. proc[q].cur \in Ops \union {NoOp}
    BY ShapeNow, Fields
  <2>3. Relies(proc[q].pc, proc[q].cur, proc[q].src, proc[q].got)
    BY DEF PublicationInv, JobInv
  <2> QED BY <2>1, <2>2, <2>3, OthersRely
<1>2. Relies(proc[p].pc, proc[p].cur, proc[p].src, proc[p].got)'
  BY DEF Moved
<1> QED BY <1>1, <1>2 DEF PublicationInv, JobInv

-----------------------------------------------------------------------------
(* Steps that write no row and no object.                                  *)

\* They keep the rows right ...
LEMMA QuietRows ==
  ASSUME PublicationInv, UNCHANGED <<file, staging, replica, op, object>>
  PROVE  RowsInv' /\ Keeps
<1>1. Keeps
  BY DEF Keeps, Unpublished, Twice, AtLeastTwo, Acknowledged, Scheduled, Kept
<1>2. RowsInv'
  BY DEF PublicationInv, RowsInv, GoneInv, UnpublishedInv, PublishedInv, PairInv, KeptInv,
         Unpublished, Twice, AtLeastTwo, Acknowledged, Scheduled, Kept, Healthy, CreateOf,
         RowExists
<1> QED BY <1>1, <1>2

\* ... and what a job may rely on.
LEMMA QuietStep ==
  ASSUME TypeInv, PublicationInv, UNCHANGED <<file, staging, replica, op, object>>,
         NEW p \in Procs, NEW l, NEW j, NEW o, NEW n, NEW g,
         Moved(p, l, j, o, n, g), Relies(l, o, n, g)
  PROVE  PublicationInv'
<1>1. Relies(l, o, n, g)'
  BY DEF Relies, Unpublished, Twice, AtLeastTwo, Acknowledged, Scheduled, Kept
<1> QED BY <1>1, QuietRows, JobStep

\* A label that relies on no more than the one before.
LEMMA GoesOn ==
  ASSUME NEW m, NEW l, NEW o, NEW n, NEW g, NEW k, NEW h, Relies(m, o, n, g),
         l \notin {"commit", "publish", "unsession", "unstage"},
         l \in PublishedLabels => m \in PublishedLabels \/ ~Unpublished,
         l = "verdict" => h # "good"
  PROVE  Relies(l, o, k, h)
  BY DEF Relies

\* Moving on to such a label, ending a job and starting one keep the invariant.
LEMMA QuietMoves ==
  ASSUME TypeInv, PublicationInv, UNCHANGED <<file, staging, replica, op, object>>,
         NEW p \in Procs
  PROVE  /\ \A l \in Labels \ {"commit", "publish", "unsession", "unstage", "verdict"} :
               /\ l \in PublishedLabels => proc[p].pc \in PublishedLabels \/ ~Unpublished
               /\ Goto(p, l)
               => PublicationInv'
         /\ Finish(p) => PublicationInv'
         /\ \A j \in JobKinds \union {"recover"} : Start(p, j, "list") => PublicationInv'
<1>1. ASSUME NEW l \in Labels \ {"commit", "publish", "unsession", "unstage", "verdict"},
             l \in PublishedLabels => proc[p].pc \in PublishedLabels \/ ~Unpublished,
             Goto(p, l)
      PROVE  PublicationInv'
  <2>1. Moved(p, l, proc[p].job, proc[p].cur, proc[p].src, proc[p].got)
    BY <1>1, ShapeNow, GotoMoved
  <2>2. Relies(proc[p].pc, proc[p].cur, proc[p].src, proc[p].got)
    BY DEF PublicationInv, JobInv
  <2>3. Relies(l, proc[p].cur, proc[p].src, proc[p].got)
    BY <1>1, <2>2, GoesOn
  <2> QED BY <2>1, <2>3, QuietStep
<1>2. ASSUME Finish(p) PROVE PublicationInv'
  <2>1. Moved(p, "idle", "none", NoOp, NoNode, "none")
    BY <1>2, ShapeNow, FinishMoved
  <2>2. Relies("idle", NoOp, NoNode, "none")
    BY FreeRelies DEF PublishedLabels
  <2> QED BY <2>1, <2>2, QuietStep
<1>3. ASSUME NEW j \in JobKinds \union {"recover"}, Start(p, j, "list") PROVE PublicationInv'
  <2>1. Moved(p, "list", j, NoOp, NoNode, "none")
    BY <1>3, ShapeNow, StartMoved DEF Labels
  <2>2. Relies("list", NoOp, NoNode, "none")
    BY FreeRelies DEF PublishedLabels
  <2> QED BY <2>1, <2>2, QuietStep
<1> QED BY <1>1, <1>2, <1>3

\* The steps of Operate that write nothing.
LEMMA OperateQuiet ==
  ASSUME TypeInv, PublicationInv, NEW p \in Procs,
         \/ \E o \in Ops : NotClaimed(p, o)
         \/ \E n \in Nodes : Source(p, n)
         \/ AllRun(p) \/ BeginCreate(p) \/ BeginDelete(p) \/ BeginRepair(p) \/ NoSource(p)
         \/ PutConflict(p) \/ Confirm(p) \/ ConfirmFails(p)
  PROVE  PublicationInv'
<1>0. /\ Relies(proc[p].pc, proc[p].cur, proc[p].src, proc[p].got)
      /\ {"reject", "put", "erase", "source", "inspect", "loop"} \subseteq Labels
  BY DEF PublicationInv, JobInv, Labels
<1>1. ASSUME NEW o \in Ops, NotClaimed(p, o) PROVE PublicationInv'
  BY <1>0, <1>1, ShapeNow, NotClaimedMoved, QuietStep DEF NotClaimed, database, cluster
<1>2. ASSUME NEW n \in Nodes, Source(p, n) PROVE PublicationInv'
  <2>1. Moved(p, "head", proc[p].job, proc[p].cur, n, proc[p].got)
    BY <1>2, ShapeNow, SourceMoved
  <2>2. Relies("head", proc[p].cur, n, proc[p].got)
    BY <1>0, <1>2 DEF Source, At, PublishedLabels, Relies
  <2> QED BY <1>2, <2>1, <2>2, QuietStep DEF Source, database, cluster
<1>3. CASE AllRun(p)
  BY <1>0, <1>3, QuietMoves DEF AllRun, database, cluster, PublishedLabels
<1>4. CASE BeginCreate(p)
  BY <1>0, <1>4, QuietMoves DEF BeginCreate, database, cluster, PublishedLabels
<1>5. CASE BeginDelete(p)
  BY <1>0, <1>5, QuietMoves DEF BeginDelete, database, cluster, PublishedLabels
<1>6. CASE BeginRepair(p)
  BY <1>0, <1>6, QuietMoves DEF BeginRepair, database, cluster, PublishedLabels, Unpublished
<1>7. CASE NoSource(p) \/ PutConflict(p) \/ ConfirmFails(p)
  BY <1>0, <1>7, QuietMoves DEF NoSource, PutConflict, ConfirmFails, database, cluster,
     PublishedLabels
<1>8. CASE Confirm(p)
  <2>1. CASE Goto(p, "reject")
    BY <1>0, <1>8, <2>1, QuietMoves DEF Confirm, database, cluster, PublishedLabels
  <2>2. CASE object[proc[p].cur[2]] \in {"good", "bad"} /\ Goto(p, "commit")
    <3>1. Moved(p, "commit", proc[p].job, proc[p].cur, proc[p].src, proc[p].got)
      BY <2>2, ShapeNow, GotoMoved DEF Labels
    <3>2. Kept(proc[p].cur[2])
      BY <2>2 DEF Kept
    <3>3. Relies("commit", proc[p].cur, proc[p].src, proc[p].got)
      BY <1>0, <3>2 DEF Relies, PublishedLabels
    <3> QED BY <1>8, <3>1, <3>3, QuietStep DEF Confirm, database, cluster
  <2> QED BY <1>8, <2>1, <2>2 DEF Confirm
<1> QED BY <1>1, <1>2, <1>3, <1>4, <1>5, <1>6, <1>7, <1>8

\* A file is published on the strength of replicas that two nodes acknowledged.
LEMMA ReplicatedTwice ==
  ASSUME PublicationInv, file \in {"PENDING", "AVAILABLE"}, Replicated
  PROVE  Twice
  BY DEF PublicationInv, RowsInv, UnpublishedInv, PublishedInv, Replicated, AtLeastTwo, Twice,
     Acknowledged, Healthy, CreateOf, Unpublished

\* The steps of Reconcile and of Verify that write nothing.
LEMMA ReconcileQuiet ==
  ASSUME TypeInv, PublicationInv, NEW p \in Procs, List(p) \/ Inspect(p) \/ Vanished(p)
  PROVE  PublicationInv'
<1>0. /\ Relies(proc[p].pc, proc[p].cur, proc[p].src, proc[p].got)
      /\ {"drop", "publish", "loop"} \subseteq Labels
  BY DEF PublicationInv, JobInv, Labels
<1>1. CASE List(p)
  <2>1. Moved(p, "loop", proc[p].job, proc[p].cur, proc[p].src, proc[p].got)
    BY <1>1, ShapeNow, ListMoved
  <2>2. Relies("loop", proc[p].cur, proc[p].src, proc[p].got)
    BY <1>0 DEF Relies, PublishedLabels
  <2> QED BY <1>1, <2>1, <2>2, QuietStep DEF List, database, cluster
<1>2. CASE Vanished(p)
  BY <1>2, QuietMoves DEF Vanished, database, cluster
<1>3. CASE Inspect(p)
  <2>1. CASE Goto(p, "drop") \/ Finish(p)
    BY <1>0, <1>3, <2>1, QuietMoves DEF Inspect, database, cluster, PublishedLabels
  <2>2. CASE file \in {"PENDING", "AVAILABLE"} /\ Replicated /\ Goto(p, "publish")
    <3>1. Moved(p, "publish", proc[p].job, proc[p].cur, proc[p].src, proc[p].got)
      BY <1>0, <2>2, ShapeNow, GotoMoved
    <3>2. Relies("publish", proc[p].cur, proc[p].src, proc[p].got)
      BY <1>0, <2>2, ReplicatedTwice DEF Relies, PublishedLabels
    <3> QED BY <1>3, <3>1, <3>2, QuietStep DEF Inspect, database, cluster
  <2> QED BY <1>3, <2>1, <2>2 DEF Inspect
<1> QED BY <1>1, <1>2, <1>3

\* A replica that was read in full has an object.
LEMMA VerifyQuiet ==
  ASSUME TypeInv, PublicationInv, NEW p \in Procs, Head(p) \/ Get(p) \/ ReadFails(p)
  PROVE  PublicationInv'
<1>0. /\ Relies(proc[p].pc, proc[p].cur, proc[p].src, proc[p].got)
      /\ proc[p].pc \in PublishedLabels
  BY DEF PublicationInv, JobInv, Head, Get, ReadFails, At, PublishedLabels
<1>1. UNCHANGED <<file, staging, replica, op, object>>
  BY DEF Head, Get, ReadFails, database, cluster
<1>2. ASSUME NEW g, g = "good" => object[proc[p].src] = "good"
      PROVE  Relies("verdict", proc[p].cur, proc[p].src, g)
  BY <1>0, <1>2 DEF Relies, Kept
<1>3. Relies("get", proc[p].cur, proc[p].src, proc[p].got)
  BY <1>0 DEF Relies
<1>4. CASE Head(p)
  BY <1>1, <1>2, <1>3, <1>4, ShapeNow, HeadMoved, QuietStep
<1>5. CASE Get(p)
  BY <1>1, <1>2, <1>5, ShapeNow, GetMoved, QuietStep
<1>6. CASE ReadFails(p)
  BY <1>1, <1>2, <1>6, ShapeNow, ReadFailsMoved, QuietStep
<1> QED BY <1>4, <1>5, <1>6

\* The steps of Schedule that write nothing.
LEMMA ScheduleQuiet ==
  ASSUME TypeInv, PublicationInv, NEW p \in Procs,
         \/ \E n \in Nodes : Visit(p, n)
         \/ Visited(p) \/ Lookup(p) \/ Replace(p) \/ Queue(p)
  PROVE  PublicationInv'
<1>0. /\ Relies(proc[p].pc, proc[p].cur, proc[p].src, proc[p].got)
      /\ {"replace", "queue"} \subseteq Labels
  BY DEF PublicationInv, JobInv, Labels
<1>1. UNCHANGED <<file, staging, replica, op, object>>
  BY DEF Visit, Visited, Lookup, Replace, Queue, database, cluster
<1>2. ASSUME NEW n \in Nodes, Visit(p, n) PROVE PublicationInv'
  <2>1. ASSUME NEW l \in {"lookup", "head", "verdict"},
               NEW g \in {proc[p].got, "UNAVAILABLE"}, l = "verdict" => g = "UNAVAILABLE"
        PROVE  Relies(l, proc[p].cur, n, g)
    BY <1>0, <1>2, <2>1 DEF Visit, At, Relies, PublishedLabels
  <2> QED BY <1>1, <1>2, <2>1, ShapeNow, VisitMoved, QuietStep
<1>3. CASE Visited(p)
  BY <1>0, <1>1, <1>3, QuietMoves DEF Visited, At, PublishedLabels
<1>4. CASE Lookup(p)
  <2>1. ASSUME NEW l \in {"next", "enqueue"}, NEW n
        PROVE  Relies(l, proc[p].cur, n, proc[p].got)
    BY <1>0, <1>4 DEF Lookup, At, Relies, PublishedLabels
  <2> QED BY <1>1, <1>4, <2>1, ShapeNow, LookupMoved, QuietStep
<1>5. CASE Replace(p)
  <2>1. ASSUME NEW l \in {"insert", "queue"}, NEW n
        PROVE  Relies(l, proc[p].cur, n, proc[p].got)
    BY <1>0, <1>5 DEF Replace, At, Relies, PublishedLabels
  <2> QED BY <1>1, <1>5, <2>1, ShapeNow, ReplaceMoved, QuietStep
<1>6. CASE Queue(p)
  <2>1. Relies("loop", proc[p].cur, proc[p].src, proc[p].got)
    BY <1>0 DEF Relies, PublishedLabels
  <2> QED BY <1>1, <1>6, <2>1, ShapeNow, QueueMoved, QuietStep
<1> QED BY <1>2, <1>3, <1>4, <1>5, <1>6

\* The steps of Request that write nothing.
LEMMA RequestQuiet ==
  ASSUME TypeInv, PublicationInv, NEW p \in Procs,
         \/ Retry(p) \/ Download(p) \/ Scrub(p)
         \/ \E aged \in SUBSET Nodes : RepairPass(p, aged)
  PROVE  PublicationInv'
<1>1. UNCHANGED <<file, staging, replica, op, object>>
  BY DEF Retry, Download, Scrub, RepairPass, database, cluster
<1>2. CASE Retry(p)
  BY <1>1, <1>2, QuietMoves DEF Retry, JobKinds
<1>3. ASSUME ~Unpublished, NEW l \in {"next", "mark", "queue"}
      PROVE  Relies(l, NoOp, NoNode, "none")
  BY <1>3, NoOpOf DEF Relies
<1>4. CASE Download(p)
  <2>1. Relies("next", NoOp, NoNode, "none")
    BY <1>3, <1>4 DEF Download, Unpublished
  <2> QED BY <1>1, <1>4, <2>1, ShapeNow, DownloadMoved, QuietStep
<1>5. CASE Scrub(p)
  <2>1. Relies("next", NoOp, NoNode, "none")
    BY <1>3, <1>5 DEF Scrub, Unpublished
  <2> QED BY <1>1, <1>5, <2>1, ShapeNow, ScrubMoved, QuietStep
<1>6. ASSUME NEW aged \in SUBSET Nodes, RepairPass(p, aged) PROVE PublicationInv'
  <2>1. Relies("queue", NoOp, NoNode, "none")
    BY FreeRelies DEF PublishedLabels
  <2>2. file = "AVAILABLE" => Relies("mark", NoOp, NoNode, "none")
    BY <1>3 DEF Unpublished
  <2>3. PICK l \in {"mark", "queue"} :
           /\ l = "mark" => file = "AVAILABLE"
           /\ Moved(p, l, "repair", NoOp, NoNode, "none")
    BY <1>6, ShapeNow, RepairPassMoved
  <2>4. Relies(l, NoOp, NoNode, "none")
    BY <2>1, <2>2, <2>3
  <2> QED BY <1>1, <2>3, <2>4, QuietStep
<1> QED BY <1>2, <1>4, <1>5, <1>6

-----------------------------------------------------------------------------
(* Steps that write objects.                                               *)

\* Storing and damaging objects takes none away.
LEMMA ObjectRows ==
  ASSUME PublicationInv, UNCHANGED <<file, staging, replica, op>>,
         \A n \in Nodes : Kept(n) => Kept(n)'
  PROVE  RowsInv' /\ Keeps
<1>1. Keeps
  BY DEF Keeps, Unpublished, Twice, AtLeastTwo, Acknowledged, Scheduled
<1>2. RowsInv'
  BY DEF PublicationInv, RowsInv, GoneInv, UnpublishedInv, PublishedInv, PairInv, KeptInv,
         Unpublished, Twice, AtLeastTwo, Acknowledged, Healthy, CreateOf, RowExists
<1> QED BY <1>1, <1>2

\* An object that was stored is there.
LEMMA StoredKept ==
  ASSUME TypeInv, NEW o \in Ops, UNCHANGED op, object' = Stored(o)
  PROVE  /\ \A n \in Nodes : Kept(n) => Kept(n)'
         /\ Kept(o[2])'
<1>1. o[2] \in Nodes /\ object \in [Nodes -> ObjectStatus]
  BY ShapeNow DEF Ops, TypeInv, TypeOK
<1> QED BY <1>1 DEF Stored, Kept, Scheduled

\* A step after which its job moves on to the end of its operation.
LEMMA GotoStep ==
  ASSUME TypeInv, PublicationInv, RowsInv', Keeps, NEW p \in Procs,
         NEW l \in {"reject", "confirm", "commit"}, Goto(p, l),
         NEW o \in Ops, o = proc[p].cur,
         l = "commit" /\ file' # "GONE" => Kept(o[2])'
  PROVE  PublicationInv'
<1>1. PICK m, n, g : m = proc[p].pc /\ n = proc[p].src /\ g = proc[p].got
  OBVIOUS
<1>2. Relies(m, o, n, g)
  BY <1>1 DEF PublicationInv, JobInv
<1>3. Relies(m, o, n, g)'
  BY <1>2, OthersRely
<1>4. Relies(l, o, n, g)'
  BY <1>3 DEF Relies, PublishedLabels
<1>5. Moved(p, l, proc[p].job, o, n, g)
  BY <1>1, ShapeNow, GotoMoved DEF Labels
<1> QED BY <1>4, <1>5, JobStep

\* Put and PutFails.
LEMMA PutKeeps ==
  ASSUME TypeInv, PublicationInv, NEW p \in Procs, Put(p) \/ PutFails(p)
  PROVE  PublicationInv'
<1>0. /\ Relies(proc[p].pc, proc[p].cur, proc[p].src, proc[p].got)
      /\ {"reject", "commit", "confirm"} \subseteq Labels
      /\ proc[p].cur \in Ops /\ UNCHANGED <<file, staging, replica, op>>
  BY ShapeNow DEF PublicationInv, JobInv, Labels, Put, PutFails, At, ShapeOf, OpLabels, database
<1>1. object' = Stored(proc[p].cur) \/ object' = object
  BY DEF Put, PutFails
<1>2. \A n \in Nodes : Kept(n) => Kept(n)'
  BY <1>0, <1>1, StoredKept DEF Kept, Scheduled
<1>3. RowsInv' /\ Keeps
  BY <1>0, <1>2, ObjectRows
<1>4. PICK o \in Ops : o = proc[p].cur
  BY <1>0
<1>5. CASE Put(p)
  <2>1. Kept(o[2])'
    BY <1>0, <1>4, <1>5, StoredKept DEF Put
  <2> QED BY <1>3, <1>4, <1>5, <2>1, GotoStep DEF Put
<1>6. CASE PutFails(p)
  BY <1>3, <1>4, <1>6, GotoStep DEF PutFails
<1> QED BY <1>5, <1>6

\* Only a replica whose deletion is a durable operation is erased.
LEMMA EraseKeeps ==
  ASSUME TypeInv, PublicationInv, NEW p \in Procs, Erase(p) \/ EraseFails(p)
  PROVE  PublicationInv'
<1>0. /\ Relies(proc[p].pc, proc[p].cur, proc[p].src, proc[p].got)
      /\ {"reject", "commit"} \subseteq Labels
      /\ proc[p].cur \in OpsOf("DELETE") /\ UNCHANGED <<file, staging, replica, op>>
  BY ShapeNow DEF PublicationInv, JobInv, Labels, Erase, EraseFails, At, ShapeOf, database
<1>1. /\ proc[p].cur[2] \in Nodes /\ object \in [Nodes -> ObjectStatus]
      /\ file # "GONE" => Scheduled(proc[p].cur[2])
  BY <1>0, ShapeNow DEF OpsOf, TypeOK, Relies
<1>2. file # "GONE" => \A n \in Nodes : Kept(n) => Kept(n)'
  BY <1>0, <1>1 DEF Erase, EraseFails, Kept, Scheduled
<1>3. RowsInv' /\ Keeps
  <2>1. CASE file # "GONE"
    BY <1>0, <1>2, <2>1, ObjectRows
  <2>2. CASE file = "GONE"
    BY <1>0, <2>2
       DEF PublicationInv, RowsInv, GoneInv, UnpublishedInv, PublishedInv, PairInv, KeptInv,
           Unpublished, Acknowledged, Healthy, CreateOf, RowExists, Keeps, Ops, Kinds
  <2> QED BY <2>1, <2>2
<1>4. PICK o \in Ops : o = proc[p].cur
  BY <1>0 DEF Ops, Kinds, OpsOf
<1>5. file # "GONE" => Kept(o[2])'
  BY <1>0, <1>1, <1>4 DEF Scheduled, Kept
<1> QED BY <1>0, <1>3, <1>4, <1>5, GotoStep DEF Erase, EraseFails

-----------------------------------------------------------------------------
(* Steps that write rows.                                                  *)

\* A write that leaves the CREATE and DELETE operations alone and calls no
\* replica HEALTHY that has nothing behind it.
SoftWrite ==
    /\ UNCHANGED <<file, staging, object>>
    /\ \A n \in Nodes : /\ op'[<<"CREATE", n>>] = op[<<"CREATE", n>>]
                        /\ op'[<<"DELETE", n>>] = op[<<"DELETE", n>>]
    /\ Unpublished \/ file = "GONE" => \A o \in Ops : op'[o] = op[o]
    /\ file = "GONE" => \A n \in Nodes : replica'[n] = replica[n]
    /\ \A n \in Nodes : replica'[n] = "HEALTHY" =>
          replica[n] = "HEALTHY" \/ (~Unpublished /\ Kept(n))

\* Such a write keeps the rows right ...
LEMMA SoftRows ==
  ASSUME PublicationInv, SoftWrite
  PROVE  RowsInv' /\ Keeps
<1>1. /\ \A n \in Nodes : (Scheduled(n)' <=> Scheduled(n)) /\ (Kept(n)' <=> Kept(n))
      /\ Acknowledged' = Acknowledged
      /\ Unpublished' = Unpublished /\ RowExists' = RowExists
  BY DEF SoftWrite, Scheduled, Kept, Acknowledged, Unpublished, RowExists
<1>2. Twice' = Twice
  BY <1>1 DEF Twice, AtLeastTwo
<1>3. Keeps
  BY <1>1, <1>2 DEF Keeps, SoftWrite
<1>4. GoneInv' /\ PublishedInv'
  BY <1>1, <1>2 DEF PublicationInv, RowsInv, GoneInv, PublishedInv, SoftWrite
<1>5. UnpublishedInv'
  BY <1>1 DEF PublicationInv, RowsInv, UnpublishedInv, SoftWrite, Healthy, CreateOf
<1>6. PairInv'
  BY DEF PublicationInv, RowsInv, PairInv, SoftWrite, CreateOf
<1>7. KeptInv'
  BY <1>1 DEF PublicationInv, RowsInv, KeptInv, SoftWrite, Healthy
<1> QED BY <1>3, <1>4, <1>5, <1>6, <1>7 DEF RowsInv

\* ... and what the jobs rely on.
LEMMA SoftStep ==
  ASSUME TypeInv, PublicationInv, SoftWrite, NEW p \in Procs,
         NEW l, NEW j, NEW o \in Ops \union {NoOp}, NEW n, NEW g,
         Moved(p, l, j, o, n, g), Relies(l, o, n, g)
  PROVE  PublicationInv'
  BY SoftRows, OthersRely, JobStep

\* A verdict calls a replica HEALTHY only if it was read in full.
LEMMA VerdictSoft ==
  ASSUME TypeInv, PublicationInv, NEW p \in Procs, RecordVerdict(p)
  PROVE  SoftWrite /\ ~Unpublished
<1>1. /\ Relies("verdict", proc[p].cur, proc[p].src, proc[p].got)
      /\ proc[p].pc = "verdict" /\ proc[p].got # "none"
      /\ replica \in [Nodes -> ReplicaStatus] /\ proc[p].got \in Answers
  BY ShapeNow, Fields DEF PublicationInv, JobInv, RecordVerdict, At, TypeOK, ShapeOf
<1>2. ~Unpublished
  BY <1>1 DEF Relies, PublishedLabels
<1>3. StatusOf(proc[p].got) = "HEALTHY" => proc[p].got = "good"
  BY <1>1, VerdictStatus
<1>4. /\ UNCHANGED <<file, staging, op, object>>
      /\ \A n \in Nodes : \/ replica'[n] = replica[n]
                          \/ /\ replica[n] # "NONE" /\ n = proc[p].src
                             /\ replica'[n] = StatusOf(proc[p].got)
  <2>1. UNCHANGED <<file, staging, op, object>>
    BY DEF RecordVerdict, cluster
  <2> DEFINE v == StatusOf(proc[p].got)
  <2> HIDE DEF v
  <2>2. replica' = IF replica[proc[p].src] = "NONE" THEN replica
                   ELSE [replica EXCEPT ![proc[p].src] = v]
    BY DEF RecordVerdict, v
  <2>3. ASSUME NEW n \in Nodes
        PROVE  \/ replica'[n] = replica[n]
               \/ replica[n] # "NONE" /\ n = proc[p].src /\ replica'[n] = v
    BY <1>1, <2>2
  <2> QED BY <2>1, <2>3 DEF v
<1>5. file = "GONE" => \A n \in Nodes : replica[n] = "NONE"
  BY DEF PublicationInv, RowsInv, GoneInv
<1>6. file # "GONE" /\ proc[p].got = "good" /\ proc[p].src \in Nodes => Kept(proc[p].src)
  BY <1>1 DEF Relies
<1> QED BY <1>2, <1>3, <1>4, <1>5, <1>6 DEF SoftWrite

\* Verdicts.
LEMMA VerdictKeeps ==
  ASSUME TypeInv, PublicationInv, NEW p \in Procs,
         VerdictRepair(p) \/ VerdictScrub(p) \/ VerdictDownload(p)
  PROVE  PublicationInv'
<1>0. /\ SoftWrite /\ ~Unpublished /\ proc[p].cur \in Ops \union {NoOp}
      /\ Relies(proc[p].pc, proc[p].cur, proc[p].src, proc[p].got)
  BY VerdictSoft, ShapeNow, Fields
     DEF VerdictRepair, VerdictScrub, VerdictDownload, PublicationInv, JobInv
<1>1. ASSUME NEW l \in {"put", "reject", "next", "lookup"}, NEW n
      PROVE  Relies(l, proc[p].cur, n, "none")
  BY <1>0 DEF Relies
<1>2. Relies("idle", NoOp, NoNode, "none")
  BY FreeRelies DEF PublishedLabels
<1>3. CASE VerdictRepair(p)
  BY <1>0, <1>1, <1>3, ShapeNow, VerdictRepairMoved, SoftStep
<1>4. CASE VerdictScrub(p)
  BY <1>0, <1>1, <1>4, ShapeNow, VerdictScrubMoved, SoftStep
<1>5. CASE VerdictDownload(p)
  BY <1>0, <1>1, <1>2, <1>5, ShapeNow, VerdictDownloadMoved, SoftStep
<1> QED BY <1>3, <1>4, <1>5

\* A repair pass marks replicas and schedules repairs.
LEMMA ScheduleKeeps ==
  ASSUME TypeInv, PublicationInv, NEW p \in Procs, Enqueue(p) \/ Mark(p) \/ Insert(p)
  PROVE  PublicationInv'
<1>0. /\ Relies(proc[p].pc, proc[p].cur, proc[p].src, proc[p].got)
      /\ proc[p].pc \in {"enqueue", "mark", "insert"}
      /\ proc[p].cur \in Ops \union {NoOp} /\ proc[p].down \subseteq Nodes
      /\ op \in [Ops -> OpStatus] /\ replica \in [Nodes -> ReplicaStatus]
      /\ proc[p].src \in Nodes \union {NoNode}
  BY ShapeNow, Fields
     DEF Enqueue, Mark, Insert, At, PublicationInv, JobInv, TypeOK, ProcState
<1>1. ~Unpublished
  BY <1>0 DEF Relies, PublishedLabels
<1>2. file = "GONE" => /\ \A n \in Nodes : replica[n] = "NONE"
                       /\ \A o \in Ops : op[o] = "NONE"
  BY DEF PublicationInv, RowsInv, GoneInv
<1>3. ASSUME NEW l \in {"next", "mark", "queue"}, NEW n
      PROVE  Relies(l, proc[p].cur, n, proc[p].got)
  BY <1>0, <1>1 DEF Relies
<1>4. CASE Enqueue(p)
  <2>1. SoftWrite
    BY <1>0, <1>1, <1>2, <1>4, NodesAssumption DEF Enqueue, SoftWrite, Ops, Kinds, cluster
  <2> QED BY <1>0, <1>3, <1>4, <2>1, ShapeNow, EnqueueMoved, SoftStep
<1>5. CASE Mark(p)
  <2>1. SoftWrite
    BY <1>0, <1>1, <1>2, <1>5 DEF Mark, SoftWrite, cluster
  <2> QED BY <1>0, <1>3, <1>5, <2>1, ShapeNow, MarkMoved, SoftStep
<1>6. CASE Insert(p)
  <2>1. SoftWrite
    BY <1>0, <1>1, <1>2, <1>6 DEF Insert, SoftWrite, Ops, Kinds, cluster, RowExists
  <2> QED BY <1>0, <1>3, <1>6, <2>1, ShapeNow, InsertMoved, SoftStep
<1> QED BY <1>4, <1>5, <1>6

\* A job that ends or goes on with nothing relies on nothing.
LEMMA FreeStep ==
  ASSUME TypeInv, PublicationInv, RowsInv', Keeps, NEW p \in Procs,
         NEW l \in {"idle", "list", "loop"}, NEW j, NEW n, NEW g, Moved(p, l, j, NoOp, n, g)
  PROVE  PublicationInv'
<1>1. Relies(l, NoOp, n, g)'
  BY FreeRelies DEF PublishedLabels
<1> QED BY <1>1, JobStep

\* An upload starts from nothing.
LEMMA UploadKeeps ==
  ASSUME TypeInv, RunnerInv, PublicationInv, NEW p \in Procs, Upload(p)
  PROVE  PublicationInv'
<1>0. /\ file = "NONE" /\ file' = "PENDING" /\ staging' = TRUE /\ object' = object
      /\ \A o \in Ops : op[o] = "NONE"
  BY DEF Upload, cluster, RunnerInv, Unborn
<1>1. PICK a, b \in Live :
         /\ replica' = [n \in Nodes |-> IF n \in {a, b} THEN "PENDING" ELSE "NONE"]
         /\ op' = [o \in Ops |-> IF o \in {"CREATE"} \X {a, b} THEN "PENDING" ELSE "NONE"]
  BY DEF Upload
<1>2. /\ a \in Nodes /\ b \in Nodes
      /\ \A o \in Ops : op'[o] \in {"PENDING", "NONE"}
      /\ \A o \in Ops \ OpsOf("CREATE") : op'[o] = "NONE"
      /\ \A n \in Nodes \ {a, b} : op'[<<"CREATE", n>>] = "NONE"
      /\ \A n \in Nodes : <<"CREATE", n>> \in Ops /\ <<"DELETE", n>> \in Ops
      /\ \A n \in Nodes : replica'[n] # "HEALTHY"
  BY <1>1 DEF Live, Ops, Kinds, OpsOf
<1>3. Acknowledged' = {} /\ Healthy' = {} /\ Acknowledged = {}
  BY <1>0, <1>2 DEF Acknowledged, Healthy
<1>4. Keeps
  BY <1>0, <1>2, <1>3
     DEF Keeps, Unpublished, Twice, AtLeastTwo, Scheduled, Kept
<1>5. RowsInv'
  BY <1>0, <1>2, <1>3
     DEF RowsInv, GoneInv, UnpublishedInv, PublishedInv, PairInv, KeptInv, CreateOf
<1>6. Moved(p, "list", "upload", NoOp, NoNode, "none")
  BY ShapeNow, StartMoved DEF Upload, JobKinds, Labels
<1> QED BY <1>4, <1>5, <1>6, FreeStep

\* An accepted deletion is a durable operation for every replica.
LEMMA DeleteKeeps ==
  ASSUME TypeInv, PublicationInv, NEW p \in Procs, Delete(p)
  PROVE  PublicationInv'
<1>0. /\ file \in {"AVAILABLE", "DELETING"} /\ file' = "DELETING"
      /\ UNCHANGED <<staging, object>>
      /\ \A n \in Nodes : replica'[n] # "HEALTHY"
      /\ \A o \in Ops : op'[o] = op[o] \/ (op'[o] = "PENDING" /\ o[1] = "DELETE")
  <2>1. op' = [o \in Ops |-> IF o \in {"DELETE"} \X Rows THEN "PENDING" ELSE op[o]]
    BY DEF Delete
  <2>2. replica' = [n \in Nodes |-> IF n \in Rows THEN "DELETE_PENDING" ELSE "NONE"]
    BY DEF Delete
  <2>3. \A o \in Ops : op'[o] = op[o] \/ (op'[o] = "PENDING" /\ o[1] = "DELETE")
    BY <2>1
  <2> QED BY <2>2, <2>3 DEF Delete, cluster
<1>1. \A n \in Nodes : <<"CREATE", n>> \in Ops /\ <<"DELETE", n>> \in Ops
  BY DEF Ops, Kinds
<1>2. /\ \A n \in Nodes : op'[<<"CREATE", n>>] = op[<<"CREATE", n>>]
      /\ \A n \in Nodes : Scheduled(n) => Scheduled(n)'
      /\ \A n \in Nodes : Kept(n) => Kept(n)'
  BY <1>0, <1>1 DEF Scheduled, Kept
<1>3. Acknowledged' = Acknowledged /\ Healthy' = {}
  BY <1>0, <1>2 DEF Acknowledged, Healthy
<1>4. Twice /\ Twice'
  BY <1>0, <1>3 DEF PublicationInv, RowsInv, PublishedInv, Twice, AtLeastTwo
<1>5. Keeps
  BY <1>0, <1>2, <1>4 DEF Keeps, Unpublished
<1>6. RowsInv'
  <2>1. GoneInv' /\ UnpublishedInv' /\ PublishedInv'
    BY <1>0, <1>4 DEF GoneInv, UnpublishedInv, PublishedInv, Unpublished
  <2>2. PairInv'
    BY <1>2 DEF PublicationInv, RowsInv, PairInv, CreateOf
  <2>3. KeptInv'
    BY <1>2, <1>3 DEF PublicationInv, RowsInv, KeptInv
  <2> QED BY <2>1, <2>2, <2>3 DEF RowsInv
<1>7. Moved(p, "list", "delete", NoOp, NoNode, "none")
  BY ShapeNow, StartMoved DEF Delete, JobKinds, Labels
<1> QED BY <1>5, <1>6, <1>7, FreeStep

\* A claim takes no acknowledgement back.
LEMMA ClaimKeeps ==
  ASSUME TypeInv, PublicationInv, NEW p \in Procs, NEW o \in Ops, Claim(p, o)
  PROVE  PublicationInv'
<1>0. /\ UNCHANGED <<file, staging, replica, object>>
      /\ op[o] \in {"PENDING", "FAILED"} /\ op \in [Ops -> OpStatus]
      /\ op' = [op EXCEPT ![o] = "RUNNING"]
  BY ShapeNow DEF Claim, Claimable, cluster, TypeOK
<1>1. \A n \in Nodes : <<"CREATE", n>> \in Ops /\ <<"DELETE", n>> \in Ops
  BY DEF Ops, Kinds
<1>2. /\ \A n \in Nodes : Scheduled(n)' <=> Scheduled(n)
      /\ \A n \in Nodes : Kept(n)' <=> Kept(n)
      /\ Acknowledged' = Acknowledged /\ Healthy' = Healthy
      /\ Unpublished' = Unpublished /\ RowExists' = RowExists
  BY <1>0, <1>1 DEF Scheduled, Kept, Acknowledged, Healthy, Unpublished, RowExists
<1>3. Twice' = Twice
  BY <1>2 DEF Twice, AtLeastTwo
<1>4. Keeps
  BY <1>0, <1>2, <1>3 DEF Keeps
<1>5. RowsInv'
  <2>1. GoneInv' /\ PublishedInv' /\ KeptInv'
    BY <1>0, <1>2, <1>3 DEF PublicationInv, RowsInv, GoneInv, PublishedInv, KeptInv
  <2>2. UnpublishedInv'
    BY <1>0, <1>1, <1>2
       DEF PublicationInv, RowsInv, UnpublishedInv, Healthy, CreateOf
  <2>3. PairInv'
    BY <1>0, <1>1 DEF PublicationInv, RowsInv, PairInv, CreateOf
  <2> QED BY <2>1, <2>2, <2>3 DEF RowsInv
<1>6. PICK n, g : n = proc[p].src /\ g = proc[p].got
  OBVIOUS
<1>7. Unpublished => o \notin OpsOf("DELETE") \union OpsOf("REPAIR")
  BY <1>0 DEF PublicationInv, RowsInv, UnpublishedInv, OpsOf
<1>8. o \in OpsOf("DELETE") => Scheduled(o[2])'
  BY <1>0 DEF Scheduled, OpsOf
<1>9. Relies("begin", o, n, g)'
  BY <1>2, <1>7, <1>8 DEF Relies, PublishedLabels
<1>10. Moved(p, "begin", proc[p].job, o, n, g)
  BY <1>6, ShapeNow, ClaimMoved
<1> QED BY <1>4, <1>5, <1>9, <1>10, JobStep

\* An operation that succeeds has stored its replica, or erases it by right.
LEMMA CommitKeeps ==
  ASSUME TypeInv, PublicationInv, NEW p \in Procs, Commit(p)
  PROVE  PublicationInv'
<1>1. PICK o \in Ops : o = proc[p].cur /\ Relies("commit", o, proc[p].src, proc[p].got)
  BY ShapeNow DEF Commit, At, ShapeOf, OpLabels, PublicationInv, JobInv
<1>2. /\ UNCHANGED <<file, staging, object>>
      /\ op[o] # "NONE" /\ op' = [op EXCEPT ![o] = "DONE"] /\ op \in [Ops -> OpStatus]
      /\ replica' = IF o \in OpsOf("DELETE") THEN replica
                    ELSE [replica EXCEPT ![o[2]] = "HEALTHY"]
      /\ replica \in [Nodes -> ReplicaStatus]
  BY <1>1, ShapeNow DEF Commit, cluster, TypeOK
<1>3. file # "GONE" /\ Kept(o[2])
  BY <1>1, <1>2 DEF PublicationInv, RowsInv, GoneInv, Relies
<1>4. /\ \A n \in Nodes : <<"CREATE", n>> \in Ops /\ <<"DELETE", n>> \in Ops
      /\ o = <<o[1], o[2]>> /\ o[2] \in Nodes
  BY DEF Ops, Kinds
<1>5. /\ \A m \in Nodes : Scheduled(m)' <=> Scheduled(m)
      /\ \A m \in Nodes : Kept(m)' <=> Kept(m)
      /\ Acknowledged \subseteq Acknowledged'
      /\ Acknowledged' \subseteq Acknowledged \union {o[2]}
      /\ Healthy' \subseteq Healthy \union {o[2]}
      /\ Unpublished' = Unpublished /\ RowExists' = RowExists
  BY <1>2, <1>4 DEF Scheduled, Kept, Acknowledged, Healthy, Unpublished, RowExists
<1>6. Twice => Twice'
  BY <1>5 DEF Twice, AtLeastTwo
<1>7. Keeps
  BY <1>2, <1>5, <1>6 DEF Keeps
<1>8. RowsInv'
  <2>1. GoneInv' /\ PublishedInv' /\ KeptInv'
    BY <1>2, <1>3, <1>5, <1>6 DEF PublicationInv, RowsInv, GoneInv, PublishedInv, KeptInv
  <2>2. UnpublishedInv'
    <3> SUFFICES ASSUME Unpublished PROVE UnpublishedInv'
      BY <1>5 DEF UnpublishedInv
    <3>1. o \in OpsOf("CREATE") /\ o = <<"CREATE", o[2]>>
      BY <1>1, <1>4 DEF Relies, Ops, Kinds, OpsOf
    <3>2. \A q \in Ops \ OpsOf("CREATE") : op'[q] = "NONE"
      BY <1>2, <3>1 DEF PublicationInv, RowsInv, UnpublishedInv
    <3>3. \A m \in Healthy' : op'[<<"CREATE", m>>] = "DONE"
      BY <1>2, <1>4, <1>5, <3>1
         DEF PublicationInv, RowsInv, UnpublishedInv, CreateOf, Healthy
    <3> QED BY <3>2, <3>3 DEF UnpublishedInv, CreateOf
  <2>3. \A m \in Nodes : CreateOf(m) = "NONE" => CreateOf(m)' = "NONE"
    BY <1>2, <1>4 DEF CreateOf
  <2>4. PairInv'
    BY <2>3 DEF PublicationInv, RowsInv, PairInv
  <2> QED BY <2>1, <2>2, <2>4 DEF RowsInv
<1>9. Moved(p, "loop", proc[p].job, NoOp, NoNode, "none")
  BY ShapeNow, NextOpMoved DEF Commit
<1> QED BY <1>7, <1>8, <1>9, FreeStep

\* A failure is never that of an operation that has succeeded.
LEMMA RejectKeeps ==
  ASSUME TypeInv, RunnerInv, PublicationInv, NEW p \in Procs, Reject(p)
  PROVE  PublicationInv'
<1>1. PICK o \in Ops : o = proc[p].cur /\ Relies("reject", o, proc[p].src, proc[p].got)
  BY ShapeNow DEF Reject, At, ShapeOf, OpLabels, PublicationInv, JobInv
<1>2. /\ UNCHANGED <<file, staging, object>>
      /\ op[o] # "NONE" /\ op' = [op EXCEPT ![o] = "FAILED"] /\ op \in [Ops -> OpStatus]
      /\ \A m \in Nodes : replica'[m] \in {replica[m], "UNAVAILABLE"}
  BY <1>1, ShapeNow DEF Reject, cluster, TypeOK
<1>3. file # "GONE" /\ (o \in OpsOf("CREATE") => op[o] = "RUNNING")
  BY <1>1, <1>2 DEF PublicationInv, RowsInv, GoneInv, RunnerInv, CreateInv
<1>4. \A m \in Nodes : /\ <<"CREATE", m>> \in Ops /\ <<"DELETE", m>> \in Ops
                       /\ <<"CREATE", m>> \in OpsOf("CREATE")
  BY DEF Ops, Kinds, OpsOf
<1>5. /\ \A m \in Nodes : Scheduled(m)' <=> Scheduled(m)
      /\ \A m \in Nodes : Kept(m)' <=> Kept(m)
      /\ Acknowledged' = Acknowledged /\ Healthy' \subseteq Healthy
      /\ Unpublished' = Unpublished /\ RowExists' = RowExists
  BY <1>2, <1>3, <1>4 DEF Scheduled, Kept, Acknowledged, Healthy, Unpublished, RowExists
<1>6. Twice' = Twice
  BY <1>5 DEF Twice, AtLeastTwo
<1>7. Keeps
  BY <1>2, <1>5, <1>6 DEF Keeps
<1>8. RowsInv'
  <2>1. GoneInv' /\ PublishedInv' /\ KeptInv'
    BY <1>2, <1>3, <1>5, <1>6 DEF PublicationInv, RowsInv, GoneInv, PublishedInv, KeptInv
  <2>2. UnpublishedInv'
    <3> SUFFICES ASSUME Unpublished PROVE UnpublishedInv'
      BY <1>5 DEF UnpublishedInv
    <3>1. o \in OpsOf("CREATE")
      BY <1>1 DEF Relies, Ops, Kinds, OpsOf
    <3>2. \A q \in Ops \ OpsOf("CREATE") : op'[q] = "NONE"
      BY <1>2, <3>1 DEF PublicationInv, RowsInv, UnpublishedInv
    <3>3. \A m \in Healthy' : op'[<<"CREATE", m>>] = "DONE"
      BY <1>5 DEF PublicationInv, RowsInv, UnpublishedInv, CreateOf, Healthy, Acknowledged
    <3> QED BY <3>2, <3>3 DEF UnpublishedInv, CreateOf
  <2>3. PairInv'
    BY <1>2, <1>4 DEF PublicationInv, RowsInv, PairInv, CreateOf
  <2> QED BY <2>1, <2>2, <2>3 DEF RowsInv
<1>9. Moved(p, "loop", proc[p].job, NoOp, NoNode, "none")
  BY ShapeNow, NextOpMoved DEF Reject
<1> QED BY <1>7, <1>8, <1>9, FreeStep

\* With the file its replicas and operations go.
LEMMA DropKeeps ==
  ASSUME TypeInv, PublicationInv, NEW p \in Procs, Drop(p)
  PROVE  PublicationInv'
<1>1. /\ file' = "GONE"
      /\ \A n \in Nodes : replica'[n] = "NONE"
      /\ \A o \in Ops : op'[o] = "NONE"
      /\ \A n \in Nodes : op'[<<"CREATE", n>>] = "NONE"
  BY DEF Drop, Ops, Kinds
<1>2. Keeps
  BY <1>1 DEF Keeps, Unpublished
<1>3. RowsInv'
  BY <1>1 DEF RowsInv, GoneInv, UnpublishedInv, PublishedInv, PairInv, KeptInv, Unpublished,
     RowExists, Acknowledged, Healthy, CreateOf
<1>4. Moved(p, "idle", "none", NoOp, NoNode, "none")
  BY ShapeNow, FinishMoved DEF Drop
<1> QED BY <1>2, <1>3, <1>4, FreeStep

\* Publishing, and dropping the session and the coordinator's copy after it.
LEMMA PublishKeeps ==
  ASSUME TypeInv, PublicationInv, NEW p \in Procs, Publish(p) \/ Unsession(p) \/ Unstage(p)
  PROVE  PublicationInv'
<1>1. /\ UNCHANGED <<replica, op, object>> /\ file' \in {file, "AVAILABLE"}
      /\ file' = "GONE" <=> file = "GONE"
      /\ proc[p].pc \in {"publish", "unsession", "unstage"}
      /\ Relies(proc[p].pc, proc[p].cur, proc[p].src, proc[p].got)
      /\ proc[p].cur = NoOp
  BY FreeLabel DEF Publish, Unsession, Unstage, cluster, At, RowExists, PublicationInv, JobInv,
     OpLabels, ReadLabels
<1>2. file # "GONE" => Twice /\ Twice'
  BY <1>1 DEF Relies, Twice, AtLeastTwo, Acknowledged
<1>3. Keeps
  BY <1>1, <1>2 DEF Keeps, Unpublished, Scheduled, Kept
<1>4. RowsInv'
  BY <1>1, <1>2
     DEF PublicationInv, RowsInv, GoneInv, UnpublishedInv, PublishedInv, PairInv, KeptInv,
         Unpublished, RowExists, Acknowledged, Healthy, CreateOf, Scheduled, Kept
<1>5. ASSUME NEW l \in {"unsession", "unstage"}, NEW n, NEW g PROVE Relies(l, NoOp, n, g)'
  BY <1>1, <1>2, NoOpOf DEF Relies, PublishedLabels
<1>6. ASSUME NEW l \in {"unsession", "unstage"}, Goto(p, l) PROVE PublicationInv'
  <2>1. PICK n, g : n = proc[p].src /\ g = proc[p].got
    OBVIOUS
  <2>2. Moved(p, l, proc[p].job, NoOp, n, g)
    BY <1>1, <1>6, <2>1, ShapeNow, GotoMoved DEF Labels
  <2> QED BY <1>3, <1>4, <1>5, <2>2, JobStep
<1>7. CASE Finish(p)
  <2>1. Moved(p, "idle", "none", NoOp, NoNode, "none")
    BY <1>7, ShapeNow, FinishMoved
  <2> QED BY <1>3, <1>4, <2>1, FreeStep
<1> QED BY <1>6, <1>7 DEF Publish, Unsession, Unstage

\* A startup takes no acknowledgement back.
LEMMA BootKeeps ==
  ASSUME TypeInv, PublicationInv, NEW p \in Procs, Boot(p)
  PROVE  PublicationInv'
<1>1. /\ UNCHANGED <<file, staging, replica, object>>
      /\ \A o \in Ops : /\ (op'[o] = "NONE") <=> (op[o] = "NONE")
                        /\ (op'[o] = "DONE") <=> (op[o] = "DONE")
      /\ \A n \in Nodes : <<"CREATE", n>> \in Ops /\ <<"DELETE", n>> \in Ops
  <2>1. op' = [o \in Ops |-> Recovered(o)] /\ UNCHANGED <<file, staging, replica, object>>
    BY DEF Boot, cluster
  <2>2. ASSUME NEW o \in Ops
        PROVE  /\ (op'[o] = "NONE") <=> (op[o] = "NONE")
               /\ (op'[o] = "DONE") <=> (op[o] = "DONE")
    BY <2>1 DEF Recovered
  <2>3. \A n \in Nodes : <<"CREATE", n>> \in Ops /\ <<"DELETE", n>> \in Ops
    BY DEF Ops, Kinds
  <2> QED BY <2>1, <2>2, <2>3
<1>2. /\ \A n \in Nodes : Scheduled(n)' <=> Scheduled(n)
      /\ \A n \in Nodes : Kept(n)' <=> Kept(n)
      /\ Acknowledged' = Acknowledged /\ Healthy' = Healthy
      /\ Unpublished' = Unpublished /\ RowExists' = RowExists
  BY <1>1 DEF Scheduled, Kept, Acknowledged, Healthy, Unpublished, RowExists
<1>3. Twice' = Twice
  BY <1>2 DEF Twice, AtLeastTwo
<1>4. Keeps
  BY <1>1, <1>2, <1>3 DEF Keeps
<1>5. RowsInv'
  <2>1. GoneInv' /\ PublishedInv' /\ KeptInv'
    BY <1>1, <1>2, <1>3 DEF PublicationInv, RowsInv, GoneInv, PublishedInv, KeptInv
  <2>2. UnpublishedInv'
    BY <1>1, <1>2 DEF PublicationInv, RowsInv, UnpublishedInv, Healthy, CreateOf
  <2>3. PairInv'
    BY <1>1 DEF PublicationInv, RowsInv, PairInv, CreateOf
  <2> QED BY <2>1, <2>2, <2>3 DEF RowsInv
<1>6. Moved(p, "loop", proc[p].job, NoOp, proc[p].src, proc[p].got)
  BY ShapeNow, BootMoved, FreeLabel DEF Boot, At, OpLabels, ReadLabels
<1> QED BY <1>4, <1>5, <1>6, FreeStep

-----------------------------------------------------------------------------
(* The environment, and the theorems.                                      *)

\* A crash leaves jobs that rely on nothing.
LEMMA CrashKeeps ==
  ASSUME PublicationInv, NEW p \in Procs, Crash(p)
  PROVE  PublicationInv'
<1> DEFINE s == [Idle EXCEPT !.pc = "boot", !.job = "boot"]
<1>1. s.pc = "boot" /\ s.cur = NoOp
  BY DEF Idle
<1>2. /\ proc' = [[q \in Procs |-> Idle] EXCEPT ![p] = s]
      /\ UNCHANGED <<file, staging, replica, op, object>>
  BY DEF Crash, database
<1> HIDE DEF s
<1>3. \A q \in Procs : proc'[q].pc \in {"boot", "idle"} /\ proc'[q].cur = NoOp
  BY <1>1, <1>2, IdleType
<1>4. ASSUME NEW l \in {"boot", "idle"}, NEW n, NEW g PROVE Relies(l, NoOp, n, g)'
  BY FreeRelies DEF PublishedLabels
<1>5. JobInv'
  <2> SUFFICES ASSUME NEW q \in Procs
               PROVE  Relies(proc[q].pc, proc[q].cur, proc[q].src, proc[q].got)'
    BY DEF JobInv
  <2>1. PICK l, n, g : l = proc'[q].pc /\ n = proc'[q].src /\ g = proc'[q].got
    OBVIOUS
  <2>2. Relies(l, NoOp, n, g)'
    BY <1>3, <1>4, <2>1
  <2> QED BY <1>3, <2>1, <2>2
<1>6. RowsInv'
  BY <1>2, QuietRows
<1> QED BY <1>5, <1>6 DEF PublicationInv

\* A step that moves no job keeps what the jobs rely on.
LEMMA StillKeeps ==
  ASSUME TypeInv, PublicationInv, RowsInv', Keeps, UNCHANGED proc
  PROVE  PublicationInv'
<1> SUFFICES ASSUME NEW q \in Procs
             PROVE  Relies(proc[q].pc, proc[q].cur, proc[q].src, proc[q].got)'
  BY DEF PublicationInv, JobInv
<1>1. PICK l, o, n, g : l = proc[q].pc /\ o = proc[q].cur /\ n = proc[q].src /\ g = proc[q].got
  OBVIOUS
<1>2. o \in Ops \union {NoOp} /\ Relies(l, o, n, g)
  BY <1>1, ShapeNow, Fields DEF PublicationInv, JobInv
<1>3. Relies(l, o, n, g)'
  BY <1>2, OthersRely
<1> QED BY <1>1, <1>3

\* Damage, late requests and outages take no object away.
LEMMA EnvironmentKeeps ==
  ASSUME TypeInv, PublicationInv,
         \/ \E n \in Nodes : NodeDown(n) \/ NodeUp(n) \/ Damage(n)
         \/ \E o \in Ops : LatePut(o)
  PROVE  PublicationInv'
<1>1. CASE \E n \in Nodes : NodeDown(n) \/ NodeUp(n)
  BY <1>1, QuietRows, StillKeeps DEF NodeDown, NodeUp, database
<1>2. ASSUME NEW n \in Nodes, Damage(n) PROVE PublicationInv'
  <2>1. \A m \in Nodes : Kept(m) => Kept(m)'
    BY <1>2, ShapeNow DEF Damage, Kept, Scheduled, database, TypeInv, TypeOK
  <2> QED BY <1>2, <2>1, ObjectRows, StillKeeps DEF Damage, database
<1>3. ASSUME NEW o \in Ops, LatePut(o) PROVE PublicationInv'
  <2>1. \A m \in Nodes : Kept(m) => Kept(m)'
    BY <1>3, StoredKept DEF LatePut, Kept, Scheduled, database
  <2> QED BY <1>3, <2>1, ObjectRows, StillKeeps DEF LatePut, database
<1> QED BY <1>1, <1>2, <1>3

\* Every step of a job keeps the invariant.
LEMMA JobKeeps ==
  ASSUME TypeInv, RunnerInv, PublicationInv, NEW p \in Procs, Request(p) \/ Advance(p)
  PROVE  PublicationInv'
<1>1. CASE Request(p)
  BY <1>1, UploadKeeps, DeleteKeeps, RequestQuiet DEF Request
<1>2. CASE Operate(p)
  BY <1>2, ClaimKeeps, OperateQuiet, PutKeeps, EraseKeeps, CommitKeeps, RejectKeeps DEF Operate
<1>3. CASE Reconcile(p)
  BY <1>3, ReconcileQuiet, DropKeeps, PublishKeeps, BootKeeps DEF Reconcile
<1>4. CASE Verify(p)
  BY <1>4, VerifyQuiet, VerdictKeeps DEF Verify
<1>5. CASE Schedule(p)
  BY <1>5, ScheduleQuiet, ScheduleKeeps DEF Schedule
<1> QED BY <1>1, <1>2, <1>3, <1>4, <1>5 DEF Advance

\* Initially there is nothing to keep.
LEMMA InitPublication == Init => PublicationInv
<1> SUFFICES ASSUME Init PROVE PublicationInv
  OBVIOUS
<1>1. /\ file = "NONE" /\ \A o \in Ops : op[o] = "NONE"
      /\ \A n \in Nodes : replica[n] = "NONE"
      /\ \A n \in Nodes : op[<<"CREATE", n>>] = "NONE"
  BY DEF Init, Ops, Kinds
<1>2. RowsInv
  BY <1>1 DEF RowsInv, GoneInv, UnpublishedInv, PublishedInv, PairInv, KeptInv, Unpublished,
     RowExists, Acknowledged, Healthy, CreateOf
<1>3. \A p \in Procs : proc[p].pc = "idle" /\ proc[p].cur = NoOp
  BY IdleType DEF Init
<1>4. JobInv
  BY <1>3, FreeRelies DEF JobInv, PublishedLabels
<1> QED BY <1>2, <1>4 DEF PublicationInv

\* Every step keeps the invariant.
LEMMA NextPublication ==
  TypeInv /\ RunnerInv /\ PublicationInv /\ [Next]_vars => PublicationInv'
<1> SUFFICES ASSUME TypeInv, RunnerInv, PublicationInv, [Next]_vars PROVE PublicationInv'
  OBVIOUS
<1>1. CASE UNCHANGED vars
  BY <1>1, QuietRows, StillKeeps DEF vars
<1> QED BY <1>1, JobKeeps, CrashKeeps, EnvironmentKeeps DEF Next, Environment

\* Once two nodes have acknowledged their copies no CREATE operation is left.
LEMMA TwiceAll ==
  ASSUME PublicationInv, Twice, NEW n \in Nodes
  PROVE  CreateOf(n) \in {"NONE", "DONE"}
<1>1. PICK a, b \in Nodes \union {NoNode} :
         \A m \in Nodes \ {a, b} : CreateOf(m) = "NONE"
  BY DEF PublicationInv, RowsInv, PairInv
<1>2. PICK c, d \in Acknowledged : c # d
  BY DEF Twice, AtLeastTwo
<1>3. /\ c \in Nodes /\ CreateOf(c) = "DONE"
      /\ d \in Nodes /\ CreateOf(d) = "DONE"
  BY DEF Acknowledged, CreateOf
<1>4. {a, b} = {c, d}
  BY <1>1, <1>2, <1>3
<1> QED BY <1>1, <1>3, <1>4

\* PublicationInv holds in every behaviour of the coordinator.
THEOREM PublicationInvariant == Spec => []PublicationInv
<1>1. Init => TypeInv /\ RunnerInv /\ PublicationInv
  BY InitType, InitRunner, InitPublication
<1>2. TypeInv /\ RunnerInv /\ PublicationInv /\ [Next]_vars
        => (TypeInv /\ RunnerInv /\ PublicationInv)'
  BY NextType, NextRunner, NextPublication
<1> QED BY <1>1, <1>2, PTL DEF Spec

\* PublishedMeansStored: reconcileFile makes a file AVAILABLE only once two
\* nodes have acknowledged their copy, and such a node keeps an object until
\* the deletion of that replica is a durable operation.
THEOREM PublicationCorrect == Spec => []PublishedMeansStored
<1>1. PublicationInv => PublishedMeansStored
  BY DEF PublicationInv, RowsInv, PublishedInv, KeptInv, Kept, Twice, Acknowledged,
     PublishedMeansStored
<1> QED BY <1>1, PublicationInvariant, PTL

\* HealthyIsBacked: no PUT, delayed PUT, repair, deletion or stale verification
\* leaves a replica HEALTHY whose node holds no object.
THEOREM BackedCorrect == Spec => []HealthyIsBacked
<1>1. PublicationInv => HealthyIsBacked
  BY DEF PublicationInv, RowsInv, KeptInv, Kept, HealthyIsBacked, Healthy
<1> QED BY <1>1, PublicationInvariant, PTL

\* StagingOutlivesCreates: the coordinator drops its copy of the bytes
\* (staging.delete) only when no CREATE operation can need it again.
THEOREM StagingCorrect == Spec => []StagingOutlivesCreates
<1>1. PublicationInv => StagingOutlivesCreates
  BY TwiceAll
     DEF StagingOutlivesCreates, CreateOf, PublicationInv, RowsInv, PublishedInv
<1> QED BY <1>1, PublicationInvariant, PTL

-----------------------------------------------------------------------------
(***************************************************************************)
(* Replication implements FileLifecycle, without completion retries: step  *)
(* by step, under the refinement mapping of Replication. The invariant     *)
(* DutyInv says which job may still decide the fate of the file: an upload *)
(* that has not published yet finds it PENDING, since nobody else could    *)
(* publish it and only a published file can be deleted.                    *)
(***************************************************************************)

Last == {"unsession", "unstage"}
Starting == {"boot", "recover"}

\* What the label l and the kind j of a job say of the file.
Duty(l, j) ==
    /\ j # "retry" /\ (l = "idle" => j = "none")
    /\ j = "delete" => file \in {"DELETING", "GONE"}
    /\ j = "upload" => file # "NONE" /\ (l \notin Last => file = "PENDING")
    /\ j = "recover" /\ l \notin Last => file \in {"PENDING", "DELETING"}
    /\ l = "inspect" => j \in {"upload", "delete", "recover"}
    /\ l = "publish" => j \in {"upload", "recover"} /\ file = "PENDING"
    /\ l = "drop" => file \in {"DELETING", "GONE"}

DutyInv == \A p \in Procs : Duty(proc[p].pc, proc[p].job)

\* The file is uploaded once, and beside a startup nothing runs.
OneUpload == \A p, q \in Procs : p # q /\ proc[p].job = "upload" => proc[q].job # "upload"
LoneInv == \A p, q \in Procs : p # q /\ proc[p].job \in Starting => proc[q].pc = "idle"

LifecycleInv == DutyInv /\ OneUpload /\ LoneInv

-----------------------------------------------------------------------------
(* What the steps do to it.                                                *)

\* A step of p under which the file stays, or nobody else minds.
LEMMA DutyStep ==
  ASSUME TypeInv, LifecycleInv, NEW p \in Procs, NEW l, NEW j, NEW o, NEW n, NEW g,
         Moved(p, l, j, o, n, g), Duty(l, j)',
         proc[p].pc = "idle" => ~Booting,
         \A q \in Procs \ {p}, m \in Labels, k \in JobKinds \union {"none", "boot", "recover"} :
            m = proc[q].pc /\ k = proc[q].job => Duty(m, k)',
         j = "upload" => proc[p].job = "upload" \/ \A q \in Procs : proc[q].job # "upload",
         j \in Starting => proc[p].job \in Starting
  PROVE  LifecycleInv'
<1>1. /\ proc'[p].pc = l /\ proc'[p].job = j
      /\ \A q \in Procs \ {p} : proc'[q] = proc[q]
  BY DEF Moved
<1>2. DutyInv'
  <2>1. ASSUME NEW q \in Procs \ {p} PROVE Duty(proc[q].pc, proc[q].job)'
    BY <1>1, <2>1, ShapeNow, Fields
  <2> QED BY <1>1, <2>1 DEF DutyInv
<1>3. OneUpload'
  BY <1>1 DEF LifecycleInv, OneUpload
<1>4. \A q \in Procs : q # p => proc[q].job \notin Starting
  BY DEF LifecycleInv, LoneInv, Booting, Starting
<1>5. LoneInv'
  BY <1>1, <1>4 DEF LifecycleInv, LoneInv
<1> QED BY <1>2, <1>3, <1>5 DEF LifecycleInv

\* A job goes on, to a label at which nothing is decided.
Onward(p) == \E l \in Labels \ {"idle", "inspect", "publish", "drop"} : \E o, n, g :
                Moved(p, l, proc[p].job, o, n, g)
Over(p) == Moved(p, "idle", "none", NoOp, NoNode, "none")

\* Such a step keeps the invariant.
LEMMA DutyKept ==
  ASSUME TypeInv, LifecycleInv, UNCHANGED file, NEW p \in Procs, proc[p].pc # "idle",
         Over(p) \/ (Onward(p) /\ proc[p].pc \notin Last)
  PROVE  LifecycleInv'
<1>1. /\ \A q \in Procs : Duty(proc[q].pc, proc[q].job)
      /\ \A l, j : Duty(l, j) => Duty(l, j)'
  BY DEF LifecycleInv, DutyInv, Duty
<1>2. \A q \in Procs \ {p}, m \in Labels, k \in JobKinds \union {"none", "boot", "recover"} :
         m = proc[q].pc /\ k = proc[q].job => Duty(m, k)'
  BY <1>1
<1>3. CASE Over(p)
  <2>1. Duty("idle", "none")'
    BY DEF Duty, Last
  <2> QED BY <1>2, <1>3, <2>1, DutyStep DEF Over, Starting
<1>4. CASE Onward(p) /\ proc[p].pc \notin Last
  <2>0. PICK l \in Labels \ {"idle", "inspect", "publish", "drop"} :
           \E o, n, g : Moved(p, l, proc[p].job, o, n, g)
    BY <1>4 DEF Onward
  <2>1. PICK o, n, g : Moved(p, l, proc[p].job, o, n, g)
    BY <2>0
  <2>2. PICK j : j = proc[p].job
    OBVIOUS
  <2>3. Duty(l, j)'
    BY <1>1, <1>4, <2>2 DEF Duty
  <2> QED BY <1>2, <2>1, <2>2, <2>3, DutyStep
<1> QED BY <1>3, <1>4

\* Moving on to another label.
LEMMA GotoOnward ==
  ASSUME TypeInv, NEW p \in Procs, NEW l \in Labels \ {"idle", "inspect", "publish", "drop"},
         Goto(p, l)
  PROVE  Onward(p)
  BY ShapeNow, GotoMoved DEF Onward

\* Ending a job.
LEMMA FinishOver == ASSUME TypeInv, NEW p \in Procs, Finish(p) PROVE Over(p)
  BY ShapeNow, FinishMoved DEF Over

\* The steps of Operate decide nothing.
LEMMA OperateOnward ==
  ASSUME TypeInv, NEW p \in Procs, Operate(p), ~AllRun(p)
  PROVE  Onward(p) /\ UNCHANGED file /\ proc[p].pc \notin Last \union {"idle"}
<1> USE ShapeNow DEF At, Last
<1>0. {"put", "reject", "erase", "source", "commit", "confirm", "begin", "loop", "head"}
         \subseteq Labels \ {"idle", "inspect", "publish", "drop"}
  BY DEF Labels
<1>1. ASSUME NEW o \in Ops, Claim(p, o) \/ NotClaimed(p, o)
      PROVE  Onward(p) /\ UNCHANGED file /\ proc[p].pc = "loop"
  BY <1>0, <1>1, ClaimMoved, NotClaimedMoved DEF Claim, NotClaimed, Onward, database
<1>2. ASSUME NEW n \in Nodes, Source(p, n)
      PROVE  Onward(p) /\ UNCHANGED file /\ proc[p].pc = "source"
  BY <1>0, <1>2, SourceMoved DEF Source, Onward, database
<1>3. CASE BeginCreate(p) \/ BeginDelete(p) \/ BeginRepair(p)
  BY <1>0, <1>3, GotoOnward DEF BeginCreate, BeginDelete, BeginRepair, database
<1>4. CASE NoSource(p) \/ PutConflict(p) \/ ConfirmFails(p) \/ Confirm(p)
  BY <1>0, <1>4, GotoOnward DEF NoSource, PutConflict, ConfirmFails, Confirm, database
<1>5. CASE Put(p) \/ PutFails(p)
  BY <1>0, <1>5, GotoOnward DEF Put, PutFails, database
<1>6. CASE Erase(p) \/ EraseFails(p)
  BY <1>0, <1>6, GotoOnward DEF Erase, EraseFails, database
<1>7. CASE Commit(p) \/ Reject(p)
  BY <1>0, <1>7, NextOpMoved DEF Commit, Reject, Onward
<1> QED BY <1>1, <1>2, <1>3, <1>4, <1>5, <1>6, <1>7 DEF Operate

\* Nor do those of Verify.
LEMMA VerifyOnward ==
  ASSUME TypeInv, NEW p \in Procs, Verify(p)
  PROVE  (Onward(p) \/ Over(p)) /\ UNCHANGED file /\ proc[p].pc \notin Last \union {"idle"}
<1>0. {"put", "reject", "get", "verdict", "next", "lookup"}
         \subseteq Labels \ {"idle", "inspect", "publish", "drop"}
  BY DEF Labels
<1>1. CASE Head(p)
  BY <1>0, <1>1, ShapeNow, HeadMoved DEF Head, Onward, database, At, Last
<1>2. CASE Get(p)
  BY <1>0, <1>2, ShapeNow, GetMoved DEF Get, Onward, database, At, Last
<1>3. CASE ReadFails(p)
  BY <1>0, <1>3, ShapeNow, ReadFailsMoved DEF ReadFails, Onward, database, At, Last
<1>4. CASE VerdictRepair(p)
  BY <1>0, <1>4, ShapeNow, VerdictRepairMoved DEF VerdictRepair, RecordVerdict, Onward, At, Last
<1>5. CASE VerdictScrub(p)
  BY <1>0, <1>5, ShapeNow, VerdictScrubMoved DEF VerdictScrub, RecordVerdict, Onward, At, Last
<1>6. CASE VerdictDownload(p)
  BY <1>0, <1>6, ShapeNow, VerdictDownloadMoved
     DEF VerdictDownload, RecordVerdict, Onward, Over, At, Last
<1> QED BY <1>1, <1>2, <1>3, <1>4, <1>5, <1>6 DEF Verify

\* The steps of Schedule decide nothing.
LEMMA ScheduleOnward ==
  ASSUME TypeInv, NEW p \in Procs, Schedule(p)
  PROVE  (Onward(p) \/ Over(p)) /\ UNCHANGED file /\ proc[p].pc \notin Last \union {"idle"}
<1>0. {"lookup", "head", "verdict", "next", "enqueue", "mark", "replace", "insert", "queue", "loop"}
         \subseteq Labels \ {"idle", "inspect", "publish", "drop"}
  BY DEF Labels
<1>1. ASSUME NEW n \in Nodes, Visit(p, n)
      PROVE  Onward(p) /\ UNCHANGED file /\ proc[p].pc = "next"
  <2>1. PICK l \in {"lookup", "head", "verdict"}, g \in {proc[p].got, "UNAVAILABLE"} :
           Moved(p, l, proc[p].job, proc[p].cur, n, g)
    BY <1>1, ShapeNow, VisitMoved
  <2> QED BY <1>0, <1>1, <2>1 DEF Visit, Onward, database, At
<1>2. CASE Visited(p)
  BY <1>0, <1>2, GotoOnward, FinishOver DEF Visited, database, At, Last
<1>3. CASE Lookup(p)
  BY <1>0, <1>3, ShapeNow, LookupMoved DEF Lookup, Onward, database, At, Last
<1>4. CASE Enqueue(p)
  BY <1>0, <1>4, ShapeNow, EnqueueMoved DEF Enqueue, Onward, At, Last
<1>5. CASE Mark(p)
  BY <1>0, <1>5, ShapeNow, MarkMoved DEF Mark, Onward, At, Last
<1>6. CASE Replace(p)
  BY <1>0, <1>6, ShapeNow, ReplaceMoved DEF Replace, Onward, database, At, Last
<1>7. CASE Insert(p)
  BY <1>0, <1>7, ShapeNow, InsertMoved DEF Insert, Onward, At, Last
<1>8. CASE Queue(p)
  BY <1>0, <1>8, ShapeNow, QueueMoved DEF Queue, Onward, database, At, Last
<1> QED BY <1>1, <1>2, <1>3, <1>4, <1>5, <1>6, <1>7, <1>8
   DEF Schedule, Last
-----------------------------------------------------------------------------
(* Steps that decide.                                                      *)

\* All operations were run.
LEMMA AllRunDuty ==
  ASSUME TypeInv, LifecycleInv, NEW p \in Procs, AllRun(p)
  PROVE  LifecycleInv'
<1>1. /\ proc[p].pc = "loop" /\ UNCHANGED file /\ Duty(proc[p].pc, proc[p].job)
      /\ \A q \in Procs : \A m, k : m = proc[q].pc /\ k = proc[q].job => Duty(m, k)'
  BY DEF AllRun, At, database, LifecycleInv, DutyInv, Duty
<1>2. CASE Finish(p)
  BY <1>1, <1>2, FinishOver, DutyKept
<1>3. CASE proc[p].job \in {"upload", "retry", "delete", "recover"} /\ Goto(p, "inspect")
  <2>1. Moved(p, "inspect", proc[p].job, proc[p].cur, proc[p].src, proc[p].got)
    BY <1>3, ShapeNow, GotoMoved DEF Labels
  <2>2. PICK j : j = proc[p].job
    OBVIOUS
  <2>3. Duty("inspect", j)'
    BY <1>1, <1>3, <2>2 DEF Duty, Last
  <2> QED BY <1>1, <2>1, <2>2, <2>3, DutyStep
<1>4. CASE /\ proc[p].job = "boot" /\ file \in {"PENDING", "DELETING"}
           /\ Start(p, "recover", "list")
  <2>1. Moved(p, "list", "recover", NoOp, NoNode, "none")
    BY <1>4, ShapeNow, StartMoved DEF Labels
  <2>2. Duty("list", "recover")'
    BY <1>1, <1>4 DEF Duty
  <2> QED BY <1>1, <1>4, <2>1, <2>2, DutyStep DEF Starting
<1> QED BY <1>2, <1>3, <1>4 DEF AllRun

\* What a job that is about to drop or publish knows, and what the others are not.
LEMMA Decider ==
  ASSUME TypeInv, LifecycleInv, NEW p \in Procs, proc[p].pc \in {"publish", "drop"}, RowExists
  PROVE  /\ proc[p].pc = "publish" =>
               file = "PENDING" /\ proc[p].job \in {"upload", "recover"}
         /\ proc[p].pc = "drop" => file = "DELETING"
         /\ \A q \in Procs \ {p} : \A m, k : m = proc[q].pc /\ k = proc[q].job =>
               /\ Duty(m, k)
               /\ k \in {"upload", "recover"} => m \in Last
<1>1. /\ \A q \in Procs : Duty(proc[q].pc, proc[q].job)
      /\ \A q \in Procs \ {p} : proc[q].job \notin Starting
      /\ \A q \in Procs \ {p} : proc[p].job \in Starting => proc[q].pc = "idle"
      /\ \A q \in Procs \ {p} : proc[p].job = "upload" => proc[q].job # "upload"
  BY DEF LifecycleInv, DutyInv, LoneInv, OneUpload
<1>2. /\ proc[p].pc = "publish" =>
            file = "PENDING" /\ proc[p].job \in {"upload", "recover"}
      /\ proc[p].pc = "drop" => file = "DELETING"
  BY <1>1 DEF Duty, RowExists
<1>3. ASSUME NEW q \in Procs \ {p}, proc[q].job \in {"upload", "recover"}
      PROVE  proc[q].pc \in Last
  <2>1. proc[q].job = "upload"
    BY <1>1, <1>3 DEF Starting
  <2>2. proc[p].job # "upload" /\ proc[q].pc # "idle" => proc[p].job \notin Starting
    BY <1>1
  <2>3. Duty(proc[q].pc, proc[q].job)
    BY <1>1
  <2> QED BY <1>1, <1>2, <2>1, <2>2, <2>3 DEF Duty, Starting
<1> QED BY <1>1, <1>2, <1>3

\* The steps of Reconcile.
LEMMA ReconcileDuty ==
  ASSUME TypeInv, LifecycleInv, NEW p \in Procs, Reconcile(p)
  PROVE  LifecycleInv'
<1>1. \A q \in Procs : Duty(proc[q].pc, proc[q].job)
  BY DEF LifecycleInv, DutyInv
<1>2. CASE List(p) \/ Boot(p)
  BY <1>2, ShapeNow, ListMoved, BootMoved, DutyKept
     DEF List, Boot, At, database, Onward, Labels, Last
<1>3. CASE Vanished(p) \/ Unstage(p)
  BY <1>3, FinishOver, DutyKept DEF Vanished, Unstage, At, database
<1>4. CASE Unsession(p)
  <2>1. Moved(p, "unstage", proc[p].job, proc[p].cur, proc[p].src, proc[p].got)
    BY <1>4, ShapeNow, GotoMoved DEF Unsession, Labels
  <2>2. PICK j : j = proc[p].job
    OBVIOUS
  <2>3. Duty("unstage", j)'
    BY <1>1, <1>4, <2>2 DEF Unsession, At, Duty, Last
  <2>4. \A q \in Procs : \A m, k : m = proc[q].pc /\ k = proc[q].job => Duty(m, k)'
    BY <1>1, <1>4 DEF Unsession, Duty
  <2> QED BY <1>4, <2>1, <2>2, <2>3, <2>4, DutyStep DEF Unsession, At
<1>5. CASE Inspect(p)
  <2>1. /\ proc[p].pc = "inspect" /\ UNCHANGED file
        /\ \A q \in Procs : \A m, k : m = proc[q].pc /\ k = proc[q].job => Duty(m, k)'
    BY <1>1, <1>5 DEF Inspect, At, database, Duty
  <2>2. CASE Finish(p)
    BY <2>1, <2>2, FinishOver, DutyKept
  <2>3. ASSUME NEW l \in {"drop", "publish"}, Goto(p, l),
               l = "drop" => file = "DELETING",
               l = "publish" => file \in {"PENDING", "AVAILABLE"}
        PROVE  LifecycleInv'
    <3>1. Moved(p, l, proc[p].job, proc[p].cur, proc[p].src, proc[p].got)
      BY <2>3, ShapeNow, GotoMoved DEF Labels
    <3>2. PICK j : j = proc[p].job
      OBVIOUS
    <3>3. Duty(l, j)'
      BY <1>1, <2>1, <2>3, <3>2 DEF Duty, Last
    <3> QED BY <2>1, <3>1, <3>2, <3>3, DutyStep
  <2> QED BY <1>5, <2>2, <2>3 DEF Inspect
<1>6. CASE Drop(p)
  <2>1. file = "DELETING" /\ file' = "GONE" /\ proc[p].pc = "drop"
    BY <1>6, Decider DEF Drop, At
  <2>2. \A q \in Procs \ {p} : \A m, k : m = proc[q].pc /\ k = proc[q].job => Duty(m, k)'
    BY <1>6, <2>1, Decider DEF Drop, At, Duty
  <2>3. Moved(p, "idle", "none", NoOp, NoNode, "none") /\ Duty("idle", "none")'
    BY <1>6, ShapeNow, FinishMoved DEF Drop, Duty, Last
  <2> QED BY <2>1, <2>2, <2>3, DutyStep DEF Starting
<1>7. CASE Publish(p)
  <2>1. /\ file = "PENDING" /\ file' = "AVAILABLE" /\ proc[p].pc = "publish"
        /\ proc[p].job \in {"upload", "recover"}
    BY <1>7, Decider DEF Publish, At
  <2>2. \A q \in Procs \ {p} : \A m, k : m = proc[q].pc /\ k = proc[q].job => Duty(m, k)'
    BY <1>7, <2>1, Decider DEF Publish, At, Duty, Last
  <2>3. Moved(p, "unsession", proc[p].job, proc[p].cur, proc[p].src, proc[p].got)
    BY <1>7, ShapeNow, GotoMoved DEF Publish, Labels
  <2>4. PICK j \in {"upload", "recover"} : j = proc[p].job
    BY <2>1
  <2>5. Duty("unsession", j)'
    BY <2>1 DEF Duty, Last
  <2> QED BY <2>1, <2>2, <2>3, <2>4, <2>5, DutyStep
<1> QED BY <1>2, <1>3, <1>4, <1>5, <1>6, <1>7 DEF Reconcile

\* Requests. A deletion is asked for once the file is published.
LEMMA RequestDuty ==
  ASSUME "retry" \notin Jobs, TypeInv, LifecycleInv, NEW p \in Procs, Request(p)
  PROVE  LifecycleInv'
<1>1. /\ \A q \in Procs : Duty(proc[q].pc, proc[q].job)
      /\ ~Booting /\ ~Retry(p)
      /\ \A q \in Procs : proc[q].job \notin Starting
  BY DEF LifecycleInv, DutyInv, Request, Upload, Retry, Delete, Download, Scrub, RepairPass,
     Ready, Booting, Starting
<1>2. CASE Upload(p)
  <2>1. file = "NONE" /\ file' = "PENDING"
    BY <1>2 DEF Upload
  <2>2. \A q \in Procs \ {p} : \A m, k : m = proc[q].pc /\ k = proc[q].job => Duty(m, k)'
    BY <1>1, <2>1 DEF Duty, Starting
  <2>3. \A q \in Procs : proc[q].job # "upload"
    BY <1>1, <2>1 DEF Duty
  <2>4. Moved(p, "list", "upload", NoOp, NoNode, "none")
    BY <1>2, ShapeNow, StartMoved DEF Upload, JobKinds, Labels
  <2>5. Duty("list", "upload")'
    BY <2>1 DEF Duty
  <2> QED BY <1>1, <2>2, <2>3, <2>4, <2>5, DutyStep DEF Starting
<1>3. CASE Delete(p)
  <2>1. file \in {"AVAILABLE", "DELETING"} /\ file' = "DELETING"
    BY <1>3 DEF Delete
  <2>2. \A q \in Procs \ {p} : \A m, k : m = proc[q].pc /\ k = proc[q].job => Duty(m, k)'
    BY <1>1, <2>1 DEF Duty, Starting
  <2>3. Moved(p, "list", "delete", NoOp, NoNode, "none")
    BY <1>3, ShapeNow, StartMoved DEF Delete, JobKinds, Labels
  <2>4. Duty("list", "delete")'
    BY <2>1 DEF Duty
  <2> QED BY <1>1, <2>2, <2>3, <2>4, DutyStep DEF Starting
<1>4. CASE Download(p) \/ Scrub(p) \/ \E aged \in SUBSET Nodes : RepairPass(p, aged)
  <2>1. UNCHANGED file
    BY <1>4 DEF Download, Scrub, RepairPass, database
  <2>2. \A q \in Procs : \A m, k : m = proc[q].pc /\ k = proc[q].job => Duty(m, k)'
    BY <1>1, <2>1 DEF Duty
  <2>3. PICK l \in {"next", "mark", "queue"}, j \in {"download", "scrub", "repair"} :
           Moved(p, l, j, NoOp, NoNode, "none")
    BY <1>4, ShapeNow, DownloadMoved, ScrubMoved, RepairPassMoved
  <2>4. Duty(l, j)'
    BY DEF Duty
  <2> QED BY <1>1, <2>2, <2>3, <2>4, DutyStep DEF Starting
<1> QED BY <1>1, <1>2, <1>3, <1>4 DEF Request
\* A crash leaves one startup.
LEMMA CrashDuty ==
  ASSUME NEW p \in Procs, Crash(p)
  PROVE  LifecycleInv'
<1> DEFINE s == [Idle EXCEPT !.pc = "boot", !.job = "boot"]
<1>1. s.pc = "boot" /\ s.job = "boot"
  BY DEF Idle
<1>2. proc' = [[q \in Procs |-> Idle] EXCEPT ![p] = s]
  BY DEF Crash
<1> HIDE DEF s
<1>3. /\ proc'[p].pc = "boot" /\ proc'[p].job = "boot"
      /\ \A q \in Procs \ {p} : proc'[q].pc = "idle" /\ proc'[q].job = "none"
  BY <1>1, <1>2, IdleType
<1>4. Duty("boot", "boot")' /\ Duty("idle", "none")'
  BY DEF Duty
<1>5. DutyInv'
  BY <1>3, <1>4 DEF DutyInv
<1>6. OneUpload' /\ LoneInv'
  BY <1>3 DEF OneUpload, LoneInv, Starting
<1> QED BY <1>5, <1>6 DEF LifecycleInv

\* Every step keeps the invariant.
LEMMA NextLifecycle ==
  ASSUME "retry" \notin Jobs
  PROVE  TypeInv /\ LifecycleInv /\ [Next]_vars => LifecycleInv'
<1> SUFFICES ASSUME TypeInv, LifecycleInv, [Next]_vars PROVE LifecycleInv'
  OBVIOUS
<1>1. CASE UNCHANGED <<file, proc>>
  BY <1>1 DEF LifecycleInv, DutyInv, Duty, OneUpload, LoneInv
<1>2. CASE \/ \E n \in Nodes : NodeDown(n) \/ NodeUp(n) \/ Damage(n)
           \/ \E o \in Ops : LatePut(o)
  BY <1>1, <1>2 DEF NodeDown, NodeUp, Damage, LatePut, database
<1>3. ASSUME NEW p \in Procs, Operate(p) PROVE LifecycleInv'
  BY <1>3, AllRunDuty, OperateOnward, DutyKept
<1>4. ASSUME NEW p \in Procs, Verify(p) \/ Schedule(p) PROVE LifecycleInv'
  BY <1>4, VerifyOnward, ScheduleOnward, DutyKept
<1>5. ASSUME NEW p \in Procs, Request(p) \/ Advance(p) PROVE LifecycleInv'
  BY <1>3, <1>4, <1>5, RequestDuty, ReconcileDuty DEF Advance
<1> QED BY <1>1, <1>2, <1>5, CrashDuty DEF Next, Environment, vars

-----------------------------------------------------------------------------
(* The refinement.                                                         *)

\* Steps that write neither the file nor a CREATE operation.
LEMMA Stutter ==
  ASSUME UNCHANGED file, \A n \in Nodes : op'[<<"CREATE", n>>] = op[<<"CREATE", n>>]
  PROVE  UNCHANGED Lifecycle!vars
  BY DEF Lifecycle!vars, Acknowledged

\* A success of a CREATE operation is the first of its node, and comes before
\* the file is published.
LEMMA CommitMaps ==
  ASSUME TypeInv, RunnerInv, PublicationInv, NEW p \in Procs, Commit(p)
  PROVE  [Lifecycle!Next]_Lifecycle!vars
<1>1. PICK o \in Ops : o = proc[p].cur
  BY ShapeNow DEF Commit, At, ShapeOf, OpLabels
<1>2. /\ UNCHANGED file /\ op[o] # "NONE" /\ op' = [op EXCEPT ![o] = "DONE"]
      /\ op \in [Ops -> OpStatus]
      /\ \A n \in Nodes : <<"CREATE", n>> \in Ops
  BY <1>1, ShapeNow DEF Commit, TypeOK, Ops, Kinds
<1>3. CASE o \notin OpsOf("CREATE")
  <2>1. \A n \in Nodes : o # <<"CREATE", n>>
    BY <1>3 DEF OpsOf
  <2> QED BY <1>2, <2>1, Stutter
<1>4. ASSUME NEW m \in Nodes, o = <<"CREATE", m>> PROVE [Lifecycle!Next]_Lifecycle!vars
  <2>0. o \in OpsOf("CREATE")
    BY <1>4 DEF OpsOf
  <2>1. op[o] = "RUNNING"
    BY <1>1, <1>2, <2>0 DEF RunnerInv, CreateInv
  <2>2. m \notin Acknowledged /\ Acknowledged' = Acknowledged \union {m}
    BY <1>2, <1>4, <2>1 DEF Acknowledged
  <2>3. file # "NONE" /\ file # "GONE"
    BY <1>2 DEF RunnerInv, Unborn, PublicationInv, RowsInv, GoneInv
  <2>4. ~Twice
    BY <1>4, <2>1, TwiceAll DEF CreateOf
  <2>5. file = "PENDING"
    BY <2>3, <2>4, ShapeNow DEF PublicationInv, RowsInv, PublishedInv, TypeInv, TypeOK, FileStatus
  <2>6. Lifecycle!Acknowledge(m)
    BY <1>2, <2>2, <2>5 DEF Lifecycle!Acknowledge
  <2> QED BY <2>6 DEF Lifecycle!Next
<1> QED BY <1>3, <1>4 DEF OpsOf

\* Operations.
LEMMA OperateMaps ==
  ASSUME TypeInv, RunnerInv, PublicationInv, NEW p \in Procs, Operate(p)
  PROVE  [Lifecycle!Next]_Lifecycle!vars
<1>1. ASSUME NEW o \in Ops, NEW s \in OpStatus \ {"DONE"}, UNCHANGED file,
             o \in OpsOf("CREATE") => op[o] # "DONE", op' = [op EXCEPT ![o] = s]
      PROVE  UNCHANGED Lifecycle!vars
  <2>1. /\ op \in [Ops -> OpStatus] /\ \A n \in Nodes : <<"CREATE", n>> \in Ops
        /\ \A n \in Nodes : <<"CREATE", n>> \in OpsOf("CREATE")
    BY ShapeNow DEF TypeInv, TypeOK, Ops, Kinds, OpsOf
  <2>2. Acknowledged' = Acknowledged
    BY <1>1, <2>1 DEF Acknowledged
  <2> QED BY <1>1, <2>2 DEF Lifecycle!vars
<1>2. ASSUME NEW o \in Ops, Claim(p, o) PROVE UNCHANGED Lifecycle!vars
  BY <1>1, <1>2 DEF Claim, Claimable, OpStatus
<1>3. CASE Reject(p)
  <2>1. PICK o \in Ops : o = proc[p].cur
    BY <1>3, ShapeNow DEF Reject, At, ShapeOf, OpLabels
  <2>2. o \in OpsOf("CREATE") => op[o] # "DONE"
    BY <2>1 DEF RunnerInv, CreateInv
  <2> QED BY <1>1, <1>3, <2>1, <2>2 DEF Reject, OpStatus
<1>4. CASE ~Commit(p) /\ ~Reject(p) /\ ~\E o \in Ops : Claim(p, o)
  <2>1. PlainRows
    BY <1>4, OperatePlain DEF RunnerInv
  <2>2. UNCHANGED file
    BY <1>4, OperateOnward DEF AllRun, database
  <2> QED BY <2>1, <2>2, Stutter DEF PlainRows
<1> QED BY <1>2, <1>3, <1>4, CommitMaps

\* Decisions.
LEMMA ReconcileMaps ==
  ASSUME TypeInv, RunnerInv, PublicationInv, LifecycleInv, NEW p \in Procs, Reconcile(p)
  PROVE  [Lifecycle!Next]_Lifecycle!vars
<1>1. CASE Drop(p)
  <2>1. file = "DELETING" /\ file' = "GONE"
    BY <1>1, Decider DEF Drop, At
  <2>2. Acknowledged' = {}
    BY <1>1 DEF Drop, Acknowledged, Ops, Kinds
  <2> QED BY <2>1, <2>2 DEF Lifecycle!Next, Lifecycle!Remove
<1>2. CASE Publish(p)
  <2>1. file = "PENDING" /\ file' = "AVAILABLE"
    BY <1>2, Decider DEF Publish, At
  <2>2. Relies("publish", proc[p].cur, proc[p].src, proc[p].got)
    BY <1>2 DEF Publish, At, PublicationInv, JobInv
  <2>3. Twice /\ UNCHANGED Acknowledged
    BY <1>2, <2>1, <2>2 DEF Publish, Relies, Acknowledged
  <2> QED BY <2>1, <2>3
          DEF Lifecycle!Next, Lifecycle!Publish, Twice, AtLeastTwo, Lifecycle!AtLeastTwo
<1>3. CASE Boot(p)
  <2>1. \A n \in Nodes : (op'[<<"CREATE", n>>] = "DONE") <=> (op[<<"CREATE", n>>] = "DONE")
    BY <1>3 DEF Boot, Recovered, Ops, Kinds
  <2> QED BY <1>3, <2>1 DEF Boot, Lifecycle!vars, Acknowledged
<1>4. CASE List(p) \/ Inspect(p) \/ Unsession(p) \/ Unstage(p) \/ Vanished(p)
  BY <1>4, Stutter DEF List, Inspect, Unsession, Unstage, Vanished, database
<1> QED BY <1>1, <1>2, <1>3, <1>4 DEF Reconcile

\* Requests.
LEMMA RequestMaps ==
  ASSUME TypeInv, RunnerInv, PublicationInv, NEW p \in Procs, Request(p)
  PROVE  [Lifecycle!Next]_Lifecycle!vars
<1>1. CASE Upload(p)
  <2>1. file = "NONE" /\ file' = "PENDING" /\ Acknowledged = {}
    BY <1>1 DEF Upload, RunnerInv, Unborn, Acknowledged, Ops, Kinds
  <2>2. \A o \in Ops : op'[o] # "DONE"
    BY <1>1 DEF Upload
  <2>3. Acknowledged' = {}
    BY <2>2 DEF Acknowledged, Ops, Kinds
  <2> QED BY <2>1, <2>3 DEF Lifecycle!Next, Lifecycle!Accept
<1>2. CASE Delete(p)
  <2>1. PlainRows
    BY <1>1, <1>2, RequestPlain DEF Upload, Delete, RunnerInv
  <2>2. UNCHANGED Acknowledged
    BY <2>1 DEF PlainRows, Acknowledged
  <2> QED BY <1>2, <2>2 DEF Delete, Lifecycle!Next, Lifecycle!RequestDeletion, Lifecycle!vars
<1>3. CASE Retry(p) \/ Download(p) \/ Scrub(p) \/ \E aged \in SUBSET Nodes : RepairPass(p, aged)
  BY <1>3, Stutter DEF Retry, Download, Scrub, RepairPass, database
<1> QED BY <1>1, <1>2, <1>3 DEF Request

\* Every step is one of FileLifecycle or leaves it alone.
LEMMA NextMaps ==
  TypeInv /\ RunnerInv /\ PublicationInv /\ LifecycleInv /\ [Next]_vars
    => [Lifecycle!Next]_Lifecycle!vars
<1> SUFFICES ASSUME TypeInv, RunnerInv, PublicationInv, LifecycleInv, [Next]_vars
             PROVE  [Lifecycle!Next]_Lifecycle!vars
  OBVIOUS
<1>1. ASSUME NEW p \in Procs, Verify(p) \/ Schedule(p) PROVE UNCHANGED Lifecycle!vars
  <2>1. PlainRows
    BY <1>1, VerifyPlain, SchedulePlain DEF RunnerInv
  <2>2. UNCHANGED file
    BY <1>1, VerifyOnward, ScheduleOnward
  <2> QED BY <2>1, <2>2, Stutter DEF PlainRows
<1>2. ASSUME NEW p \in Procs, Request(p) \/ Advance(p) PROVE [Lifecycle!Next]_Lifecycle!vars
  BY <1>1, <1>2, RequestMaps, OperateMaps, ReconcileMaps DEF Advance
<1>3. Environment => UNCHANGED <<file, op>>
  BY DEF Environment, Crash, NodeDown, NodeUp, Damage, LatePut, database
<1>4. UNCHANGED <<file, op>> => UNCHANGED Lifecycle!vars
  BY Stutter
<1> QED BY <1>2, <1>3, <1>4 DEF Next, vars

\* RefinesLifecycle: without completion retries, what the owner of a file sees
\* is the abstract lifecycle: published once two copies were acknowledged,
\* never visible again once its deletion was accepted.
THEOREM RefinementCorrect ==
  ASSUME "retry" \notin Jobs
  PROVE  Spec => RefinesLifecycle
<1>1. Init => TypeInv /\ RunnerInv /\ PublicationInv /\ LifecycleInv
  <2>1. Init => LifecycleInv
    <3> SUFFICES ASSUME Init PROVE LifecycleInv
      OBVIOUS
    <3>1. \A p \in Procs : proc[p].pc = "idle" /\ proc[p].job = "none"
      BY IdleType DEF Init
    <3> QED BY <3>1 DEF LifecycleInv, DutyInv, Duty, OneUpload, LoneInv, Starting
  <2> QED BY <2>1, InitType, InitRunner, InitPublication
<1>2. TypeInv /\ RunnerInv /\ PublicationInv /\ LifecycleInv /\ [Next]_vars
        => (TypeInv /\ RunnerInv /\ PublicationInv /\ LifecycleInv)'
  BY NextType, NextRunner, NextPublication, NextLifecycle
<1>3. Init => Lifecycle!Init
  BY DEF Init, Lifecycle!Init, Acknowledged, Ops, Kinds
<1> QED BY <1>1, <1>2, <1>3, NextMaps, PTL DEF Spec, RefinesLifecycle, Lifecycle!Spec

\* DeletionIsFinal: without completion retries no reconcileFile publishes a file
\* again whose deletion was accepted; it stays DELETING until its rows go.
THEOREM FinalCorrect ==
  ASSUME "retry" \notin Jobs
  PROVE  Spec => DeletionIsFinal
<1>1. [Lifecycle!Next]_Lifecycle!vars
        => [file = "DELETING" => file' \in {"DELETING", "GONE"}]_vars
  BY DEF Lifecycle!Next, Lifecycle!vars, Lifecycle!Accept, Lifecycle!Acknowledge,
         Lifecycle!Publish, Lifecycle!RequestDeletion, Lifecycle!Remove
<1> QED BY <1>1, RefinementCorrect, PTL DEF RefinesLifecycle, Lifecycle!Spec, DeletionIsFinal

-----------------------------------------------------------------------------
(***************************************************************************)
(* Deletion erases everything, where nothing repairs and no request is     *)
(* carried out after it timed out. Once the file was published no CREATE   *)
(* operation is left to run, so that nothing is stored any more; what a    *)
(* DELETE operation has erased stays erased, and the rows only go when     *)
(* that is said of each of them.                                           *)
(***************************************************************************)

Gone(n) == object[n] \in {"absent", "lost"}

\* The labels of uploads, completion retries, deletions and startups.
Erasing == {"idle", "list", "loop", "begin", "put", "commit", "reject", "erase", "inspect",
            "drop", "publish", "unsession", "unstage", "boot"}

\* What a job at label l that runs o says of the file and the nodes.
Erases(l, o) ==
    /\ l \in Erasing /\ o \notin OpsOf("REPAIR")
    /\ l = "put" => o \in OpsOf("CREATE")
    /\ o \in OpsOf("CREATE") => Unpublished /\ op[o] # "NONE"
    /\ l = "commit" /\ o \in OpsOf("DELETE") => Gone(o[2])
    /\ l = "drop" => ~Unpublished /\ \A n \in Nodes : Gone(n)

\* Every object has a replica row, unless it is erased.
ErasedRows ==
    /\ late = {}
    /\ \A n \in Nodes :
          /\ op[<<"REPAIR", n>>] = "NONE"
          /\ op[<<"CREATE", n>>] # "NONE" => replica[n] # "NONE"
          /\ op[<<"DELETE", n>>] = "DONE" => Gone(n)
          /\ replica[n] = "NONE" => Gone(n)

ErasureInv == ErasedRows /\ \A p \in Procs : Erases(proc[p].pc, proc[p].cur)

-----------------------------------------------------------------------------
(* Steps of a job.                                                         *)

\* A step brings back nothing that was erased, and takes no CREATE operation
\* from a job that runs it.
Fades ==
    /\ ~Unpublished => ~Unpublished' /\ \A n \in Nodes : Gone(n) => Gone(n)'
    /\ \A o \in OpsOf("CREATE") :
          \/ Unpublished /\ op[o] # "NONE" => Unpublished' /\ op'[o] # "NONE"
          \/ \A q \in Procs : proc[q].cur # o

\* What was said of the other jobs can still be said of them.
LEMMA OthersErase ==
  ASSUME TypeInv, PublicationInv, ErasureInv, Fades,
         NEW q \in Procs, NEW l, NEW o, l = proc[q].pc, o = proc[q].cur
  PROVE  Erases(l, o)'
<1>1. Erases(l, o) /\ Relies(l, o, proc[q].src, proc[q].got)
  BY DEF ErasureInv, PublicationInv, JobInv
<1>2. o \in OpsOf("CREATE") => Unpublished' /\ op'[o] # "NONE"
  BY <1>1 DEF Fades, Erases
<1>3. l = "commit" /\ o \in OpsOf("DELETE") => Gone(o[2])'
  BY <1>1 DEF Fades, Erases, Relies, OpsOf
<1>4. l = "drop" => ~Unpublished' /\ \A n \in Nodes : Gone(n)'
  BY <1>1 DEF Fades, Erases
<1> QED BY <1>1, <1>2, <1>3, <1>4 DEF Erases

\* A step that fades, and after which that of its job can be said, too.
LEMMA ErasureStep ==
  ASSUME TypeInv, PublicationInv, ErasureInv, Fades, ErasedRows', NEW p \in Procs,
         NEW l, NEW j, NEW o, NEW n, NEW g, Moved(p, l, j, o, n, g), Erases(l, o)'
  PROVE  ErasureInv'
<1>1. ASSUME NEW q \in Procs, q # p PROVE Erases(proc[q].pc, proc[q].cur)'
  <2>1. proc'[q] = proc[q]
    BY <1>1 DEF Moved
  <2>2. PICK m, k : m = proc[q].pc /\ k = proc[q].cur
    OBVIOUS
  <2>3. Erases(m, k)'
    BY <2>2, OthersErase
  <2> QED BY <2>1, <2>2, <2>3
<1>2. Erases(proc[p].pc, proc[p].cur)'
  BY DEF Moved
<1> QED BY <1>1, <1>2 DEF ErasureInv

\* NoOp is said nothing of, but before the rows go.
LEMMA FreeErases ==
  ASSUME NEW l \in Erasing \ {"put", "drop"}
  PROVE  Erases(l, NoOp) /\ Erases(l, NoOp)'
  BY NoOpOf DEF Erases

\* What a step that writes no object and no row does.
LEMMA QuietFades ==
  ASSUME ErasureInv, UNCHANGED <<file, replica, op, object, late>>
  PROVE  /\ Fades /\ ErasedRows'
         /\ \A l, o : Erases(l, o) => Erases(l, o)'
  BY DEF Fades, ErasureInv, ErasedRows, Erases, Gone, Unpublished

LEMMA QuietErasure ==
  ASSUME TypeInv, PublicationInv, ErasureInv, UNCHANGED <<file, replica, op, object, late>>,
         NEW p \in Procs, NEW l, NEW j, NEW o, NEW n, NEW g,
         Moved(p, l, j, o, n, g), Erases(l, o)
  PROVE  ErasureInv'
  BY QuietFades, ErasureStep

\* Moving on, ending a job and starting one.
LEMMA QuietGoes ==
  ASSUME TypeInv, PublicationInv, ErasureInv, UNCHANGED <<file, replica, op, object, late>>,
         NEW p \in Procs
  PROVE  /\ \A l \in Labels : Goto(p, l) /\ Erases(l, proc[p].cur) => ErasureInv'
         /\ Finish(p) => ErasureInv'
         /\ \A j \in JobKinds \union {"recover"} : Start(p, j, "list") => ErasureInv'
<1>1. ASSUME NEW l \in Labels, Goto(p, l), Erases(l, proc[p].cur) PROVE ErasureInv'
  <2>1. Moved(p, l, proc[p].job, proc[p].cur, proc[p].src, proc[p].got)
    BY <1>1, ShapeNow, GotoMoved
  <2> QED BY <1>1, <2>1, QuietErasure
<1>2. ASSUME Finish(p) PROVE ErasureInv'
  <2>1. Moved(p, "idle", "none", NoOp, NoNode, "none")
    BY <1>2, ShapeNow, FinishMoved
  <2>2. Erases("idle", NoOp)
    BY FreeErases DEF Erasing
  <2> QED BY <2>1, <2>2, QuietErasure
<1>3. ASSUME NEW j \in JobKinds \union {"recover"}, Start(p, j, "list") PROVE ErasureInv'
  <2>1. Moved(p, "list", j, NoOp, NoNode, "none")
    BY <1>3, ShapeNow, StartMoved DEF Labels
  <2>2. Erases("list", NoOp)
    BY FreeErases DEF Erasing
  <2> QED BY <2>1, <2>2, QuietErasure
<1> QED BY <1>1, <1>2, <1>3

\* The steps of a job that write no row and no object.
LEMMA JobQuiet ==
  ASSUME TypeInv, PublicationInv, ErasureInv, NEW p \in Procs,
         \/ \E o \in Ops : NotClaimed(p, o)
         \/ AllRun(p) \/ BeginCreate(p) \/ BeginDelete(p) \/ PutConflict(p)
         \/ List(p) \/ Inspect(p) \/ Vanished(p) \/ Retry(p)
  PROVE  ErasureInv'
<1>0. /\ Erases(proc[p].pc, proc[p].cur) /\ UNCHANGED <<file, replica, op, object, late>>
      /\ {"inspect", "put", "reject", "erase", "drop", "publish", "loop"} \subseteq Labels
  BY DEF NotClaimed, AllRun, BeginCreate, BeginDelete, PutConflict, List, Inspect, Vanished,
     Retry, database, cluster, ErasureInv, Labels
<1>1. ASSUME NEW o \in Ops, NotClaimed(p, o) PROVE ErasureInv'
  BY <1>0, <1>1, ShapeNow, NotClaimedMoved, QuietErasure
<1>2. CASE AllRun(p)
  <2>1. Erases("inspect", proc[p].cur)
    BY <1>0, <1>2 DEF Erases, Erasing
  <2> QED BY <1>0, <1>2, <2>1, QuietGoes DEF AllRun
<1>3. CASE BeginCreate(p)
  <2>1. Erases("put", proc[p].cur) /\ Erases("reject", proc[p].cur)
    BY <1>0, <1>3 DEF BeginCreate, Erases, Erasing
  <2> QED BY <1>0, <1>3, <2>1, QuietGoes DEF BeginCreate
<1>4. CASE BeginDelete(p)
  <2>1. Erases("erase", proc[p].cur)
    BY <1>0, <1>4 DEF Erases, Erasing
  <2> QED BY <1>0, <1>4, <2>1, QuietGoes DEF BeginDelete
<1>5. CASE PutConflict(p)
  <2>1. Erases("reject", proc[p].cur)
    BY <1>0 DEF Erases, Erasing
  <2> QED BY <1>0, <1>5, <2>1, QuietGoes DEF PutConflict
<1>6. CASE List(p)
  <2>1. Moved(p, "loop", proc[p].job, proc[p].cur, proc[p].src, proc[p].got)
    BY <1>6, ShapeNow, ListMoved
  <2>2. Erases("loop", proc[p].cur)
    BY <1>0 DEF Erases, Erasing
  <2> QED BY <1>0, <2>1, <2>2, QuietErasure
<1>7. CASE Inspect(p)
  <2>1. file = "DELETING" /\ Erased => Erases("drop", proc[p].cur)
    BY <1>0 DEF Erased, Erases, Erasing, ErasureInv, ErasedRows, Rows, Unpublished
  <2>2. Erases("publish", proc[p].cur)
    BY <1>0 DEF Erases, Erasing
  <2> QED BY <1>0, <1>7, <2>1, <2>2, QuietGoes DEF Inspect
<1>8. CASE Vanished(p)
  BY <1>0, <1>8, QuietGoes DEF Vanished
<1>9. CASE Retry(p)
  BY <1>0, <1>9, QuietGoes DEF Retry, JobKinds
<1> QED BY <1>1, <1>2, <1>3, <1>4, <1>5, <1>6, <1>7, <1>8, <1>9

\* Repairs, verifications and repair passes do not happen.
LEMMA NoRepair ==
  ASSUME TypeInv, ErasureInv, NEW p \in Procs
  PROVE  /\ ~Verify(p) /\ ~Schedule(p)
         /\ \A n \in Nodes : ~Source(p, n)
         /\ ~BeginRepair(p) /\ ~NoSource(p) /\ ~Confirm(p) /\ ~ConfirmFails(p)
<1>1. proc[p].pc \in Erasing /\ proc[p].cur \notin OpsOf("REPAIR")
  BY DEF ErasureInv, Erases
<1>2. ~Head(p) /\ ~Get(p) /\ ~ReadFails(p) /\ ~RecordVerdict(p)
  BY <1>1 DEF Head, Get, ReadFails, RecordVerdict, At, Erasing
<1>3. ~Verify(p)
  BY <1>2 DEF Verify, VerdictRepair, VerdictScrub, VerdictDownload
<1>4. ~Schedule(p)
  BY <1>1 DEF Schedule, Visit, Visited, Lookup, Enqueue, Mark, Replace, Insert, Queue, At,
     Erasing
<1> QED BY <1>1, <1>3, <1>4 DEF Source, BeginRepair, NoSource, Confirm, ConfirmFails, At, Erasing

-----------------------------------------------------------------------------
(* Steps that write objects.                                               *)

\* Only CREATE operations store anything, and only before the file is published.
LEMMA PutErasure ==
  ASSUME TypeInv, RunnerInv, PublicationInv, ErasureInv, "late" \notin Faults,
         NEW p \in Procs, Put(p) \/ PutFails(p)
  PROVE  ErasureInv'
<1>1. PICK o \in Ops : o = proc[p].cur
  BY ShapeNow DEF Put, PutFails, At, ShapeOf, OpLabels
<1>2. /\ o \in OpsOf("CREATE") /\ Unpublished /\ op[o] # "NONE"
      /\ UNCHANGED <<file, replica, op, late>>
      /\ object' = Stored(o) \/ object' = object
      /\ Goto(p, "commit") \/ Goto(p, "reject")
  BY <1>1 DEF ErasureInv, Erases, Put, PutFails, At, database, Inject, OpsOf
<1>3. o = <<"CREATE", o[2]>> /\ o[2] \in Nodes /\ object \in [Nodes -> ObjectStatus]
  BY <1>2, ShapeNow DEF OpsOf, TypeOK
<1>4. replica[o[2]] # "NONE"
  BY <1>2, <1>3 DEF ErasureInv, ErasedRows
<1>5. \A n \in Nodes : /\ op[<<"DELETE", n>>] = "NONE"
                       /\ n # o[2] => object'[n] = object[n]
  BY <1>2, <1>3 DEF PublicationInv, RowsInv, UnpublishedInv, Ops, Kinds, OpsOf, Stored
<1>6. ErasedRows'
  BY <1>2, <1>4, <1>5 DEF ErasureInv, ErasedRows, Gone
<1>7. Fades
  BY <1>2 DEF Fades, Unpublished
<1>8. ASSUME NEW l \in {"commit", "reject"} PROVE Erases(l, o)'
  BY <1>2 DEF Erases, Erasing, Unpublished, OpsOf
<1>9. ASSUME NEW l \in {"commit", "reject"}, Goto(p, l) PROVE ErasureInv'
  <2>1. Moved(p, l, proc[p].job, o, proc[p].src, proc[p].got)
    BY <1>1, <1>9, ShapeNow, GotoMoved DEF Labels
  <2> QED BY <1>6, <1>7, <1>8, <2>1, ErasureStep
<1> QED BY <1>2, <1>9

\* A DELETE erases.
LEMMA EraseErasure ==
  ASSUME TypeInv, PublicationInv, ErasureInv, NEW p \in Procs, Erase(p) \/ EraseFails(p)
  PROVE  ErasureInv'
<1>1. PICK o \in OpsOf("DELETE") : o = proc[p].cur
  BY ShapeNow DEF Erase, EraseFails, At, ShapeOf
<1>2. /\ UNCHANGED <<file, replica, op, late>>
      /\ \/ object' = [object EXCEPT ![o[2]] = "absent"] /\ Goto(p, "commit")
         \/ /\ object' = [object EXCEPT ![o[2]] = "absent"] \/ object' = object
            /\ Goto(p, "reject")
  BY <1>1 DEF Erase, EraseFails, database
<1>3. o[2] \in Nodes /\ object \in [Nodes -> ObjectStatus]
  BY ShapeNow DEF OpsOf, TypeOK
<1>4. \A n \in Nodes : Gone(n) => Gone(n)'
  BY <1>2, <1>3 DEF Gone
<1>5. Fades /\ ErasedRows'
  BY <1>2, <1>4 DEF Fades, ErasureInv, ErasedRows, Unpublished
<1>6. o \notin OpsOf("CREATE") \union OpsOf("REPAIR")
  BY DEF OpsOf
<1>7. ASSUME NEW l \in {"commit", "reject"}, Goto(p, l) PROVE ErasureInv'
  <2>1. Moved(p, l, proc[p].job, o, proc[p].src, proc[p].got)
    BY <1>1, <1>7, ShapeNow, GotoMoved DEF Labels
  <2>2. l = "commit" => Gone(o[2])'
    <3> SUFFICES ASSUME l = "commit" PROVE Gone(o[2])'
      OBVIOUS
    <3>1. proc'[p].pc = "commit"
      BY <2>1 DEF Moved
    <3>2. ~Goto(p, "reject")
      <4> SUFFICES ASSUME Goto(p, "reject") PROVE FALSE
        OBVIOUS
      <4>1. Moved(p, "reject", proc[p].job, o, proc[p].src, proc[p].got)
        BY <1>1, ShapeNow, GotoMoved DEF Labels
      <4> QED BY <3>1, <4>1 DEF Moved
    <3> QED BY <1>2, <1>3, <3>2 DEF Gone
  <2>3. Erases(l, o)'
    BY <1>6, <2>2 DEF Erases, Erasing
  <2> QED BY <1>5, <2>1, <2>3, ErasureStep
<1> QED BY <1>2, <1>7

-----------------------------------------------------------------------------
(* Steps that write rows.                                                  *)

\* A step that leaves the objects alone and after which its job runs nothing.
LEMMA FreeErasure ==
  ASSUME TypeInv, PublicationInv, ErasureInv, Fades, ErasedRows', NEW p \in Procs,
         NEW l \in Erasing \ {"put", "drop"}, NEW j, NEW n, NEW g, Moved(p, l, j, NoOp, n, g)
  PROVE  ErasureInv'
  BY FreeErases, ErasureStep

\* An upload starts from nothing.
LEMMA UploadErasure ==
  ASSUME TypeInv, RunnerInv, PublicationInv, ErasureInv, NEW p \in Procs, Upload(p)
  PROVE  ErasureInv'
<1>1. PICK a, b \in Live :
         /\ replica' = [n \in Nodes |-> IF n \in {a, b} THEN "PENDING" ELSE "NONE"]
         /\ op' = [o \in Ops |-> IF o \in {"CREATE"} \X {a, b} THEN "PENDING" ELSE "NONE"]
  BY DEF Upload
<1>2. /\ file = "NONE" /\ file' = "PENDING" /\ UNCHANGED <<object, late>>
      /\ \A n \in Nodes : replica[n] = "NONE"
      /\ \A q \in Procs : proc[q].cur = NoOp
  BY DEF Upload, cluster, RunnerInv, Unborn
<1>3. \A n \in Nodes : /\ <<"CREATE", n>> \in Ops /\ op'[<<"REPAIR", n>>] = "NONE"
                       /\ op'[<<"DELETE", n>>] = "NONE"
                       /\ op'[<<"CREATE", n>>] # "NONE" => replica'[n] # "NONE"
  BY <1>1 DEF Ops, Kinds
<1>4. ErasedRows'
  BY <1>2, <1>3 DEF ErasureInv, ErasedRows, Gone
<1>5. Fades
  BY <1>2, NoOpOf DEF Fades, Unpublished
<1>6. Moved(p, "list", "upload", NoOp, NoNode, "none")
  BY ShapeNow, StartMoved DEF Upload, JobKinds, Labels
<1> QED BY <1>4, <1>5, <1>6, FreeErasure DEF Erasing

\* An accepted deletion has everything yet to erase.
LEMMA DeleteErasure ==
  ASSUME TypeInv, PublicationInv, ErasureInv, NEW p \in Procs, Delete(p)
  PROVE  ErasureInv'
<1>1. /\ file \in {"AVAILABLE", "DELETING"} /\ file' = "DELETING" /\ UNCHANGED <<object, late>>
      /\ \A n \in Nodes : replica'[n] = "NONE" <=> replica[n] = "NONE"
      /\ \A o \in Ops : op'[o] = op[o] \/ (op'[o] = "PENDING" /\ o[1] = "DELETE")
  <2>1. /\ op' = [o \in Ops |-> IF o \in {"DELETE"} \X Rows THEN "PENDING" ELSE op[o]]
        /\ replica' = [n \in Nodes |-> IF n \in Rows THEN "DELETE_PENDING" ELSE "NONE"]
    BY DEF Delete
  <2>2. \A o \in Ops : op'[o] = op[o] \/ (op'[o] = "PENDING" /\ o[1] = "DELETE")
    BY <2>1
  <2> QED BY <2>1, <2>2 DEF Delete, cluster, Rows
<1>2. \A n \in Nodes : {<<"CREATE", n>>, <<"DELETE", n>>, <<"REPAIR", n>>} \subseteq Ops
  BY DEF Ops, Kinds
<1>3. ErasedRows'
  BY <1>1, <1>2 DEF ErasureInv, ErasedRows, Gone
<1>4. Fades
  BY <1>1 DEF Fades, Unpublished, Gone
<1>5. Moved(p, "list", "delete", NoOp, NoNode, "none")
  BY ShapeNow, StartMoved DEF Delete, JobKinds, Labels
<1> QED BY <1>3, <1>4, <1>5, FreeErasure DEF Erasing

\* No CREATE operation is left to claim once the file was published.
LEMMA ClaimErasure ==
  ASSUME TypeInv, PublicationInv, ErasureInv, NEW p \in Procs, NEW o \in Ops, Claim(p, o)
  PROVE  ErasureInv'
<1>1. /\ UNCHANGED <<file, replica, object, late>>
      /\ op[o] \in {"PENDING", "FAILED"} /\ op \in [Ops -> OpStatus]
      /\ op' = [op EXCEPT ![o] = "RUNNING"]
  BY ShapeNow DEF Claim, Claimable, cluster, TypeOK
<1>2. \A n \in Nodes : {<<"CREATE", n>>, <<"DELETE", n>>, <<"REPAIR", n>>} \subseteq Ops
  BY DEF Ops, Kinds
<1>3. o \notin OpsOf("REPAIR")
  <2> SUFFICES ASSUME NEW n \in Nodes, o = <<"REPAIR", n>> PROVE FALSE
    BY DEF OpsOf
  <2> QED BY <1>1 DEF ErasureInv, ErasedRows
<1>4. o \in OpsOf("CREATE") => Unpublished
  <2> SUFFICES ASSUME o \in OpsOf("CREATE"), ~Unpublished PROVE FALSE
    OBVIOUS
  <2>1. PICK n \in Nodes : o = <<"CREATE", n>>
    BY DEF OpsOf
  <2>2. file # "GONE"
    BY <1>1 DEF PublicationInv, RowsInv, GoneInv
  <2>3. file \in {"AVAILABLE", "DELETING"}
    BY <2>2, ShapeNow DEF TypeOK, FileStatus, Unpublished
  <2>4. CreateOf(n) \in {"NONE", "DONE"}
    BY <2>3, TwiceAll DEF PublicationInv, RowsInv, PublishedInv
  <2> QED BY <1>1, <2>1, <2>4 DEF CreateOf
<1>5. ErasedRows'
  BY <1>1, <1>2, <1>3 DEF ErasureInv, ErasedRows, Gone, OpsOf
<1>6. Fades
  BY <1>1 DEF Fades, Unpublished, Gone, OpsOf, Ops, Kinds
<1>7. Erases("begin", o)'
  BY <1>1, <1>3, <1>4 DEF Erases, Erasing, Unpublished
<1>8. PICK n, g : n = proc[p].src /\ g = proc[p].got
  OBVIOUS
<1>9. Moved(p, "begin", proc[p].job, o, n, g)
  BY <1>8, ShapeNow, ClaimMoved
<1> QED BY <1>5, <1>6, <1>7, <1>9, ErasureStep

\* A DELETE operation is DONE when its node holds nothing.
LEMMA ResultErasure ==
  ASSUME TypeInv, PublicationInv, ErasureInv, NEW p \in Procs, Commit(p) \/ Reject(p)
  PROVE  ErasureInv'
<1>1. PICK o \in Ops : o = proc[p].cur
  BY ShapeNow DEF Commit, Reject, At, ShapeOf, OpLabels
<1>2. /\ UNCHANGED <<file, object, late>> /\ Erases(proc[p].pc, o)
      /\ op \in [Ops -> OpStatus] /\ replica \in [Nodes -> ReplicaStatus] /\ op[o] # "NONE"
  BY <1>1, ShapeNow DEF Commit, Reject, cluster, TypeOK, ErasureInv
<1>3. \/ /\ op' = [op EXCEPT ![o] = "DONE"] /\ proc[p].pc = "commit"
      \/ /\ op' = [op EXCEPT ![o] = "FAILED"]
  BY <1>1 DEF Commit, Reject, At
<1>4. \A n \in Nodes : \/ replica'[n] = replica[n]
                       \/ replica'[n] # "NONE" /\ o[2] = n /\ o \in OpsOf("CREATE")
  BY <1>1, <1>2 DEF Commit, Reject, Erases, Ops, Kinds, OpsOf
<1>5. /\ \A n \in Nodes : {<<"CREATE", n>>, <<"DELETE", n>>, <<"REPAIR", n>>} \subseteq Ops
      /\ o[2] \in Nodes
      /\ \A n \in Nodes : o # <<"REPAIR", n>> /\ (o = <<"DELETE", n>> => o \in OpsOf("DELETE"))
  BY <1>2 DEF Ops, Kinds, OpsOf, Erases
<1>6. ASSUME NEW n \in Nodes
      PROVE  /\ op'[<<"REPAIR", n>>] = "NONE"
             /\ op'[<<"CREATE", n>>] # "NONE" => replica'[n] # "NONE"
             /\ op'[<<"DELETE", n>>] = "DONE" => Gone(n)
             /\ replica'[n] = "NONE" => Gone(n)
  <2>1. op'[<<"REPAIR", n>>] = "NONE"
    BY <1>2, <1>3, <1>5 DEF ErasureInv, ErasedRows
  <2>2. op'[<<"CREATE", n>>] # "NONE" => replica'[n] # "NONE"
    <3>1. op'[<<"CREATE", n>>] # "NONE" => op[<<"CREATE", n>>] # "NONE"
      BY <1>2, <1>3, <1>5
    <3> QED BY <1>4, <3>1 DEF ErasureInv, ErasedRows
  <2>3. op'[<<"DELETE", n>>] = "DONE" => Gone(n)
    <3>1. CASE o = <<"DELETE", n>>
      <4>1. o[2] = n /\ o \in OpsOf("DELETE") /\ (op'[o] = "DONE" => proc[p].pc = "commit")
        BY <1>2, <1>3, <1>5, <3>1
      <4> QED BY <1>2, <3>1, <4>1 DEF Erases
    <3>2. CASE o # <<"DELETE", n>>
      <4>1. op'[<<"DELETE", n>>] = op[<<"DELETE", n>>]
        BY <1>2, <1>3, <1>5, <3>2
      <4> QED BY <4>1 DEF ErasureInv, ErasedRows
    <3> QED BY <3>1, <3>2
  <2>4. replica'[n] = "NONE" => Gone(n)
    BY <1>4 DEF ErasureInv, ErasedRows
  <2> QED BY <2>1, <2>2, <2>3, <2>4
<1>7. ErasedRows'
  BY <1>2, <1>6 DEF ErasureInv, ErasedRows, Gone
<1>8. Fades
  BY <1>2, <1>3 DEF Fades, Unpublished, Gone, OpsOf, Ops, Kinds
<1>9. Moved(p, "loop", proc[p].job, NoOp, NoNode, "none")
  BY ShapeNow, NextOpMoved DEF Commit, Reject
<1> QED BY <1>7, <1>8, <1>9, FreeErasure DEF Erasing


\* The rows go when everything is erased.
LEMMA DropErasure ==
  ASSUME TypeInv, PublicationInv, ErasureInv, NEW p \in Procs, Drop(p)
  PROVE  ErasureInv'
<1>1. /\ file' = "GONE" /\ UNCHANGED <<object, late>>
      /\ \A n \in Nodes : replica'[n] = "NONE"
      /\ \A n \in Nodes, k \in Kinds : op'[<<k, n>>] = "NONE"
  BY DEF Drop, cluster, Ops
<1>2. ~Unpublished /\ \A n \in Nodes : Gone(n)
  BY DEF ErasureInv, Erases, Drop, At
<1>3. ErasedRows'
  BY <1>1, <1>2 DEF ErasureInv, ErasedRows, Gone, Kinds
<1>4. Fades
  BY <1>1, <1>2 DEF Fades, Unpublished, Gone
<1>5. Moved(p, "idle", "none", NoOp, NoNode, "none")
  BY ShapeNow, FinishMoved DEF Drop
<1> QED BY <1>3, <1>4, <1>5, FreeErasure DEF Erasing

\* Whoever publishes finds both CREATE operations DONE, so that nobody runs one.
LEMMA PublishErasure ==
  ASSUME TypeInv, RunnerInv, PublicationInv, ErasureInv, NEW p \in Procs,
         Publish(p) \/ Unsession(p) \/ Unstage(p)
  PROVE  ErasureInv'
<1>1. /\ UNCHANGED <<replica, op, object, late>> /\ file' \in {file, "AVAILABLE"}
      /\ proc[p].cur = NoOp
      /\ \/ Goto(p, "unsession") \/ Goto(p, "unstage") \/ Finish(p)
  BY FreeLabel DEF Publish, Unsession, Unstage, cluster, At, OpLabels, ReadLabels
<1>2. ErasedRows'
  BY <1>1 DEF ErasureInv, ErasedRows, Gone
<1>3. ASSUME NEW o \in OpsOf("CREATE"), ~Unpublished', NEW q \in Procs, proc[q].cur = o
      PROVE  ~Unpublished
  <2> SUFFICES ASSUME Unpublished PROVE FALSE
    OBVIOUS
  <2>1. At(p, "publish") /\ RowExists
    BY <1>3 DEF Publish, Unsession, Unstage, Unpublished
  <2>2. Twice
    BY <2>1 DEF PublicationInv, JobInv, Relies, At, RowExists
  <2>3. PICK n \in Nodes : o = <<"CREATE", n>>
    BY DEF OpsOf
  <2>4. op[o] = "RUNNING"
    BY <1>3 DEF RunnerInv, CreateInv, ErasureInv, Erases
  <2> QED BY <2>2, <2>3, <2>4, TwiceAll DEF CreateOf
<1>4. Fades
  BY <1>1, <1>3 DEF Fades, Gone, Unpublished
<1>5. ASSUME NEW l \in {"unsession", "unstage"}, Goto(p, l) PROVE ErasureInv'
  <2>1. PICK n, g : n = proc[p].src /\ g = proc[p].got
    OBVIOUS
  <2>2. Moved(p, l, proc[p].job, NoOp, n, g)
    BY <1>1, <1>5, <2>1, ShapeNow, GotoMoved DEF Labels
  <2> QED BY <1>2, <1>4, <2>2, FreeErasure DEF Erasing
<1>6. CASE Finish(p)
  <2>1. Moved(p, "idle", "none", NoOp, NoNode, "none")
    BY <1>6, ShapeNow, FinishMoved
  <2> QED BY <1>2, <1>4, <2>1, FreeErasure DEF Erasing
<1> QED BY <1>1, <1>5, <1>6

\* A startup calls nothing DONE.
LEMMA BootErasure ==
  ASSUME TypeInv, PublicationInv, ErasureInv, NEW p \in Procs, Boot(p)
  PROVE  ErasureInv'
<1>1. /\ UNCHANGED <<file, replica, object, late>>
      /\ \A o \in Ops : /\ (op'[o] = "NONE") <=> (op[o] = "NONE")
                        /\ (op'[o] = "DONE") <=> (op[o] = "DONE")
  <2>1. op' = [o \in Ops |-> Recovered(o)] /\ UNCHANGED <<file, replica, object, late>>
    BY DEF Boot, cluster
  <2>2. ASSUME NEW o \in Ops
        PROVE  /\ (op'[o] = "NONE") <=> (op[o] = "NONE")
               /\ (op'[o] = "DONE") <=> (op[o] = "DONE")
    BY <2>1 DEF Recovered
  <2> QED BY <2>1, <2>2
<1>2. \A n \in Nodes : {<<"CREATE", n>>, <<"DELETE", n>>, <<"REPAIR", n>>} \subseteq Ops
  BY DEF Ops, Kinds
<1>3. ErasedRows'
  BY <1>1, <1>2 DEF ErasureInv, ErasedRows, Gone
<1>4. Fades
  BY <1>1 DEF Fades, Unpublished, Gone, OpsOf, Ops, Kinds
<1>5. Moved(p, "loop", proc[p].job, NoOp, proc[p].src, proc[p].got)
  BY ShapeNow, BootMoved, FreeLabel DEF Boot, At, OpLabels, ReadLabels
<1> QED BY <1>3, <1>4, <1>5, FreeErasure DEF Erasing

-----------------------------------------------------------------------------
(* The environment, and the theorem.                                       *)

\* A crash leaves jobs that run nothing.
LEMMA CrashErasure ==
  ASSUME ErasureInv, "late" \notin Faults, NEW p \in Procs, Crash(p)
  PROVE  ErasureInv'
<1> DEFINE s == [Idle EXCEPT !.pc = "boot", !.job = "boot"]
<1>1. s.pc = "boot" /\ s.cur = NoOp
  BY DEF Idle
<1>2. /\ proc' = [[q \in Procs |-> Idle] EXCEPT ![p] = s]
      /\ UNCHANGED <<file, replica, op, object, late>>
  BY DEF Crash, database
<1> HIDE DEF s
<1>3. \A q \in Procs : proc'[q].pc \in {"boot", "idle"} /\ proc'[q].cur = NoOp
  BY <1>1, <1>2, IdleType
<1>4. ASSUME NEW q \in Procs PROVE Erases(proc[q].pc, proc[q].cur)'
  <2>1. PICK l \in {"boot", "idle"} : l = proc'[q].pc
    BY <1>3
  <2>2. Erases(l, NoOp)'
    BY FreeErases DEF Erasing
  <2> QED BY <1>3, <2>1, <2>2
<1>5. ErasedRows'
  BY <1>2, QuietFades
<1> QED BY <1>4, <1>5 DEF ErasureInv

\* A step that moves no job.
LEMMA StillErasure ==
  ASSUME TypeInv, PublicationInv, ErasureInv, Fades, ErasedRows', UNCHANGED proc
  PROVE  ErasureInv'
<1> SUFFICES ASSUME NEW q \in Procs PROVE Erases(proc[q].pc, proc[q].cur)'
  BY DEF ErasureInv
<1>1. PICK l, o : l = proc[q].pc /\ o = proc[q].cur
  OBVIOUS
<1>2. Erases(l, o)'
  BY <1>1, OthersErase
<1> QED BY <1>1, <1>2

\* Damage stores nothing, and nothing is carried out late.
LEMMA EnvironmentErasure ==
  ASSUME TypeInv, PublicationInv, ErasureInv,
         \/ \E n \in Nodes : NodeDown(n) \/ NodeUp(n) \/ Damage(n)
         \/ \E o \in Ops : LatePut(o)
  PROVE  ErasureInv'
<1>1. CASE \E n \in Nodes : NodeDown(n) \/ NodeUp(n)
  BY <1>1, QuietFades, StillErasure DEF NodeDown, NodeUp, database
<1>2. ASSUME NEW n \in Nodes, Damage(n) PROVE ErasureInv'
  <2>1. /\ UNCHANGED <<file, replica, op, late, proc>>
        /\ \A m \in Nodes : Gone(m) => Gone(m)'
    BY <1>2, ShapeNow DEF Damage, Gone, database, TypeInv, TypeOK
  <2>2. ErasedRows' /\ Fades
    BY <2>1 DEF ErasureInv, ErasedRows, Fades, Unpublished
  <2> QED BY <2>1, <2>2, StillErasure
<1>3. ~\E o \in Ops : LatePut(o)
  BY DEF LatePut, ErasureInv, ErasedRows
<1> QED BY <1>1, <1>2, <1>3

\* Every step keeps the invariant.
LEMMA NextErasure ==
  ASSUME Jobs \subseteq {"upload", "retry", "delete"}, "late" \notin Faults,
         TypeInv, RunnerInv, PublicationInv, ErasureInv, [Next]_vars
  PROVE  ErasureInv'
<1>1. CASE UNCHANGED vars
  BY <1>1, QuietFades, StillErasure DEF vars
<1>2. ASSUME NEW p \in Procs, Request(p) PROVE ErasureInv'
  BY <1>2, UploadErasure, DeleteErasure, JobQuiet
     DEF Request, Download, Scrub, RepairPass, Ready
<1>3. ASSUME NEW p \in Procs, Operate(p) PROVE ErasureInv'
  BY <1>3, NoRepair, ClaimErasure, JobQuiet, PutErasure, EraseErasure, ResultErasure DEF Operate
<1>4. ASSUME NEW p \in Procs, Reconcile(p) PROVE ErasureInv'
  BY <1>4, JobQuiet, DropErasure, PublishErasure, BootErasure DEF Reconcile
<1>5. ASSUME NEW p \in Procs, Request(p) \/ Advance(p) PROVE ErasureInv'
  BY <1>2, <1>3, <1>4, <1>5, NoRepair DEF Advance
<1> QED BY <1>1, <1>5, CrashErasure, EnvironmentErasure DEF Next, Environment

\* Initially nothing is stored.
LEMMA InitErasure == Init => ErasureInv
<1> SUFFICES ASSUME Init PROVE ErasureInv
  OBVIOUS
<1>1. ErasedRows
  BY DEF Init, ErasedRows, Gone, Ops, Kinds
<1>2. \A p \in Procs : proc[p].pc = "idle" /\ proc[p].cur = NoOp
  BY IdleType DEF Init
<1>3. Erases("idle", NoOp)
  BY FreeErases DEF Erasing
<1> QED BY <1>1, <1>2, <1>3 DEF ErasureInv

\* GoneMeansErased: once reconcileFile has deleted the rows of a file, no node
\* keeps its bytes, whatever was refused, lost, damaged or interrupted by a
\* crash on the way. Nothing repairs (a repair's PUT may follow the erasure)
\* and no request is carried out after it timed out.
THEOREM ErasureCorrect ==
  ASSUME Jobs \subseteq {"upload", "retry", "delete"}, "late" \notin Faults
  PROVE  Spec => []GoneMeansErased
<1>1. Init => TypeInv /\ RunnerInv /\ PublicationInv /\ ErasureInv
  BY InitType, InitRunner, InitPublication, InitErasure
<1>2. TypeInv /\ RunnerInv /\ PublicationInv /\ ErasureInv /\ [Next]_vars
        => (TypeInv /\ RunnerInv /\ PublicationInv /\ ErasureInv)'
  BY NextType, NextRunner, NextPublication, NextErasure
<1>3. PublicationInv /\ ErasureInv => GoneMeansErased
  BY DEF GoneMeansErased, PublicationInv, RowsInv, GoneInv, ErasureInv, ErasedRows, Gone
<1> QED BY <1>1, <1>2, <1>3, PTL DEF Spec

-----------------------------------------------------------------------------
(***************************************************************************)
(* A deletion knows every replica of its file, where no repair pass runs   *)
(* beside it: only createReplacement adds a replica row to a file, and     *)
(* only the repair pass calls it.                                          *)
(***************************************************************************)

\* The steps of a repair pass that lead to a replacement, and its kind.
Replacing == {"mark", "replace", "insert"}
Spares(l, j) == l \notin Replacing /\ j # "repair"

\* Whatever has an operation has a replica row; of a file that is being
\* deleted each row has its DELETE operation.
CoveredRows ==
    /\ \A o \in Ops : op[o] # "NONE" => replica[o[2]] # "NONE"
    /\ DeletionCoversReplicas

CoverInv == CoveredRows /\ \A p \in Procs : Spares(proc[p].pc, proc[p].job)

-----------------------------------------------------------------------------
(* The jobs.                                                               *)

\* A step of p after which its job still replaces nothing.
Sparing(p) == \E l \in Labels \ Replacing, j \in JobKinds \union {"none", "boot", "recover"} :
                 /\ j # "repair"
                 /\ \E o, n, g : Moved(p, l, j, o, n, g)

LEMMA GotoSpares ==
  ASSUME TypeInv, CoverInv, NEW p \in Procs, NEW l \in Labels \ Replacing, Goto(p, l)
  PROVE  Sparing(p)
  BY ShapeNow, GotoMoved, Fields DEF Sparing, CoverInv, Spares

LEMMA FinishSpares == ASSUME TypeInv, NEW p \in Procs, Finish(p) PROVE Sparing(p)
  BY ShapeNow, FinishMoved DEF Sparing, Labels, Replacing

\* Operations.
LEMMA OperateSpares ==
  ASSUME TypeInv, CoverInv, NEW p \in Procs, Operate(p)
  PROVE  Sparing(p)
<1>0. /\ {"put", "reject", "erase", "source", "commit", "confirm", "begin", "loop", "head",
          "inspect", "list"} \subseteq Labels \ Replacing
      /\ proc[p].job # "repair"
      /\ proc[p].job \in JobKinds \union {"none", "boot", "recover"}
  BY ShapeNow, Fields DEF Labels, Replacing, CoverInv, Spares
<1>1. ASSUME NEW o \in Ops, Claim(p, o) \/ NotClaimed(p, o) PROVE Sparing(p)
  <2>1. CASE Claim(p, o)
    <3>1. Moved(p, "begin", proc[p].job, o, proc[p].src, proc[p].got)
      BY <2>1, ShapeNow, ClaimMoved
    <3> QED BY <1>0, <3>1 DEF Sparing
  <2>2. CASE NotClaimed(p, o)
    <3>1. Moved(p, proc[p].pc, proc[p].job, proc[p].cur, proc[p].src, proc[p].got)
      BY <2>2, ShapeNow, NotClaimedMoved
    <3> QED BY <1>0, <2>2, <3>1 DEF Sparing, NotClaimed, At
  <2> QED BY <1>1, <2>1, <2>2
<1>2. ASSUME NEW n \in Nodes, Source(p, n) PROVE Sparing(p)
  BY <1>0, <1>2, ShapeNow, SourceMoved DEF Sparing
<1>3. CASE BeginCreate(p) \/ BeginDelete(p) \/ BeginRepair(p)
  BY <1>0, <1>3, GotoSpares DEF BeginCreate, BeginDelete, BeginRepair
<1>4. CASE NoSource(p) \/ PutConflict(p) \/ ConfirmFails(p) \/ Confirm(p)
  BY <1>0, <1>4, GotoSpares DEF NoSource, PutConflict, ConfirmFails, Confirm
<1>5. CASE Put(p) \/ PutFails(p)
  BY <1>0, <1>5, GotoSpares DEF Put, PutFails
<1>6. CASE Erase(p) \/ EraseFails(p)
  BY <1>0, <1>6, GotoSpares DEF Erase, EraseFails
<1>7. CASE Commit(p) \/ Reject(p)
  BY <1>0, <1>7, ShapeNow, NextOpMoved DEF Commit, Reject, Sparing
<1>8. CASE AllRun(p)
  <2>1. CASE Start(p, "recover", "list")
    <3>1. Moved(p, "list", "recover", NoOp, NoNode, "none")
      BY <1>0, <2>1, ShapeNow, StartMoved
    <3> QED BY <1>0, <3>1 DEF Sparing
  <2> QED BY <1>0, <1>8, <2>1, GotoSpares, FinishSpares DEF AllRun
<1> QED BY <1>1, <1>2, <1>3, <1>4, <1>5, <1>6, <1>7, <1>8 DEF Operate

\* Verifications.
LEMMA VerifySpares ==
  ASSUME TypeInv, CoverInv, NEW p \in Procs, Verify(p)
  PROVE  Sparing(p)
<1>0. /\ {"put", "reject", "get", "verdict", "next", "lookup"} \subseteq Labels \ Replacing
      /\ proc[p].job # "repair"
      /\ proc[p].job \in JobKinds \union {"none", "boot", "recover"}
  BY ShapeNow, Fields DEF Labels, Replacing, CoverInv, Spares
<1>1. CASE Head(p)
  BY <1>0, <1>1, ShapeNow, HeadMoved DEF Sparing
<1>2. CASE Get(p) \/ ReadFails(p)
  BY <1>0, <1>2, ShapeNow, GetMoved, ReadFailsMoved DEF Sparing
<1>3. CASE VerdictRepair(p)
  BY <1>0, <1>3, ShapeNow, VerdictRepairMoved DEF Sparing
<1>4. CASE VerdictScrub(p)
  BY <1>0, <1>4, ShapeNow, VerdictScrubMoved DEF Sparing
<1>5. CASE VerdictDownload(p)
  <2>1. CASE Moved(p, "idle", "none", NoOp, NoNode, "none")
    BY <2>1 DEF Sparing, Labels, Replacing
  <2>2. CASE Moved(p, "lookup", proc[p].job, proc[p].cur, proc[p].src, "none")
    BY <1>0, <2>2 DEF Sparing
  <2> QED BY <1>5, <2>1, <2>2, ShapeNow, VerdictDownloadMoved
<1> QED BY <1>1, <1>2, <1>3, <1>4, <1>5 DEF Verify

\* Visits. A repair pass there is not.
LEMMA ScheduleSpares ==
  ASSUME TypeInv, CoverInv, NEW p \in Procs, Schedule(p)
  PROVE  Sparing(p) /\ ~Mark(p) /\ ~Insert(p)
<1>0. /\ {"lookup", "head", "verdict", "next", "enqueue", "loop"} \subseteq Labels \ Replacing
      /\ proc[p].job # "repair" /\ proc[p].pc \notin Replacing
      /\ proc[p].job \in JobKinds \union {"none", "boot", "recover"}
  BY ShapeNow, Fields DEF Labels, Replacing, CoverInv, Spares
<1>1. ~Mark(p) /\ ~Replace(p) /\ ~Insert(p)
  BY <1>0 DEF Mark, Replace, Insert, At, Replacing
<1>2. ASSUME NEW n \in Nodes, Visit(p, n) PROVE Sparing(p)
  <2>1. PICK l \in {"lookup", "head", "verdict"}, g \in {proc[p].got, "UNAVAILABLE"} :
           Moved(p, l, proc[p].job, proc[p].cur, n, g)
    BY <1>2, ShapeNow, VisitMoved
  <2> QED BY <1>0, <2>1 DEF Sparing
<1>3. CASE Visited(p)
  BY <1>0, <1>1, <1>3, FinishSpares DEF Visited
<1>4. CASE Lookup(p)
  BY <1>0, <1>1, <1>4, ShapeNow, LookupMoved DEF Sparing
<1>5. CASE Enqueue(p)
  BY <1>0, <1>1, <1>5, ShapeNow, EnqueueMoved DEF Sparing
<1>6. CASE Queue(p)
  BY <1>0, <1>1, <1>6, ShapeNow, QueueMoved DEF Sparing
<1> QED BY <1>1, <1>2, <1>3, <1>4, <1>5, <1>6 DEF Schedule

\* Decisions and startups.
LEMMA ReconcileSpares ==
  ASSUME TypeInv, CoverInv, NEW p \in Procs, Reconcile(p)
  PROVE  Sparing(p)
<1>0. /\ {"loop", "drop", "publish", "unsession", "unstage"} \subseteq Labels \ Replacing
      /\ proc[p].job # "repair"
      /\ proc[p].job \in JobKinds \union {"none", "boot", "recover"}
  BY ShapeNow, Fields DEF Labels, Replacing, CoverInv, Spares
<1>1. CASE List(p) \/ Boot(p)
  BY <1>0, <1>1, ShapeNow, ListMoved, BootMoved DEF Sparing
<1>2. CASE Inspect(p)
  BY <1>0, <1>2, GotoSpares, FinishSpares DEF Inspect
<1>3. CASE Drop(p) \/ Unstage(p) \/ Vanished(p)
  BY <1>3, FinishSpares DEF Drop, Unstage, Vanished
<1>4. CASE Publish(p) \/ Unsession(p)
  BY <1>0, <1>4, GotoSpares DEF Publish, Unsession
<1> QED BY <1>1, <1>2, <1>3, <1>4 DEF Reconcile

\* Requests.
LEMMA RequestSpares ==
  ASSUME "repair" \notin Jobs, TypeInv, NEW p \in Procs, Request(p)
  PROVE  Sparing(p) /\ \A aged \in SUBSET Nodes : ~RepairPass(p, aged)
<1>0. {"list", "next"} \subseteq Labels \ Replacing
  BY DEF Labels, Replacing
<1>1. \A aged \in SUBSET Nodes : ~RepairPass(p, aged)
  BY DEF RepairPass, Ready
<1>2. CASE Upload(p) \/ Retry(p) \/ Delete(p)
  <2>1. PICK j \in {"upload", "retry", "delete"} : Start(p, j, "list")
    BY <1>2 DEF Upload, Retry, Delete
  <2>2. Moved(p, "list", j, NoOp, NoNode, "none")
    BY <1>0, <2>1, ShapeNow, StartMoved DEF JobKinds
  <2> QED BY <1>0, <1>1, <2>2 DEF Sparing, JobKinds
<1>3. CASE Download(p) \/ Scrub(p)
  BY <1>0, <1>1, <1>3, ShapeNow, DownloadMoved, ScrubMoved DEF Sparing, JobKinds
<1> QED BY <1>1, <1>2, <1>3 DEF Request

-----------------------------------------------------------------------------
(* The rows.                                                               *)

\* A step that adds no replica, and takes away none and no DELETE operation.
SameRows ==
    /\ file' = "DELETING" => file = "DELETING"
    /\ \A n \in Nodes : replica'[n] = "NONE" <=> replica[n] = "NONE"
    /\ \A n \in Nodes : Scheduled(n) => Scheduled(n)'
    /\ \A o \in Ops : op'[o] # "NONE" => op[o] # "NONE" \/ replica[o[2]] # "NONE"

LEMMA SameCovered == ASSUME CoveredRows, SameRows PROVE CoveredRows'
<1>1. \A o \in Ops : o[2] \in Nodes
  BY DEF Ops
<1> QED BY <1>1 DEF CoveredRows, SameRows, DeletionCoversReplicas, Rows

\* Writing the status of one operation, and of its replica.
LEMMA StatusCovered ==
  ASSUME TypeInv, CoveredRows, UNCHANGED file, NEW o \in Ops, op[o] # "NONE",
         NEW s \in OpStatus \ {"NONE"}, NEW t \in ReplicaStatus \ {"NONE"},
         op' = [op EXCEPT ![o] = s], replica' = replica \/ replica' = [replica EXCEPT ![o[2]] = t]
  PROVE  CoveredRows'
<1>1. /\ op \in [Ops -> OpStatus] /\ replica \in [Nodes -> ReplicaStatus]
      /\ o[2] \in Nodes /\ \A n \in Nodes : <<"DELETE", n>> \in Ops
  BY DEF TypeInv, TypeOK, Ops, Kinds
<1>2. replica[o[2]] # "NONE"
  BY DEF CoveredRows
<1>3. SameRows
  BY <1>1, <1>2 DEF SameRows, Scheduled
<1> QED BY <1>3, SameCovered

\* A step that writes no row.
LEMMA UnwrittenCovered == ASSUME CoveredRows, UNCHANGED <<file, replica, op>> PROVE CoveredRows'
  BY SameCovered DEF SameRows, Scheduled

\* Operations write the rows they run on.
LEMMA OperateCovered ==
  ASSUME TypeInv, CoveredRows, NEW p \in Procs, Operate(p)
  PROVE  CoveredRows'
<1>0. /\ {"RUNNING", "DONE", "FAILED"} \subseteq OpStatus \ {"NONE"}
      /\ {"HEALTHY", "UNAVAILABLE"} \subseteq ReplicaStatus \ {"NONE"}
  BY DEF OpStatus, ReplicaStatus
<1>1. ASSUME NEW o \in Ops, Claim(p, o) PROVE CoveredRows'
  <2>1. /\ UNCHANGED <<file, replica>> /\ op[o] # "NONE"
        /\ op' = [op EXCEPT ![o] = "RUNNING"]
    BY <1>1 DEF Claim, Claimable
  <2> QED BY <1>0, <2>1, StatusCovered
<1>2. CASE Commit(p)
  <2>1. PICK o \in Ops : o = proc[p].cur
    BY <1>2, ShapeNow DEF Commit, At, ShapeOf, OpLabels
  <2>2. /\ UNCHANGED file /\ op[o] # "NONE" /\ op' = [op EXCEPT ![o] = "DONE"]
        /\ replica' = replica \/ replica' = [replica EXCEPT ![o[2]] = "HEALTHY"]
    BY <1>2, <2>1 DEF Commit
  <2> QED BY <1>0, <2>2, StatusCovered
<1>3. CASE Reject(p)
  <2>1. PICK o \in Ops : o = proc[p].cur
    BY <1>3, ShapeNow DEF Reject, At, ShapeOf, OpLabels
  <2>2. /\ UNCHANGED file /\ op[o] # "NONE" /\ op' = [op EXCEPT ![o] = "FAILED"]
        /\ replica' = replica \/ replica' = [replica EXCEPT ![o[2]] = "UNAVAILABLE"]
    BY <1>3, <2>1 DEF Reject
  <2> QED BY <1>0, <2>2, StatusCovered
<1>4. CASE ~Commit(p) /\ ~Reject(p) /\ ~\E o \in Ops : Claim(p, o)
  <2>1. UNCHANGED <<file, replica, op>>
    BY <1>4 DEF Operate, NotClaimed, AllRun, BeginCreate, BeginDelete, BeginRepair, Source,
       NoSource, Put, PutConflict, PutFails, Confirm, ConfirmFails, Erase, EraseFails, database
  <2> QED BY <2>1, UnwrittenCovered
<1> QED BY <1>1, <1>2, <1>3, <1>4

\* A verdict is recorded for a row there is.
LEMMA VerifyCovered ==
  ASSUME TypeInv, CoveredRows, NEW p \in Procs, Verify(p)
  PROVE  CoveredRows'
<1>1. CASE RecordVerdict(p)
  <2>1. /\ UNCHANGED <<file, op>> /\ replica \in [Nodes -> ReplicaStatus]
        /\ replica' = IF replica[proc[p].src] = "NONE" THEN replica
                      ELSE [replica EXCEPT ![proc[p].src] = StatusOf(proc[p].got)]
    BY <1>1 DEF RecordVerdict, TypeInv, TypeOK
  <2>2. StatusOf(proc[p].got) # "NONE"
    BY ShapeNow, Fields DEF StatusOf, Answers
  <2>3. SameRows
    BY <2>1, <2>2 DEF SameRows, Scheduled
  <2> QED BY <2>3, SameCovered
<1>2. CASE ~RecordVerdict(p)
  BY <1>2, UnwrittenCovered
     DEF Verify, Head, Get, ReadFails, VerdictRepair, VerdictScrub, VerdictDownload, database
<1> QED BY <1>1, <1>2

\* A repair is enqueued for a row there is.
LEMMA ScheduleCovered ==
  ASSUME TypeInv, CoveredRows, NEW p \in Procs, Schedule(p), ~Mark(p), ~Insert(p)
  PROVE  CoveredRows'
<1>1. CASE Enqueue(p)
  <2>1. PICK n : n = proc[p].src
    OBVIOUS
  <2>2. /\ UNCHANGED <<file, replica>> /\ replica[n] # "NONE"
        /\ op' = [op EXCEPT ![<<"REPAIR", n>>] = "PENDING"]
        /\ op \in [Ops -> OpStatus] /\ \A m \in Nodes : <<"DELETE", m>> \in Ops
    BY <1>1, <2>1 DEF Enqueue, TypeInv, TypeOK, Ops, Kinds
  <2>3. SameRows
    BY <2>2 DEF SameRows, Scheduled
  <2> QED BY <2>3, SameCovered
<1>2. CASE ~Enqueue(p)
  BY <1>2, UnwrittenCovered DEF Schedule, Visit, Visited, Lookup, Replace, Queue, database
<1> QED BY <1>1, <1>2

\* Dropping the rows of a file drops its operations.
LEMMA ReconcileCovered ==
  ASSUME TypeInv, CoveredRows, NEW p \in Procs, Reconcile(p)
  PROVE  CoveredRows'
<1>0. \A o \in Ops : o[2] \in Nodes
  BY DEF Ops
<1>1. CASE Drop(p)
  BY <1>0, <1>1 DEF Drop, CoveredRows, DeletionCoversReplicas
<1>2. CASE Publish(p)
  BY <1>2 DEF Publish, CoveredRows, DeletionCoversReplicas
<1>3. CASE Boot(p)
  <2>1. \A o \in Ops : (op'[o] = "NONE") <=> (op[o] = "NONE")
    BY <1>3 DEF Boot, Recovered
  <2>2. \A n \in Nodes : <<"DELETE", n>> \in Ops
    BY DEF Ops, Kinds
  <2> QED BY <1>3, <2>1, <2>2, SameCovered DEF Boot, SameRows, Scheduled
<1>4. CASE List(p) \/ Inspect(p) \/ Unsession(p) \/ Unstage(p) \/ Vanished(p)
  BY <1>4, UnwrittenCovered DEF List, Inspect, Unsession, Unstage, Vanished, database
<1> QED BY <1>1, <1>2, <1>3, <1>4 DEF Reconcile

\* A deletion schedules every row it finds.
LEMMA RequestCovered ==
  ASSUME TypeInv, CoveredRows, NEW p \in Procs, Request(p),
         \A aged \in SUBSET Nodes : ~RepairPass(p, aged)
  PROVE  CoveredRows'
<1>0. \A n \in Nodes : <<"DELETE", n>> \in Ops
  BY DEF Ops, Kinds
<1>1. CASE Upload(p)
  <2>1. PICK a \in Live, b \in Live :
           /\ replica' = [n \in Nodes |-> IF n \in {a, b} THEN "PENDING" ELSE "NONE"]
           /\ op' = [o \in Ops |-> IF o \in {"CREATE"} \X {a, b} THEN "PENDING" ELSE "NONE"]
    BY <1>1 DEF Upload
  <2>2. file' = "PENDING" /\ a \in Nodes /\ b \in Nodes
    BY <1>1 DEF Upload, Live
  <2> QED BY <2>1, <2>2 DEF CoveredRows, DeletionCoversReplicas
<1>2. CASE Delete(p)
  <2>1. /\ replica' = [n \in Nodes |-> IF n \in Rows THEN "DELETE_PENDING" ELSE "NONE"]
        /\ op' = [o \in Ops |-> IF o \in {"DELETE"} \X Rows THEN "PENDING" ELSE op[o]]
    BY <1>2 DEF Delete
  <2>2. Rows' = Rows
    BY <2>1 DEF Rows
  <2>3. \A o \in Ops : op'[o] # "NONE" => replica'[o[2]] # "NONE"
    <3> SUFFICES ASSUME NEW o \in Ops, op'[o] # "NONE" PROVE replica'[o[2]] # "NONE"
      OBVIOUS
    <3>1. o[2] \in Rows
      BY <2>1 DEF CoveredRows, Rows, Ops
    <3> QED BY <2>1, <3>1 DEF Rows
  <2>4. \A n \in Rows : Scheduled(n)'
    BY <1>0, <2>1 DEF Scheduled, Rows
  <2> QED BY <2>2, <2>3, <2>4 DEF CoveredRows, DeletionCoversReplicas
<1>3. CASE Retry(p) \/ Download(p) \/ Scrub(p)
  BY <1>3, UnwrittenCovered DEF Retry, Download, Scrub, database
<1> QED BY <1>1, <1>2, <1>3 DEF Request

-----------------------------------------------------------------------------
\* Every step keeps the invariant.
LEMMA NextCover ==
  ASSUME "repair" \notin Jobs, TypeInv, CoverInv, [Next]_vars
  PROVE  CoverInv'
<1>1. CASE UNCHANGED <<file, replica, op, proc>>
  BY <1>1, UnwrittenCovered DEF CoverInv
<1>2. CASE \E p \in Procs : Crash(p)
  <2>1. PICK p \in Procs : Crash(p)
    BY <1>2
  <2>2. \A q \in Procs : /\ proc'[q].pc \in {"idle", "boot"}
                         /\ proc'[q].job \in {"none", "boot"}
    <3> DEFINE s == [Idle EXCEPT !.pc = "boot", !.job = "boot"]
    <3>1. s.pc = "boot" /\ s.job = "boot"
      BY DEF Idle
    <3>2. proc' = [[q \in Procs |-> Idle] EXCEPT ![p] = s]
      BY <2>1 DEF Crash
    <3> HIDE DEF s
    <3> QED BY <3>1, <3>2, IdleType
  <2>3. CoveredRows'
    BY <2>1, UnwrittenCovered DEF Crash, database, CoverInv
  <2> QED BY <2>2, <2>3 DEF CoverInv, Spares, Replacing
<1>3. CASE \/ \E n \in Nodes : NodeDown(n) \/ NodeUp(n) \/ Damage(n)
           \/ \E o \in Ops : LatePut(o)
  BY <1>1, <1>3 DEF NodeDown, NodeUp, Damage, LatePut, database
<1>4. ASSUME NEW p \in Procs, Request(p) \/ Advance(p) PROVE CoverInv'
  <2>1. CoveredRows'
    BY <1>4, RequestSpares, ScheduleSpares, RequestCovered, OperateCovered, VerifyCovered,
       ScheduleCovered, ReconcileCovered DEF Advance, CoverInv
  <2>2. Sparing(p)
    BY <1>4, RequestSpares, ScheduleSpares, OperateSpares, VerifySpares, ReconcileSpares
       DEF Advance
  <2>3. \A q \in Procs : Spares(proc[q].pc, proc[q].job)'
    BY <2>2 DEF Sparing, Moved, CoverInv, Spares
  <2> QED BY <2>1, <2>3 DEF CoverInv
<1> QED BY <1>1, <1>2, <1>3, <1>4 DEF Next, Environment, vars

\* DeletionCoversReplicas: without the repair timer, every replica of a file that
\* is being deleted has its DELETE operation, whatever else writes its rows. It
\* is createReplacement alone that breaks it (run LateReplica).
THEOREM CoverCorrect ==
  ASSUME "repair" \notin Jobs
  PROVE  Spec => []DeletionCoversReplicas
<1>1. Init => TypeInv /\ CoverInv
  <2> SUFFICES ASSUME Init PROVE CoverInv
    BY InitType
  <2>1. \A p \in Procs : proc[p].pc = "idle" /\ proc[p].job = "none"
    BY IdleType DEF Init
  <2> QED BY <2>1 DEF Init, CoverInv, CoveredRows, DeletionCoversReplicas, Spares, Replacing
<1>2. TypeInv /\ CoverInv /\ [Next]_vars => (TypeInv /\ CoverInv)'
  BY NextType, NextCover
<1>3. CoverInv => DeletionCoversReplicas
  BY DEF CoverInv, CoveredRows
<1> QED BY <1>1, <1>2, <1>3, PTL DEF Spec
=============================================================================
