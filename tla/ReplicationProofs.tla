-------------------------- MODULE ReplicationProofs --------------------------
(***************************************************************************)
(* What holds in Replication for every set of nodes, of concurrent jobs    *)
(* and of faults: its types, who runs an operation, and what downloads     *)
(* serve. PublicationProofs builds on it.                                  *)
(***************************************************************************)
EXTENDS Replication, TLAPS

-----------------------------------------------------------------------------
(***************************************************************************)
(* Type correctness of Replication, for every set of nodes, of concurrent  *)
(* jobs and of faults. DataOK is TypeOK without the records of the jobs;   *)
(* Moved says what one step does to the record of its job, so that no      *)
(* proof below has to look at the nine fields of that record again. The    *)
(* invariant is TypeOK with Shape: what a job's label says of its record.  *)
(***************************************************************************)

\* Labels at which a job runs an operation, reads a replica, or visits one.
OpLabels == {"begin", "put", "confirm", "commit", "reject", "erase", "source"}
ReadLabels == {"head", "get", "verdict"}
VisitLabels == {"next", "lookup", "enqueue"}

\* What the label l of a job says about its kind j, the operation o it runs
\* and the answer g it was given.
ShapeOf(l, j, o, g) ==
    /\ l \in OpLabels => o \in Ops
    /\ l \notin OpLabels \union ReadLabels => o = NoOp
    /\ j \in {"download", "scrub"} => o = NoOp /\ l \in VisitLabels \union ReadLabels
    /\ l = "verdict" => g # "none"
    /\ l = "erase" => o \in OpsOf("DELETE")
    /\ l = "boot" => j = "boot"

Shape(p) == ShapeOf(proc[p].pc, proc[p].job, proc[p].cur, proc[p].got)

TypeInv == TypeOK /\ \A p \in Procs : Shape(p)

\* TypeOK without the records of the jobs.
DataOK ==
    /\ file \in FileStatus
    /\ session \in BOOLEAN
    /\ staging \in BOOLEAN
    /\ replica \in [Nodes -> ReplicaStatus]
    /\ op \in [Ops -> OpStatus]
    /\ node \in [Nodes -> {"HEALTHY", "UNAVAILABLE"}]
    /\ object \in [Nodes -> ObjectStatus]
    /\ late \subseteq Ops
    /\ served \subseteq {"good", "bad"}
    /\ faults \in 0..MaxFaults

\* A step of p that leaves its record with these fields.
Moved(p, l, j, o, n, g) ==
  /\ proc' \in [Procs -> ProcState]
  /\ \A q \in Procs : q # p => proc'[q] = proc[q]
  /\ proc'[p].pc = l /\ proc'[p].job = j /\ proc'[p].cur = o /\ proc'[p].src = n /\ proc'[p].got = g

\* TypeOK is DataOK and the type of the job records.
LEMMA Split == TypeOK <=> DataOK /\ proc \in [Procs -> ProcState]
  BY DEF TypeOK, DataOK

\* Replacing the record of p by s.
LEMMA StepMoved ==
  ASSUME proc \in [Procs -> ProcState], NEW p \in Procs, NEW s \in ProcState, Step(p, s)
  PROVE  Moved(p, s.pc, s.job, s.cur, s.src, s.got)
  BY DEF Step, Moved

\* The fields of a job record.
LEMMA Fields == ASSUME NEW s \in ProcState
  PROVE /\ s.pc \in Labels /\ s.job \in JobKinds \union {"none", "boot", "recover"}
        /\ s.todo \subseteq Ops /\ s.cur \in Ops \union {NoOp} /\ s.src \in Nodes \union {NoNode}
        /\ s.got \in Answers
  BY DEF ProcState

\* Moving on to another label.
LEMMA GotoMoved ==
  ASSUME proc \in [Procs -> ProcState], NEW p \in Procs, NEW l \in Labels, Goto(p, l)
  PROVE  Moved(p, l, proc[p].job, proc[p].cur, proc[p].src, proc[p].got)
<1> DEFINE s == [proc[p] EXCEPT !.pc = l]
<1>1. /\ s \in ProcState
      /\ s.pc = l /\ s.job = proc[p].job /\ s.cur = proc[p].cur /\ s.src = proc[p].src /\ s.got = proc[p].got
  BY DEF ProcState
<1>2. Step(p, s)
  BY DEF Goto
<1> HIDE DEF s
<1> QED BY <1>1, <1>2, StepMoved

\* The record of a free process.
LEMMA IdleType == /\ Idle \in ProcState 
   /\ Idle.pc = "idle" /\ Idle.job = "none" /\ Idle.cur = NoOp /\ Idle.src = NoNode /\ Idle.got = "none" 
  BY DEF Idle, ProcState, Labels, Answers

\* Ending a job.
LEMMA FinishMoved ==
  ASSUME proc \in [Procs -> ProcState], NEW p \in Procs, Finish(p)
  PROVE  Moved(p, "idle", "none", NoOp, NoNode, "none")
  BY IdleType, StepMoved DEF Finish

\* Starting a job.
LEMMA StartMoved ==
  ASSUME proc \in [Procs -> ProcState], NEW p \in Procs, NEW j \in JobKinds \union {"recover"}, NEW l \in Labels, Start(p, j, l)
  PROVE  Moved(p, l, j, NoOp, NoNode, "none")
<1> DEFINE s == [Idle EXCEPT !.pc = l, !.job = j]
<1>1. /\ s \in ProcState
      /\ s.pc = l /\ s.job = j /\ s.cur = NoOp /\ s.src = NoNode /\ s.got = "none"
  BY IdleType DEF ProcState, Idle, Answers
<1>2. Step(p, s)
  BY DEF Start
<1> HIDE DEF s
<1> QED BY <1>1, <1>2, StepMoved

\* What Download makes of the record of its job.
LEMMA DownloadMoved ==
  ASSUME TypeOK, NEW p \in Procs, Download(p)
  PROVE  Moved(p, "next", "download", NoOp, NoNode, "none")
<1> DEFINE s == [Idle EXCEPT !.pc = "next", !.job = "download", !.visit = Healthy \intersect Live]
<1>1. /\ proc \in [Procs -> ProcState]
      /\ proc[p] \in ProcState
      /\ "next" \in Labels
      /\ Healthy \in SUBSET Nodes
  BY Split, IdleType DEF Labels, Answers, Healthy
<1>2. /\ s \in ProcState
      /\ s.pc = "next" /\ s.job = "download" /\ s.cur = NoOp
      /\ s.src = NoNode /\ s.got = "none"
  BY <1>1, IdleType DEF ProcState, JobKinds
<1>3. Step(p, s)
  BY DEF Download
<1> HIDE DEF s
<1> QED BY <1>1, <1>2, <1>3, StepMoved DEF Moved

\* What Scrub makes of the record of its job.
LEMMA ScrubMoved ==
  ASSUME TypeOK, NEW p \in Procs, Scrub(p)
  PROVE  Moved(p, "next", "scrub", NoOp, NoNode, "none")
<1> DEFINE s == [Idle EXCEPT !.pc = "next", !.job = "scrub", !.visit = Healthy, !.down = Healthy \ Live]
<1>1. /\ proc \in [Procs -> ProcState]
      /\ proc[p] \in ProcState
      /\ "next" \in Labels
      /\ Healthy \in SUBSET Nodes
  BY Split, IdleType DEF Labels, Answers, Healthy
<1>2. /\ s \in ProcState
      /\ s.pc = "next" /\ s.job = "scrub" /\ s.cur = NoOp
      /\ s.src = NoNode /\ s.got = "none"
  BY <1>1, IdleType DEF ProcState, JobKinds
<1>3. Step(p, s)
  BY DEF Scrub
<1> HIDE DEF s
<1> QED BY <1>1, <1>2, <1>3, StepMoved DEF Moved

\* What List makes of the record of its job.
LEMMA ListMoved ==
  ASSUME TypeOK, NEW p \in Procs, List(p)
  PROVE  Moved(p, "loop", proc[p].job, proc[p].cur, proc[p].src, proc[p].got)
<1> DEFINE s == [proc[p] EXCEPT !.pc = "loop", !.todo = {o \in Ops : op[o] \notin {"NONE", "DONE"}}]
<1>1. /\ proc \in [Procs -> ProcState]
      /\ proc[p] \in ProcState
      /\ "loop" \in Labels
  BY Split, IdleType DEF Labels, Answers
<1>2. /\ s \in ProcState
      /\ s.pc = "loop" /\ s.job = proc[p].job /\ s.cur = proc[p].cur
      /\ s.src = proc[p].src /\ s.got = proc[p].got
  BY <1>1, IdleType DEF ProcState, JobKinds
<1>3. Step(p, s)
  BY DEF List
<1> HIDE DEF s
<1> QED BY <1>1, <1>2, <1>3, StepMoved DEF Moved

\* What Claim makes of the record of its job.
LEMMA ClaimMoved ==
  ASSUME TypeOK, NEW p \in Procs, NEW o \in Ops, Claim(p, o)
  PROVE  Moved(p, "begin", proc[p].job, o, proc[p].src, proc[p].got)
<1> DEFINE s == [proc[p] EXCEPT !.pc = "begin", !.cur = o, !.todo = @ \ {o}]
<1>1. /\ proc \in [Procs -> ProcState]
      /\ proc[p] \in ProcState
      /\ "begin" \in Labels
  BY Split, IdleType DEF Labels, Answers
<1>2. /\ s \in ProcState
      /\ s.pc = "begin" /\ s.job = proc[p].job /\ s.cur = o
      /\ s.src = proc[p].src /\ s.got = proc[p].got
  BY <1>1, IdleType DEF ProcState, JobKinds
<1>3. Step(p, s)
  BY DEF Claim
<1> HIDE DEF s
<1> QED BY <1>1, <1>2, <1>3, StepMoved DEF Moved

\* What NotClaimed makes of the record of its job.
LEMMA NotClaimedMoved ==
  ASSUME TypeOK, NEW p \in Procs, NEW o \in Ops, NotClaimed(p, o)
  PROVE  Moved(p, proc[p].pc, proc[p].job, proc[p].cur, proc[p].src, proc[p].got)
<1> DEFINE s == [proc[p] EXCEPT !.todo = @ \ {o}]
<1>1. proc \in [Procs -> ProcState] /\ proc[p] \in ProcState
  BY Split, IdleType DEF Labels, Answers
<1>2. /\ s \in ProcState
      /\ s.pc = proc[p].pc /\ s.job = proc[p].job /\ s.cur = proc[p].cur
      /\ s.src = proc[p].src /\ s.got = proc[p].got
  BY <1>1, IdleType DEF ProcState, JobKinds
<1>3. Step(p, s)
  BY DEF NotClaimed
<1> HIDE DEF s
<1> QED BY <1>1, <1>2, <1>3, StepMoved DEF Moved

\* What Source makes of the record of its job.
LEMMA SourceMoved ==
  ASSUME TypeOK, NEW p \in Procs, NEW n \in Nodes, Source(p, n)
  PROVE  Moved(p, "head", proc[p].job, proc[p].cur, n, proc[p].got)
<1> DEFINE s == [proc[p] EXCEPT !.pc = "head", !.src = n]
<1>1. /\ proc \in [Procs -> ProcState]
      /\ proc[p] \in ProcState
      /\ "head" \in Labels
  BY Split, IdleType DEF Labels, Answers
<1>2. /\ s \in ProcState
      /\ s.pc = "head" /\ s.job = proc[p].job /\ s.cur = proc[p].cur
      /\ s.src = n /\ s.got = proc[p].got
  BY <1>1, IdleType DEF ProcState, JobKinds
<1>3. Step(p, s)
  BY DEF Source
<1> HIDE DEF s
<1> QED BY <1>1, <1>2, <1>3, StepMoved DEF Moved

\* What Get makes of the record of its job.
LEMMA GetMoved ==
  ASSUME TypeOK, NEW p \in Procs, Get(p)
  PROVE  \E g \in Answers \ {"none"} :
            /\ g = "good" => object[proc[p].src] = "good"
            /\ Moved(p, "verdict", proc[p].job, proc[p].cur, proc[p].src, g)
<1> DEFINE s == [proc[p] EXCEPT !.pc = "verdict",
                 !.got = IF object[proc[p].src] \in {"good", "bad"} THEN object[proc[p].src] ELSE "UNAVAILABLE"]
<1>1. /\ proc \in [Procs -> ProcState]
      /\ proc[p] \in ProcState
      /\ "verdict" \in Labels
      /\ {"good", "bad", "UNAVAILABLE"} \subseteq Answers
  BY Split, IdleType DEF Labels, Answers
<1>2. /\ s \in ProcState
      /\ s.pc = "verdict" /\ s.job = proc[p].job /\ s.cur = proc[p].cur
      /\ s.src = proc[p].src /\ s.got = IF object[proc[p].src] \in {"good", "bad"} THEN object[proc[p].src] ELSE "UNAVAILABLE"
  BY <1>1, IdleType DEF ProcState, JobKinds
<1>3. Step(p, s)
  BY DEF Get
<1> HIDE DEF s
<1> QED BY <1>1, <1>2, <1>3, StepMoved DEF Moved

\* What ReadFails makes of the record of its job.
LEMMA ReadFailsMoved ==
  ASSUME TypeOK, NEW p \in Procs, ReadFails(p)
  PROVE  Moved(p, "verdict", proc[p].job, proc[p].cur, proc[p].src, "UNAVAILABLE")
<1> DEFINE s == [proc[p] EXCEPT !.pc = "verdict", !.got = "UNAVAILABLE"]
<1>1. /\ proc \in [Procs -> ProcState]
      /\ proc[p] \in ProcState
      /\ "verdict" \in Labels
      /\ "UNAVAILABLE" \in Answers
  BY Split, IdleType DEF Labels, Answers
<1>2. /\ s \in ProcState
      /\ s.pc = "verdict" /\ s.job = proc[p].job /\ s.cur = proc[p].cur
      /\ s.src = proc[p].src /\ s.got = "UNAVAILABLE"
  BY <1>1, IdleType DEF ProcState, JobKinds
<1>3. Step(p, s)
  BY DEF ReadFails
<1> HIDE DEF s
<1> QED BY <1>1, <1>2, <1>3, StepMoved DEF Moved

\* What NextOp makes of the record of its job.
LEMMA NextOpMoved ==
  ASSUME TypeOK, NEW p \in Procs, NextOp(p)
  PROVE  Moved(p, "loop", proc[p].job, NoOp, NoNode, "none")
<1> DEFINE s == [proc[p] EXCEPT !.pc = "loop", !.cur = NoOp, !.src = NoNode, !.got = "none"]
<1>1. /\ proc \in [Procs -> ProcState]
      /\ proc[p] \in ProcState
      /\ "loop" \in Labels
      /\ "none" \in Answers
  BY Split, IdleType DEF Labels, Answers
<1>2. /\ s \in ProcState
      /\ s.pc = "loop" /\ s.job = proc[p].job /\ s.cur = NoOp
      /\ s.src = NoNode /\ s.got = "none"
  BY <1>1, IdleType DEF ProcState, JobKinds
<1>3. Step(p, s)
  BY DEF NextOp
<1> HIDE DEF s
<1> QED BY <1>1, <1>2, <1>3, StepMoved DEF Moved

\* What VerdictRepair makes of the record of its job.
LEMMA VerdictRepairMoved ==
  ASSUME TypeOK, NEW p \in Procs, VerdictRepair(p)
  PROVE  Moved(p, IF Passes(p) THEN "put" ELSE "reject", proc[p].job, proc[p].cur, NoNode, "none")
<1> DEFINE l == IF Passes(p) THEN "put" ELSE "reject"
<1> DEFINE s == [proc[p] EXCEPT !.pc = l, !.src = NoNode, !.got = "none"]
<1>1. /\ proc \in [Procs -> ProcState]
      /\ proc[p] \in ProcState
      /\ l \in Labels
      /\ "none" \in Answers
  BY Split, IdleType DEF Labels, Answers
<1> HIDE DEF l
<1>2. /\ s \in ProcState
      /\ s.pc = l /\ s.job = proc[p].job /\ s.cur = proc[p].cur
      /\ s.src = NoNode /\ s.got = "none"
  BY <1>1, IdleType DEF ProcState, JobKinds
<1>3. Step(p, s)
  BY DEF VerdictRepair, l
<1> HIDE DEF s
<1> QED BY <1>1, <1>2, <1>3, StepMoved DEF Moved, l

\* What VerdictScrub makes of the record of its job.
LEMMA VerdictScrubMoved ==
  ASSUME TypeOK, NEW p \in Procs, VerdictScrub(p)
  PROVE  \E l \in {"next", "lookup"}, n \in Nodes \union {NoNode} :
            Moved(p, l, proc[p].job, proc[p].cur, n, "none")
<1> DEFINE l == IF Passes(p) THEN "next" ELSE "lookup"
<1> DEFINE n == IF Passes(p) THEN NoNode ELSE proc[p].src
<1> DEFINE s == [proc[p] EXCEPT !.pc = l, !.src = n, !.got = "none"]
<1>0. proc[p].src \in Nodes \union {NoNode}
  BY Split, Fields
<1>1. /\ proc \in [Procs -> ProcState]
      /\ proc[p] \in ProcState
      /\ l \in {"next", "lookup"}
      /\ l \in Labels
      /\ n \in Nodes \union {NoNode}
      /\ "none" \in Answers
  BY Split, IdleType, <1>0 DEF Labels, Answers
<1> HIDE DEF l, n
<1>2. /\ s \in ProcState
      /\ s.pc = l /\ s.job = proc[p].job /\ s.cur = proc[p].cur
      /\ s.src = n /\ s.got = "none"
  BY <1>1, IdleType DEF ProcState, JobKinds
<1>3. Step(p, s)
  BY DEF VerdictScrub, l, n
<1> HIDE DEF s
<1> QED BY <1>1, <1>2, <1>3, StepMoved DEF Moved

\* What Lookup makes of the record of its job.
LEMMA LookupMoved ==
  ASSUME TypeOK, NEW p \in Procs, Lookup(p)
  PROVE  \E l \in {"next", "enqueue"}, n \in Nodes \union {NoNode} :
            Moved(p, l, proc[p].job, proc[p].cur, n, proc[p].got)
<1> DEFINE repairable == file = "AVAILABLE" /\ Repairable(proc[p].src)
<1> DEFINE l == IF repairable THEN "enqueue" ELSE "next"
<1> DEFINE n == IF repairable THEN proc[p].src ELSE NoNode
<1> DEFINE s == [proc[p] EXCEPT !.pc = l, !.src = n]
<1>0. proc[p].src \in Nodes \union {NoNode}
  BY Split, Fields
<1>1. /\ proc \in [Procs -> ProcState]
      /\ proc[p] \in ProcState
      /\ l \in {"next", "enqueue"}
      /\ l \in Labels
      /\ n \in Nodes \union {NoNode}
  BY Split, IdleType, <1>0 DEF Labels, Answers
<1> HIDE DEF repairable, l, n
<1>2. /\ s \in ProcState
      /\ s.pc = l /\ s.job = proc[p].job /\ s.cur = proc[p].cur
      /\ s.src = n /\ s.got = proc[p].got
  BY <1>1, IdleType DEF ProcState, JobKinds
<1>3. Step(p, s)
  BY DEF Lookup, repairable, l, n
<1> HIDE DEF s
<1> QED BY <1>1, <1>2, <1>3, StepMoved DEF Moved

\* What Enqueue makes of the record of its job.
LEMMA EnqueueMoved ==
  ASSUME TypeOK, NEW p \in Procs, Enqueue(p)
  PROVE  Moved(p, "next", proc[p].job, proc[p].cur, NoNode, proc[p].got)
<1> DEFINE s == [proc[p] EXCEPT !.pc = "next", !.src = NoNode, !.need = FALSE]
<1>1. /\ proc \in [Procs -> ProcState]
      /\ proc[p] \in ProcState
      /\ "next" \in Labels
  BY Split, IdleType DEF Labels, Answers
<1>2. /\ s \in ProcState
      /\ s.pc = "next" /\ s.job = proc[p].job /\ s.cur = proc[p].cur
      /\ s.src = NoNode /\ s.got = proc[p].got
  BY <1>1, IdleType DEF ProcState, JobKinds
<1>3. Step(p, s)
  BY DEF Enqueue
<1> HIDE DEF s
<1> QED BY <1>1, <1>2, <1>3, StepMoved DEF Moved

\* What Insert makes of the record of its job.
LEMMA InsertMoved ==
  ASSUME TypeOK, NEW p \in Procs, Insert(p)
  PROVE  Moved(p, "queue", proc[p].job, proc[p].cur, NoNode, proc[p].got)
<1> DEFINE s == [proc[p] EXCEPT !.pc = "queue", !.src = NoNode]
<1>1. /\ proc \in [Procs -> ProcState]
      /\ proc[p] \in ProcState
      /\ "queue" \in Labels
  BY Split, IdleType DEF Labels, Answers
<1>2. /\ s \in ProcState
      /\ s.pc = "queue" /\ s.job = proc[p].job /\ s.cur = proc[p].cur
      /\ s.src = NoNode /\ s.got = proc[p].got
  BY <1>1, IdleType DEF ProcState, JobKinds
<1>3. Step(p, s)
  BY DEF Insert
<1> HIDE DEF s
<1> QED BY <1>1, <1>2, <1>3, StepMoved DEF Moved

\* What Queue makes of the record of its job.
LEMMA QueueMoved ==
  ASSUME TypeOK, NEW p \in Procs, Queue(p)
  PROVE  Moved(p, "loop", proc[p].job, proc[p].cur, proc[p].src, proc[p].got)
<1> DEFINE s == [proc[p] EXCEPT !.pc = "loop", !.todo = PendingRepairs]
<1>1. /\ proc \in [Procs -> ProcState]
      /\ proc[p] \in ProcState
      /\ "loop" \in Labels
      /\ PendingRepairs \in SUBSET Ops
  BY Split, IdleType DEF Labels, PendingRepairs, OpsOf, Ops, Kinds
<1>2. /\ s \in ProcState
      /\ s.pc = "loop" /\ s.job = proc[p].job /\ s.cur = proc[p].cur
      /\ s.src = proc[p].src /\ s.got = proc[p].got
  BY <1>1, IdleType DEF ProcState, JobKinds
<1>3. Step(p, s)
  BY DEF Queue
<1> HIDE DEF s
<1> QED BY <1>1, <1>2, <1>3, StepMoved DEF Moved

\* What Boot makes of the record of its job.
LEMMA BootMoved ==
  ASSUME TypeOK, NEW p \in Procs, Boot(p)
  PROVE  Moved(p, "loop", proc[p].job, proc[p].cur, proc[p].src, proc[p].got)
<1> DEFINE s == [proc[p] EXCEPT !.pc = "loop",
                 !.todo = {o \in OpsOf("REPAIR") : Recovered(o) = "PENDING"}]
<1>1. /\ proc \in [Procs -> ProcState]
      /\ proc[p] \in ProcState
      /\ "loop" \in Labels
      /\ {o \in OpsOf("REPAIR") : Recovered(o) = "PENDING"} \in SUBSET Ops
  BY Split, IdleType DEF Labels, PendingRepairs, OpsOf, Ops, Kinds
<1>2. /\ s \in ProcState
      /\ s.pc = "loop" /\ s.job = proc[p].job /\ s.cur = proc[p].cur
      /\ s.src = proc[p].src /\ s.got = proc[p].got
  BY <1>1, IdleType DEF ProcState, JobKinds
<1>3. Step(p, s)
  BY DEF Boot
<1> HIDE DEF s
<1> QED BY <1>1, <1>2, <1>3, StepMoved DEF Moved

\* What RepairPass makes of the record of its job.
LEMMA RepairPassMoved ==
  ASSUME TypeOK, NEW p \in Procs, NEW aged \in SUBSET Nodes, RepairPass(p, aged)
  PROVE  \E l \in {"mark", "queue"} :
            /\ l = "mark" => file = "AVAILABLE"
            /\ Moved(p, l, "repair", NoOp, NoNode, "none")
<1> DEFINE selected == file = "AVAILABLE" /\ (Rows \ Healthy) \union (Rows \ Live) # {}
<1> DEFINE short == ~AtLeastTwo(Healthy \intersect Live)
<1> DEFINE due == {n \in Rows \intersect Live :
                  \/ replica[n] \in {"MISSING", "CORRUPT", "PENDING"}
                  \/ replica[n] = "UNAVAILABLE" /\ n \in aged}
<1> DEFINE l == IF selected THEN "mark" ELSE "queue"
<1> DEFINE d == IF selected THEN (Healthy \ Live) \intersect aged ELSE {}
<1> DEFINE v == IF selected /\ short THEN due ELSE {}
<1> DEFINE b == selected /\ short
<1> DEFINE s == [Idle EXCEPT !.pc = l, !.job = "repair", !.down = d, !.visit = v, !.need = b]
<1>1. /\ proc \in [Procs -> ProcState]
      /\ proc[p] \in ProcState
      /\ l \in {"mark", "queue"}
      /\ l \in Labels
      /\ d \in SUBSET Nodes
      /\ v \in SUBSET Nodes
      /\ b \in BOOLEAN
      /\ l = "mark" => file = "AVAILABLE"
  BY Split, IdleType DEF Labels, Healthy, Rows
<1> HIDE DEF selected, short, due, l, d, v, b
<1>2. /\ s \in ProcState
      /\ s.pc = l /\ s.job = "repair" /\ s.cur = NoOp
      /\ s.src = NoNode /\ s.got = "none"
  BY <1>1, IdleType DEF ProcState, JobKinds
<1>3. Step(p, s)
  BY DEF RepairPass, selected, short, due, l, d, v, b
<1> HIDE DEF s
<1> QED BY <1>1, <1>2, <1>3, StepMoved DEF Moved

\* What Head makes of the record of its job.
LEMMA HeadMoved ==
  ASSUME TypeOK, NEW p \in Procs, Head(p)
  PROVE  \/ Moved(p, "get", proc[p].job, proc[p].cur, proc[p].src, proc[p].got)
         \/ \E g \in {"MISSING", "CORRUPT"} :
               Moved(p, "verdict", proc[p].job, proc[p].cur, proc[p].src, g)
<1>1. /\ proc \in [Procs -> ProcState] /\ proc[p] \in ProcState
      /\ "get" \in Labels /\ "verdict" \in Labels
      /\ "CORRUPT" \in Answers /\ "MISSING" \in Answers
  BY Split DEF Labels, Answers
<1>2. CASE Goto(p, "get")
  BY <1>1, <1>2, GotoMoved
<1>3. ASSUME NEW g \in {"MISSING", "CORRUPT"},
             Step(p, [proc[p] EXCEPT !.pc = "verdict", !.got = g])
      PROVE  Moved(p, "verdict", proc[p].job, proc[p].cur, proc[p].src, g)
  <2> DEFINE s == [proc[p] EXCEPT !.pc = "verdict", !.got = g]
  <2>1. /\ s \in ProcState
        /\ s.pc = "verdict" /\ s.job = proc[p].job /\ s.cur = proc[p].cur
        /\ s.src = proc[p].src /\ s.got = g
    BY <1>1 DEF ProcState
  <2>2. Step(p, s)
    BY <1>3
  <2> HIDE DEF s
  <2> QED BY <1>1, <2>1, <2>2, StepMoved DEF Moved
<1> QED BY <1>2, <1>3 DEF Head

\* What Visit makes of the record of its job.
LEMMA VisitMoved ==
  ASSUME TypeOK, NEW p \in Procs, NEW n \in Nodes, Visit(p, n)
  PROVE  \E l \in {"lookup", "head", "verdict"}, g \in {proc[p].got, "UNAVAILABLE"} :
            /\ l = "verdict" => g = "UNAVAILABLE"
            /\ l # "lookup" => proc[p].job # "repair"
            /\ Moved(p, l, proc[p].job, proc[p].cur, n, g)
<1>1. PICK l \in {"lookup", "head", "verdict"}, g \in {proc[p].got, "UNAVAILABLE"} :
         /\ l = "verdict" => g = "UNAVAILABLE"
         /\ l # "lookup" => proc[p].job # "repair"
         /\ Step(p, [proc[p] EXCEPT !.pc = l, !.src = n, !.visit = @ \ {n}, !.got = g])
  <2> DEFINE s(l, g) == [proc[p] EXCEPT !.pc = l, !.src = n, !.visit = @ \ {n}, !.got = g]
  <2>1. [proc[p] EXCEPT !.pc = "lookup", !.src = n, !.visit = @ \ {n}] = s("lookup", proc[p].got)
    BY DEF TypeOK, ProcState
  <2>2. [proc[p] EXCEPT !.pc = "head", !.src = n, !.visit = @ \ {n}] = s("head", proc[p].got)
    BY DEF TypeOK, ProcState
  <2> HIDE DEF s
  <2>3. CASE Step(p, s("lookup", proc[p].got))
    BY <2>3 DEF s
  <2>4. CASE Step(p, s("head", proc[p].got)) /\ proc[p].job # "repair"
    BY <2>4 DEF s
  <2>5. CASE Step(p, s("verdict", "UNAVAILABLE")) /\ proc[p].job # "repair"
    BY <2>5 DEF s
  <2>6. \/ Step(p, s("lookup", proc[p].got))
        \/ Step(p, s("head", proc[p].got)) /\ proc[p].job # "repair"
        \/ Step(p, s("verdict", "UNAVAILABLE")) /\ proc[p].job # "repair"
    BY <2>1, <2>2 DEF Visit, s
  <2> QED BY <2>3, <2>4, <2>5, <2>6
<1> DEFINE s == [proc[p] EXCEPT !.pc = l, !.src = n, !.visit = @ \ {n}, !.got = g]
<1>2. proc[p].got \in Answers
  BY Split, Fields
<1>3. /\ proc \in [Procs -> ProcState] /\ proc[p] \in ProcState
      /\ l \in Labels /\ g \in Answers
  BY Split, <1>2 DEF Labels, Answers
<1>4. /\ s \in ProcState
      /\ s.pc = l /\ s.job = proc[p].job /\ s.cur = proc[p].cur
      /\ s.src = n /\ s.got = g
  BY <1>3 DEF ProcState
<1>5. Step(p, s)
  BY <1>1
<1> HIDE DEF s
<1> QED BY <1>1, <1>3, <1>4, <1>5, StepMoved DEF Moved

\* What Mark makes of the record of its job.
LEMMA MarkMoved ==
  ASSUME TypeOK, NEW p \in Procs, Mark(p)
  PROVE  \E l \in {"mark", "next"} :
            Moved(p, l, proc[p].job, proc[p].cur, proc[p].src, proc[p].got)
<1>1. /\ proc \in [Procs -> ProcState] /\ proc[p] \in ProcState
      /\ "next" \in Labels
  BY Split DEF Labels
<1>2. CASE Goto(p, "next")
  BY <1>1, <1>2, GotoMoved
<1>3. ASSUME NEW n \in proc[p].down, Step(p, [proc[p] EXCEPT !.down = @ \ {n}])
      PROVE  Moved(p, "mark", proc[p].job, proc[p].cur, proc[p].src, proc[p].got)
  <2> DEFINE s == [proc[p] EXCEPT !.down = @ \ {n}]
  <2>1. /\ s \in ProcState
        /\ s.pc = "mark" /\ s.job = proc[p].job /\ s.cur = proc[p].cur
        /\ s.src = proc[p].src /\ s.got = proc[p].got
    BY <1>1 DEF ProcState, Mark, At
  <2>2. Step(p, s)
    BY <1>3
  <2> HIDE DEF s
  <2> QED BY <1>1, <2>1, <2>2, StepMoved DEF Moved
<1> QED BY <1>2, <1>3 DEF Mark

\* What Replace makes of the record of its job.
LEMMA ReplaceMoved ==
  ASSUME TypeOK, NEW p \in Procs, Replace(p)
  PROVE  \E l \in {"insert", "queue"}, n \in Nodes \union {NoNode} :
            Moved(p, l, proc[p].job, proc[p].cur, n, proc[p].got)
<1>0. proc[p].src \in Nodes \union {NoNode}
  BY Split, Fields
<1>1. /\ proc \in [Procs -> ProcState] /\ proc[p] \in ProcState
      /\ "queue" \in Labels /\ "insert" \in Labels
  BY Split DEF Labels
<1>2. CASE Goto(p, "queue")
  BY <1>0, <1>1, <1>2, GotoMoved
<1>3. ASSUME NEW n \in Nodes, Step(p, [proc[p] EXCEPT !.pc = "insert", !.src = n])
      PROVE  Moved(p, "insert", proc[p].job, proc[p].cur, n, proc[p].got)
  <2> DEFINE s == [proc[p] EXCEPT !.pc = "insert", !.src = n]
  <2>1. /\ s \in ProcState
        /\ s.pc = "insert" /\ s.job = proc[p].job /\ s.cur = proc[p].cur
        /\ s.src = n /\ s.got = proc[p].got
    BY <1>1 DEF ProcState
  <2>2. Step(p, s)
    BY <1>3
  <2> HIDE DEF s
  <2> QED BY <1>1, <2>1, <2>2, StepMoved DEF Moved
<1> QED BY <1>2, <1>3 DEF Replace, Live, Rows

\* What VerdictDownload makes of the record of its job.
LEMMA VerdictDownloadMoved ==
  ASSUME TypeOK, NEW p \in Procs, VerdictDownload(p)
  PROVE  \/ Moved(p, "idle", "none", NoOp, NoNode, "none")
         \/ Moved(p, "lookup", proc[p].job, proc[p].cur, proc[p].src, "none")
<1>1. /\ proc \in [Procs -> ProcState] /\ proc[p] \in ProcState
      /\ "lookup" \in Labels /\ "none" \in Answers
  BY Split DEF Labels, Answers
<1> DEFINE s == [proc[p] EXCEPT !.pc = "lookup", !.got = "none"]
<1>2. CASE Finish(p)
  BY <1>1, <1>2, FinishMoved
<1>3. CASE Step(p, s)
  <2>1. /\ s \in ProcState
        /\ s.pc = "lookup" /\ s.job = proc[p].job /\ s.cur = proc[p].cur
        /\ s.src = proc[p].src /\ s.got = "none"
    BY <1>1 DEF ProcState
  <2> HIDE DEF s
  <2> QED BY <1>1, <1>3, <2>1, StepMoved DEF Moved
<1> QED BY <1>2, <1>3 DEF VerdictDownload

\* A step of p that leaves the records of all jobs as they should be.
Proper(p) ==
    /\ proc' \in [Procs -> ProcState]
    /\ \A q \in Procs : q # p => proc'[q] = proc[q]
    /\ Shape(p)'

\* A step whose new record has the shape of its label is proper.
LEMMA MovedProper ==
  ASSUME NEW p, NEW l, NEW j, NEW o, NEW n, NEW g,
         Moved(p, l, j, o, n, g), ShapeOf(l, j, o, g)
  PROVE  Proper(p)
  BY DEF Moved, ShapeOf, Shape, Proper

\* What the invariant says of the job about to move.
LEMMA ShapeNow ==
  ASSUME NEW p \in Procs, TypeInv
  PROVE  ShapeOf(proc[p].pc, proc[p].job, proc[p].cur, proc[p].got) /\ TypeOK
         /\ proc \in [Procs -> ProcState] /\ proc[p] \in ProcState
  BY DEF TypeInv, TypeOK, Shape, ShapeOf

\* The steps of Operate are proper.
LEMMA OperateProper ==
  ASSUME TypeInv, NEW p \in Procs, Operate(p)
  PROVE  Proper(p)
<1> USE ShapeNow, MovedProper DEF ShapeOf, OpLabels, ReadLabels, VisitLabels, At
<1>1. CASE \E o \in Ops : Claim(p, o)
  BY <1>1, ClaimMoved DEF Claim
<1>2. CASE \E o \in Ops : NotClaimed(p, o)
  BY <1>2, NotClaimedMoved DEF NotClaimed
<1>3. CASE AllRun(p)
  BY <1>3, GotoMoved, FinishMoved, StartMoved DEF AllRun, Labels
<1>4. CASE BeginCreate(p)
  BY <1>4, GotoMoved, FinishMoved, StartMoved DEF BeginCreate, Labels
<1>5. CASE BeginDelete(p)
  BY <1>5, GotoMoved, FinishMoved, StartMoved DEF BeginDelete, Labels
<1>6. CASE BeginRepair(p)
  BY <1>6, GotoMoved, FinishMoved, StartMoved DEF BeginRepair, Labels
<1>7. CASE \E n \in Nodes : Source(p, n)
  BY <1>7, SourceMoved DEF Source
<1>8. CASE NoSource(p)
  BY <1>8, GotoMoved, FinishMoved, StartMoved DEF NoSource, Labels
<1>9. CASE Put(p)
  BY <1>9, GotoMoved, FinishMoved, StartMoved DEF Put, Labels
<1>10. CASE PutConflict(p)
  BY <1>10, GotoMoved, FinishMoved, StartMoved DEF PutConflict, Labels
<1>11. CASE PutFails(p)
  BY <1>11, GotoMoved, FinishMoved, StartMoved DEF PutFails, Labels
<1>12. CASE Confirm(p)
  BY <1>12, GotoMoved, FinishMoved, StartMoved DEF Confirm, Labels
<1>13. CASE ConfirmFails(p)
  BY <1>13, GotoMoved, FinishMoved, StartMoved DEF ConfirmFails, Labels
<1>14. CASE Erase(p)
  BY <1>14, GotoMoved, FinishMoved, StartMoved DEF Erase, Labels
<1>15. CASE EraseFails(p)
  BY <1>15, GotoMoved, FinishMoved, StartMoved DEF EraseFails, Labels
<1>16. CASE Commit(p)
  BY <1>16, NextOpMoved DEF Commit
<1>17. CASE Reject(p)
  BY <1>17, NextOpMoved DEF Reject
<1> QED BY <1>1, <1>2, <1>3, <1>4, <1>5, <1>6, <1>7, <1>8, <1>9, <1>10, <1>11,
   <1>12, <1>13, <1>14, <1>15, <1>16, <1>17 DEF Operate

\* The steps of Reconcile are proper.
LEMMA ReconcileProper ==
  ASSUME TypeInv, NEW p \in Procs, Reconcile(p)
  PROVE  Proper(p)
<1> USE ShapeNow, MovedProper DEF ShapeOf, OpLabels, ReadLabels, VisitLabels, At
<1>1. CASE List(p)
  BY <1>1, ListMoved DEF List
<1>2. CASE Inspect(p)
  BY <1>2, GotoMoved, FinishMoved, StartMoved DEF Inspect, Labels
<1>3. CASE Drop(p)
  BY <1>3, GotoMoved, FinishMoved, StartMoved DEF Drop, Labels
<1>4. CASE Publish(p)
  BY <1>4, GotoMoved, FinishMoved, StartMoved DEF Publish, Labels
<1>5. CASE Unsession(p)
  BY <1>5, GotoMoved, FinishMoved, StartMoved DEF Unsession, Labels
<1>6. CASE Unstage(p)
  BY <1>6, GotoMoved, FinishMoved, StartMoved DEF Unstage, Labels
<1>7. CASE Vanished(p)
  BY <1>7, GotoMoved, FinishMoved, StartMoved DEF Vanished, Labels
<1>8. CASE Boot(p)
  BY <1>8, BootMoved DEF Boot
<1> QED BY <1>1, <1>2, <1>3, <1>4, <1>5, <1>6, <1>7, <1>8 DEF Reconcile

\* The steps of Verify are proper.
LEMMA VerifyProper ==
  ASSUME TypeInv, NEW p \in Procs, Verify(p)
  PROVE  Proper(p)
<1> USE ShapeNow, MovedProper DEF ShapeOf, OpLabels, ReadLabels, VisitLabels, At
<1>1. CASE Head(p)
  BY <1>1, HeadMoved DEF Head
<1>2. CASE Get(p)
  BY <1>2, GetMoved DEF Get
<1>3. CASE ReadFails(p)
  <2>1. proc[p].pc \in ReadLabels
    BY <1>3 DEF ReadFails
  <2> QED BY <1>3, <2>1, ReadFailsMoved
<1>4. CASE VerdictRepair(p)
  BY <1>4, Fields, VerdictRepairMoved DEF VerdictRepair, RecordVerdict
<1>5. CASE VerdictScrub(p)
  BY <1>5, Fields, VerdictScrubMoved DEF VerdictScrub, RecordVerdict
<1>6. CASE VerdictDownload(p)
  BY <1>6, Fields, VerdictDownloadMoved DEF VerdictDownload, RecordVerdict
<1> QED BY <1>1, <1>2, <1>3, <1>4, <1>5, <1>6 DEF Verify

\* The steps of Schedule are proper.
LEMMA ScheduleProper ==
  ASSUME TypeInv, NEW p \in Procs, Schedule(p)
  PROVE  Proper(p)
<1> USE ShapeNow, MovedProper DEF ShapeOf, OpLabels, ReadLabels, VisitLabels, At
<1>1. CASE \E n \in Nodes : Visit(p, n)
  BY <1>1, VisitMoved DEF Visit
<1>2. CASE Visited(p)
  BY <1>2, GotoMoved, FinishMoved, StartMoved DEF Visited, Labels
<1>3. CASE Lookup(p)
  BY <1>3, LookupMoved DEF Lookup
<1>4. CASE Enqueue(p)
  BY <1>4, EnqueueMoved DEF Enqueue
<1>5. CASE Mark(p)
  BY <1>5, MarkMoved DEF Mark
<1>6. CASE Replace(p)
  BY <1>6, ReplaceMoved DEF Replace
<1>7. CASE Insert(p)
  BY <1>7, InsertMoved DEF Insert
<1>8. CASE Queue(p)
  BY <1>8, QueueMoved DEF Queue
<1> QED BY <1>1, <1>2, <1>3, <1>4, <1>5, <1>6, <1>7, <1>8 DEF Schedule

\* The steps of Request are proper.
LEMMA RequestProper ==
  ASSUME TypeInv, NEW p \in Procs, Request(p)
  PROVE  Proper(p)
<1> USE ShapeNow, MovedProper DEF ShapeOf, OpLabels, ReadLabels, VisitLabels, At
<1>1. CASE Upload(p)
  BY <1>1, GotoMoved, FinishMoved, StartMoved DEF Upload, JobKinds, Labels
<1>2. CASE Retry(p)
  BY <1>2, GotoMoved, FinishMoved, StartMoved DEF Retry, JobKinds, Labels
<1>3. CASE Delete(p)
  BY <1>3, GotoMoved, FinishMoved, StartMoved DEF Delete, JobKinds, Labels
<1>4. CASE Download(p)
  BY <1>4, DownloadMoved DEF Download
<1>5. CASE Scrub(p)
  BY <1>5, ScrubMoved DEF Scrub
<1>6. CASE \E aged \in SUBSET Nodes : RepairPass(p, aged)
  BY <1>6, RepairPassMoved DEF RepairPass
<1> QED BY <1>1, <1>2, <1>3, <1>4, <1>5, <1>6 DEF Request

\* What an answer makes of a replica: only good bytes pass.
LEMMA VerdictStatus ==
  ASSUME NEW g \in Answers \ {"none"}
  PROVE  StatusOf(g) \in ReplicaStatus /\ (StatusOf(g) = "HEALTHY" => g = "good")
  BY DEF Answers, StatusOf, ReplicaStatus

\* An injected fault stays within the bound.
LEMMA FaultBound ==
  ASSUME faults \in 0..MaxFaults, NEW f, Inject(f)
  PROVE  faults' \in 0..MaxFaults
  BY FaultsAssumption DEF Inject

\* So does a request without an answer.
LEMMA UnansweredBound ==
  ASSUME faults \in 0..MaxFaults, NEW n, Unanswered(n)
  PROVE  faults' \in 0..MaxFaults
  BY FaultBound DEF Unanswered

\* What recording a verdict writes, and when it passes.
LEMMA VerdictData ==
  ASSUME TypeInv, NEW p \in Procs, RecordVerdict(p)
  PROVE  /\ DataOK /\ replica' \in [Nodes -> ReplicaStatus]
         /\ Passes(p) => proc[p].got = "good"
<1>1. /\ DataOK /\ proc[p].got \in Answers \ {"none"}
      /\ replica \in [Nodes -> ReplicaStatus]
  BY ShapeNow, Split, Fields DEF TypeInv, Shape, ShapeOf, RecordVerdict, At,
     DataOK
<1>2. /\ StatusOf(proc[p].got) \in ReplicaStatus
      /\ StatusOf(proc[p].got) = "HEALTHY" => proc[p].got = "good"
  BY <1>1, VerdictStatus
<1> QED BY <1>1, <1>2 DEF RecordVerdict, Passes

\* A step that writes nothing keeps the types of the data.
LEMMA Quiet ==
  ASSUME DataOK, UNCHANGED <<database, cluster, served, faults>>
  PROVE  DataOK'
  BY DEF DataOK, database, cluster

\* The steps of Operate keep the types of the data.
LEMMA OperateData ==
  ASSUME TypeInv, NEW p \in Procs, Operate(p)
  PROVE  DataOK'
<1>0. /\ DataOK /\ proc[p].got \in Answers /\ Shape(p)
      /\ proc[p].cur \in Ops \union {NoOp}
  BY ShapeNow, Split, Fields DEF TypeInv
<1>1. CASE \E o \in Ops : Claim(p, o)
  BY <1>0, <1>1 DEF Claim, DataOK, database, cluster, OpStatus
<1>2. CASE Put(p)
  BY <1>0, <1>2 DEF Put, DataOK, database, cluster, Stored, ObjectStatus, At
<1>3. CASE PutFails(p)
  <2>1. proc[p].cur \in Ops
    BY <1>0, <1>3 DEF PutFails, At, Shape, ShapeOf, OpLabels
  <2>2. Stored(proc[p].cur) \in [Nodes -> ObjectStatus]
    BY <1>0, <2>1 DEF DataOK, Stored, ObjectStatus
  <2>3. faults' \in 0..MaxFaults
    BY <1>0, <1>3, FaultBound, UnansweredBound DEF PutFails, DataOK
  <2> QED BY <1>0, <1>3, <2>1, <2>2, <2>3 DEF PutFails, DataOK, database,
     cluster
<1>4. CASE ConfirmFails(p)
  BY <1>0, <1>4, FaultBound, UnansweredBound DEF ConfirmFails, DataOK,
     database, cluster, OpStatus
<1>5. CASE Erase(p)
  BY <1>0, <1>5 DEF Erase, DataOK, database, cluster, ObjectStatus
<1>6. CASE EraseFails(p)
  BY <1>0, <1>6, FaultBound, UnansweredBound DEF EraseFails, DataOK, database,
     cluster, ObjectStatus
<1>7. CASE Commit(p)
  BY <1>0, <1>7 DEF Commit, DataOK, database, cluster, OpStatus, ReplicaStatus
<1>8. CASE Reject(p)
  BY <1>0, <1>8 DEF Reject, DataOK, database, cluster, OpStatus, ReplicaStatus
<1>9. CASE \/ \E o \in Ops : NotClaimed(p, o)
           \/ AllRun(p)
           \/ BeginCreate(p)
           \/ BeginDelete(p)
           \/ BeginRepair(p)
           \/ \E n \in Nodes : Source(p, n)
           \/ NoSource(p)
           \/ PutConflict(p)
           \/ Confirm(p)
  BY <1>0, <1>9, Quiet DEF NotClaimed, AllRun, BeginCreate, BeginDelete,
     BeginRepair, Source, NoSource, PutConflict, Confirm
<1> QED BY <1>0, <1>1, <1>2, <1>3, <1>4, <1>5, <1>6, <1>7, <1>8, <1>9 DEF
   Operate

\* The steps of Reconcile keep the types of the data.
LEMMA ReconcileData ==
  ASSUME TypeInv, NEW p \in Procs, Reconcile(p)
  PROVE  DataOK'
<1>0. /\ DataOK /\ proc[p].got \in Answers /\ Shape(p)
      /\ proc[p].cur \in Ops \union {NoOp}
  BY ShapeNow, Split, Fields DEF TypeInv
<1>1. CASE Drop(p)
  BY <1>0, <1>1 DEF Drop, DataOK, database, cluster, FileStatus,
     ReplicaStatus, OpStatus
<1>2. CASE Publish(p)
  BY <1>0, <1>2 DEF Publish, DataOK, database, cluster, FileStatus
<1>3. CASE Unsession(p)
  BY <1>0, <1>3 DEF Unsession, DataOK, database, cluster, FileStatus
<1>4. CASE Unstage(p)
  BY <1>0, <1>4 DEF Unstage, DataOK, database, cluster, FileStatus
<1>5. CASE Boot(p)
  BY <1>0, <1>5 DEF Boot, DataOK, database, cluster, Recovered, OpStatus
<1>6. CASE \/ List(p)
           \/ Inspect(p)
           \/ Vanished(p)
  BY <1>0, <1>6, Quiet DEF List, Inspect, Vanished
<1> QED BY <1>0, <1>1, <1>2, <1>3, <1>4, <1>5, <1>6 DEF Reconcile

\* The steps of Verify keep the types of the data.
LEMMA VerifyData ==
  ASSUME TypeInv, NEW p \in Procs, Verify(p)
  PROVE  DataOK'
<1>0. /\ DataOK /\ proc[p].got \in Answers /\ Shape(p)
      /\ proc[p].cur \in Ops \union {NoOp}
  BY ShapeNow, Split, Fields DEF TypeInv
<1>1. CASE ReadFails(p)
  BY <1>0, <1>1, FaultBound, UnansweredBound DEF ReadFails, DataOK, database,
     cluster, OpStatus
<1>2. CASE VerdictRepair(p)
  BY <1>0, <1>2, VerdictData DEF VerdictRepair, DataOK, database, cluster,
     RecordVerdict
<1>3. CASE VerdictScrub(p)
  BY <1>0, <1>3, VerdictData DEF VerdictScrub, DataOK, database, cluster,
     RecordVerdict
<1>4. CASE VerdictDownload(p)
  BY <1>0, <1>4, VerdictData DEF VerdictDownload, DataOK, database, cluster,
     RecordVerdict
<1>5. CASE \/ Head(p)
           \/ Get(p)
  BY <1>0, <1>5, Quiet DEF Head, Get
<1> QED BY <1>0, <1>1, <1>2, <1>3, <1>4, <1>5 DEF Verify

\* The steps of Schedule keep the types of the data.
LEMMA ScheduleData ==
  ASSUME TypeInv, NEW p \in Procs, Schedule(p)
  PROVE  DataOK'
<1>0. /\ DataOK /\ proc[p].got \in Answers /\ Shape(p)
      /\ proc[p].cur \in Ops \union {NoOp}
  BY ShapeNow, Split, Fields DEF TypeInv
<1>1. CASE Enqueue(p)
  BY <1>0, <1>1 DEF Enqueue, DataOK, database, cluster, OpStatus
<1>2. CASE Mark(p)
  BY <1>0, <1>2 DEF Mark, DataOK, database, cluster, ReplicaStatus
<1>3. CASE Insert(p)
  BY <1>0, <1>3 DEF Insert, DataOK, database, cluster, ReplicaStatus, OpStatus
<1>4. CASE \/ \E n \in Nodes : Visit(p, n)
           \/ Visited(p)
           \/ Lookup(p)
           \/ Replace(p)
           \/ Queue(p)
  BY <1>0, <1>4, Quiet DEF Visit, Visited, Lookup, Replace, Queue
<1> QED BY <1>0, <1>1, <1>2, <1>3, <1>4 DEF Schedule

\* The steps of Request keep the types of the data.
LEMMA RequestData ==
  ASSUME TypeInv, NEW p \in Procs, Request(p)
  PROVE  DataOK'
<1>0. /\ DataOK /\ proc[p].got \in Answers /\ Shape(p)
      /\ proc[p].cur \in Ops \union {NoOp}
  BY ShapeNow, Split, Fields DEF TypeInv
<1>1. CASE Upload(p)
  BY <1>0, <1>1 DEF Upload, DataOK, database, cluster, FileStatus,
     ReplicaStatus, OpStatus
<1>2. CASE Delete(p)
  BY <1>0, <1>2 DEF Delete, DataOK, database, cluster, FileStatus,
     ReplicaStatus, OpStatus
<1>3. CASE \/ Retry(p)
           \/ Download(p)
           \/ Scrub(p)
           \/ \E aged \in SUBSET Nodes : RepairPass(p, aged)
  BY <1>0, <1>3, Quiet DEF Retry, Download, Scrub, RepairPass
<1> QED BY <1>0, <1>1, <1>2, <1>3 DEF Request

\* Every step of a job keeps the type invariant.
LEMMA JobType ==
  ASSUME TypeInv, NEW p \in Procs, Request(p) \/ Advance(p)
  PROVE  TypeInv'
<1>1. Proper(p) /\ DataOK'
  BY RequestProper, OperateProper, ReconcileProper, VerifyProper,
     ScheduleProper,
     RequestData, OperateData, ReconcileData, VerifyData, ScheduleData DEF Advance
<1>2. TypeOK'
  BY <1>1 DEF Proper, TypeOK, DataOK
<1>3. ASSUME NEW q \in Procs PROVE Shape(q)'
  BY <1>1, <1>3 DEF Proper, TypeInv, Shape, ShapeOf
<1> QED BY <1>2, <1>3 DEF TypeInv

\* So does a crash ...
LEMMA CrashType ==
  ASSUME TypeInv, NEW p \in Procs, Crash(p)
  PROVE  TypeInv'
<1> DEFINE s == [Idle EXCEPT !.pc = "boot", !.job = "boot"]
<1>1. /\ DataOK /\ proc \in [Procs -> ProcState] /\ "boot" \in Labels
      /\ \A q \in Procs : proc[q].pc = "put" => proc[q].cur \in Ops
  BY ShapeNow, Split DEF TypeInv, Shape, ShapeOf, OpLabels, Labels
<1>2. /\ s \in ProcState
      /\ s.pc = "boot" /\ s.job = "boot" /\ s.cur = NoOp /\ s.got = "none"
  BY <1>1, IdleType DEF ProcState
<1>3. proc' = [[q \in Procs |-> Idle] EXCEPT ![p] = s]
  BY DEF Crash
<1> HIDE DEF s
<1>4. /\ proc' \in [Procs -> ProcState]
      /\ \A q \in Procs : IF q = p THEN proc'[q] = s ELSE proc'[q] = Idle
  BY <1>2, <1>3, IdleType
<1>5. \A q \in Procs : Shape(q)'
  BY <1>2, <1>4, IdleType DEF Shape, ShapeOf, OpLabels, ReadLabels
<1>6. late' \subseteq Ops
  BY <1>1 DEF Crash, DataOK, At
<1>7. DataOK'
  BY <1>1, <1>6, FaultBound DEF Crash, DataOK, database
<1> QED BY <1>4, <1>5, <1>7 DEF TypeInv, TypeOK, DataOK

\* ... and every step of the environment.
LEMMA NodeType ==
  ASSUME TypeInv, \/ \E n \in Nodes : NodeDown(n) \/ NodeUp(n) \/ Damage(n)
                  \/ \E o \in Ops : LatePut(o)
  PROVE  TypeInv'
<1>0. DataOK /\ UNCHANGED proc
  BY Split DEF TypeInv, NodeDown, NodeUp, Damage, LatePut
<1>1. DataOK'
  <2>1. CASE \E n \in Nodes : NodeDown(n)
    BY <1>0, <2>1, FaultBound DEF NodeDown, DataOK, database
  <2>2. CASE \E n \in Nodes : NodeUp(n)
    BY <1>0, <2>2 DEF NodeUp, DataOK, database
  <2>3. CASE \E n \in Nodes : Damage(n)
    BY <1>0, <2>3, FaultBound DEF Damage, DataOK, database, ObjectStatus
  <2>4. CASE \E o \in Ops : LatePut(o)
    BY <1>0, <2>4 DEF LatePut, Stored, DataOK, database, ObjectStatus
  <2> QED BY <2>1, <2>2, <2>3, <2>4
<1> QED BY <1>0, <1>1 DEF TypeInv, TypeOK, DataOK, Shape, ShapeOf

\* Initially the type invariant holds.
LEMMA InitType == Init => TypeInv
<1> SUFFICES ASSUME Init PROVE TypeInv
  OBVIOUS
<1>1. DataOK
  <2>1. faults \in 0..MaxFaults
    BY FaultsAssumption DEF Init
  <2>2. session \in BOOLEAN /\ staging \in BOOLEAN
    BY DEF Init
  <2> QED BY <2>1, <2>2 DEF Init, DataOK, FileStatus, ReplicaStatus, OpStatus,
     ObjectStatus
<1>2. proc \in [Procs -> ProcState] /\ \A p \in Procs : proc[p] = Idle
  BY IdleType DEF Init
<1>3. \A p \in Procs : Shape(p)
  BY <1>2, IdleType DEF Shape, ShapeOf, OpLabels, ReadLabels
<1> QED BY <1>1, <1>2, <1>3, Split DEF TypeInv

\* Every step keeps the type invariant.
LEMMA NextType == TypeInv /\ [Next]_vars => TypeInv'
<1> SUFFICES ASSUME TypeInv, [Next]_vars PROVE TypeInv'
  OBVIOUS
<1>1. CASE UNCHANGED vars
  BY <1>1 DEF vars, TypeInv, TypeOK, Shape, ShapeOf
<1> QED BY <1>1, JobType, CrashType, NodeType DEF Next, Environment

\* The strengthened type invariant holds in every behaviour of the coordinator.
THEOREM TypeInvariant == Spec => []TypeInv
  BY InitType, NextType, PTL DEF Spec

\* The type invariant of the specification.
\* TypeOK holds: in particular no job writes a status that the schema does not
\* have for that row.
THEOREM TypeCorrect == Spec => []TypeOK
<1>1. TypeInv => TypeOK
  BY DEF TypeInv
<1> QED BY <1>1, TypeInvariant, PTL

-----------------------------------------------------------------------------
(***************************************************************************)
(* Who runs an operation: one job at a time every CREATE operation, and    *)
(* some job every operation that is RUNNING; and what downloads serve. The *)
(* invariant RunnerInv ties the claim (an update of the row conditional on *)
(* PENDING or FAILED) to the records of the jobs: a CREATE operation that  *)
(* is being run is RUNNING, so that no second claim gets through, and only *)
(* a startup, with which nothing else runs, takes that status back.        *)
(***************************************************************************)

\* While a startup is about to reset the operations nothing else runs.
BootInv ==
    \A p, q \in Procs : p # q /\ proc[p].pc = "boot" => proc[q].pc = "idle"

\* A CREATE operation that a job runs is RUNNING, unless its row is gone.
CreateInv ==
    \A p \in Procs : proc[p].cur \in OpsOf("CREATE") =>
        op[proc[p].cur] \in {"RUNNING", "NONE"}

\* Before the file exists nothing of it does.
Unborn ==
    file = "NONE" => /\ \A n \in Nodes : replica[n] = "NONE"
                     /\ \A o \in Ops : op[o] = "NONE"
                     /\ \A p \in Procs : proc[p].cur = NoOp

RunnerInv == Unborn /\ BootInv /\ CreateInv /\ OneCreator /\ RunningHasRunner

\* A step of p that keeps the operation it runs, and every CREATE operation.
Plain(p) ==
    /\ \A q \in Procs : proc'[q].cur = proc[q].cur
    /\ \A q \in Procs : q # p => proc'[q] = proc[q]
    /\ proc'[p].pc # "boot"
    /\ proc[p].pc # "boot"
    /\ proc[p].pc = "idle" => ~Booting
PlainRows ==
    /\ file' = "NONE" => file = "NONE" /\ op' = op /\ replica' = replica
    /\ \A n \in Nodes : op'[<<"CREATE", n>>] = op[<<"CREATE", n>>]
    /\ \A o \in Ops : op'[o] = "RUNNING" => op[o] = "RUNNING"

\* A step that keeps the operation of the record is plain.
LEMMA MovedPlain ==
  ASSUME NEW p, NEW l, NEW j, NEW n, NEW g,
         Moved(p, l, j, proc[p].cur, n, g), l # "boot", proc[p].pc # "boot",
         proc[p].pc = "idle" => ~Booting
  PROVE  Plain(p)
  BY DEF Moved, Plain

\* Moving on is plain.
LEMMA GotoPlain ==
  ASSUME TypeInv, NEW p \in Procs, NEW l \in Labels, Goto(p, l),
         l # "boot", proc[p].pc \notin {"boot", "idle"}
  PROVE  Plain(p)
  BY ShapeNow, GotoMoved, MovedPlain

\* Ending a job that runs no operation is plain.
LEMMA FinishPlain ==
  ASSUME TypeInv, NEW p \in Procs, Finish(p),
         proc[p].cur = NoOp, proc[p].pc \notin {"boot", "idle"}
  PROVE  Plain(p)
<1>1. Moved(p, "idle", "none", proc[p].cur, NoNode, "none")
  BY ShapeNow, FinishMoved
<1> QED BY <1>1, MovedPlain

\* Starting a job is plain.
LEMMA StartPlain ==
  ASSUME TypeInv, NEW p \in Procs, NEW j \in JobKinds \union {"recover"},
         NEW l \in Labels, Start(p, j, l), l # "boot",
         proc[p].cur = NoOp, proc[p].pc # "boot",
         proc[p].pc = "idle" => ~Booting
  PROVE  Plain(p)
<1>1. Moved(p, l, j, proc[p].cur, NoNode, "none")
  BY ShapeNow, StartMoved
<1> QED BY <1>1, MovedPlain

\* What a label that runs no operation says.
LEMMA FreeLabel ==
  ASSUME TypeInv, NEW p \in Procs,
         proc[p].pc \notin OpLabels \union ReadLabels \/ proc[p].job \in {"download", "scrub"}
  PROVE  proc[p].cur = NoOp
  BY DEF TypeInv, Shape, ShapeOf

\* A step that writes no row is plain.
LEMMA QuietPlain ==
  ASSUME UNCHANGED <<file, replica, op>>
  PROVE  PlainRows
  BY DEF PlainRows

\* NoOp is no operation.
LEMMA NoOpFree == NoOp \notin Ops
  BY DEF NoOp, Ops, Kinds

\* The steps of Operate are plain, those that take or end an operation apart.
LEMMA OperatePlain ==
  ASSUME TypeInv, Unborn, NEW p \in Procs, Operate(p)
  PROVE  \/ Plain(p) /\ PlainRows
         \/ (\E o \in Ops : Claim(p, o)) \/ Commit(p) \/ Reject(p)
<1> USE ShapeNow, MovedPlain DEF ShapeOf, OpLabels, ReadLabels, VisitLabels, At, Ready
<1>1. CASE \E o \in Ops : NotClaimed(p, o)
  <2>2. Plain(p)
    BY <1>1, NotClaimedMoved DEF NotClaimed
  <2>3. PlainRows
    BY <1>1, QuietPlain DEF NotClaimed, database
  <2> QED BY <2>2, <2>3
<1>2. CASE AllRun(p)
  <2>1. proc[p].pc \notin {"boot", "idle"} /\ proc[p].cur = NoOp
    BY <1>2, FreeLabel DEF AllRun
  <2> HIDE DEF ShapeOf, OpLabels, ReadLabels, VisitLabels, At, Ready
  <2>2. Plain(p)
    BY <1>2, <2>1, GotoPlain, FinishPlain, StartPlain DEF AllRun, Labels
  <2>3. PlainRows
    BY <1>2, QuietPlain DEF AllRun, database
  <2> QED BY <2>2, <2>3
<1>3. CASE BeginCreate(p)
  <2>1. proc[p].pc \notin {"boot", "idle"}
    BY <1>3, FreeLabel DEF BeginCreate
  <2> HIDE DEF ShapeOf, OpLabels, ReadLabels, VisitLabels, At, Ready
  <2>2. Plain(p)
    BY <1>3, <2>1, GotoPlain DEF BeginCreate, Labels
  <2>3. PlainRows
    BY <1>3, QuietPlain DEF BeginCreate, database
  <2> QED BY <2>2, <2>3
<1>4. CASE BeginDelete(p)
  <2>1. proc[p].pc \notin {"boot", "idle"}
    BY <1>4, FreeLabel DEF BeginDelete
  <2> HIDE DEF ShapeOf, OpLabels, ReadLabels, VisitLabels, At, Ready
  <2>2. Plain(p)
    BY <1>4, <2>1, GotoPlain DEF BeginDelete, Labels
  <2>3. PlainRows
    BY <1>4, QuietPlain DEF BeginDelete, database
  <2> QED BY <2>2, <2>3
<1>5. CASE BeginRepair(p)
  <2>1. proc[p].pc \notin {"boot", "idle"}
    BY <1>5, FreeLabel DEF BeginRepair
  <2> HIDE DEF ShapeOf, OpLabels, ReadLabels, VisitLabels, At, Ready
  <2>2. Plain(p)
    BY <1>5, <2>1, GotoPlain DEF BeginRepair, Labels
  <2>3. PlainRows
    BY <1>5, QuietPlain DEF BeginRepair, database
  <2> QED BY <2>2, <2>3
<1>6. CASE \E n \in Nodes : Source(p, n)
  <2>2. Plain(p)
    BY <1>6, SourceMoved DEF Source
  <2>3. PlainRows
    BY <1>6, QuietPlain DEF Source, database
  <2> QED BY <2>2, <2>3
<1>7. CASE NoSource(p)
  <2>1. proc[p].pc \notin {"boot", "idle"}
    BY <1>7, FreeLabel DEF NoSource
  <2> HIDE DEF ShapeOf, OpLabels, ReadLabels, VisitLabels, At, Ready
  <2>2. Plain(p)
    BY <1>7, <2>1, GotoPlain DEF NoSource, Labels
  <2>3. PlainRows
    BY <1>7, QuietPlain DEF NoSource, database
  <2> QED BY <2>2, <2>3
<1>8. CASE Put(p)
  <2>1. proc[p].pc \notin {"boot", "idle"}
    BY <1>8, FreeLabel DEF Put
  <2> HIDE DEF ShapeOf, OpLabels, ReadLabels, VisitLabels, At, Ready
  <2>2. Plain(p)
    BY <1>8, <2>1, GotoPlain DEF Put, Labels
  <2>3. PlainRows
    BY <1>8, QuietPlain DEF Put, database
  <2> QED BY <2>2, <2>3
<1>9. CASE PutConflict(p)
  <2>1. proc[p].pc \notin {"boot", "idle"}
    BY <1>9, FreeLabel DEF PutConflict
  <2> HIDE DEF ShapeOf, OpLabels, ReadLabels, VisitLabels, At, Ready
  <2>2. Plain(p)
    BY <1>9, <2>1, GotoPlain DEF PutConflict, Labels
  <2>3. PlainRows
    BY <1>9, QuietPlain DEF PutConflict, database
  <2> QED BY <2>2, <2>3
<1>10. CASE PutFails(p)
  <2>1. proc[p].pc \notin {"boot", "idle"}
    BY <1>10, FreeLabel DEF PutFails
  <2> HIDE DEF ShapeOf, OpLabels, ReadLabels, VisitLabels, At, Ready
  <2>2. Plain(p)
    BY <1>10, <2>1, GotoPlain DEF PutFails, Labels
  <2>3. PlainRows
    BY <1>10, QuietPlain DEF PutFails, database
  <2> QED BY <2>2, <2>3
<1>11. CASE Confirm(p)
  <2>1. proc[p].pc \notin {"boot", "idle"}
    BY <1>11, FreeLabel DEF Confirm
  <2> HIDE DEF ShapeOf, OpLabels, ReadLabels, VisitLabels, At, Ready
  <2>2. Plain(p)
    BY <1>11, <2>1, GotoPlain DEF Confirm, Labels
  <2>3. PlainRows
    BY <1>11, QuietPlain DEF Confirm, database
  <2> QED BY <2>2, <2>3
<1>12. CASE ConfirmFails(p)
  <2>1. proc[p].pc \notin {"boot", "idle"}
    BY <1>12, FreeLabel DEF ConfirmFails
  <2> HIDE DEF ShapeOf, OpLabels, ReadLabels, VisitLabels, At, Ready
  <2>2. Plain(p)
    BY <1>12, <2>1, GotoPlain DEF ConfirmFails, Labels
  <2>3. PlainRows
    BY <1>12, QuietPlain DEF ConfirmFails, database
  <2> QED BY <2>2, <2>3
<1>13. CASE Erase(p)
  <2>1. proc[p].pc \notin {"boot", "idle"}
    BY <1>13, FreeLabel DEF Erase
  <2> HIDE DEF ShapeOf, OpLabels, ReadLabels, VisitLabels, At, Ready
  <2>2. Plain(p)
    BY <1>13, <2>1, GotoPlain DEF Erase, Labels
  <2>3. PlainRows
    BY <1>13, QuietPlain DEF Erase, database
  <2> QED BY <2>2, <2>3
<1>14. CASE EraseFails(p)
  <2>1. proc[p].pc \notin {"boot", "idle"}
    BY <1>14, FreeLabel DEF EraseFails
  <2> HIDE DEF ShapeOf, OpLabels, ReadLabels, VisitLabels, At, Ready
  <2>2. Plain(p)
    BY <1>14, <2>1, GotoPlain DEF EraseFails, Labels
  <2>3. PlainRows
    BY <1>14, QuietPlain DEF EraseFails, database
  <2> QED BY <2>2, <2>3
<1> QED BY <1>1, <1>2, <1>3, <1>4, <1>5, <1>6, <1>7, <1>8, <1>9, <1>10, <1>11,
   <1>12, <1>13, <1>14 DEF Operate

\* The steps of Reconcile are plain, those that take or end an operation apart.
LEMMA ReconcilePlain ==
  ASSUME TypeInv, Unborn, NEW p \in Procs, Reconcile(p)
  PROVE  \/ Plain(p) /\ PlainRows
         \/ Drop(p) \/ Vanished(p) \/ Boot(p)
<1> USE ShapeNow, MovedPlain DEF ShapeOf, OpLabels, ReadLabels, VisitLabels, At, Ready
<1>1. CASE List(p)
  <2>2. Plain(p)
    BY <1>1, ListMoved DEF List
  <2>3. PlainRows
    BY <1>1, QuietPlain DEF List, database
  <2> QED BY <2>2, <2>3
<1>2. CASE Inspect(p)
  <2>1. proc[p].pc \notin {"boot", "idle"} /\ proc[p].cur = NoOp
    BY <1>2, FreeLabel DEF Inspect
  <2> HIDE DEF ShapeOf, OpLabels, ReadLabels, VisitLabels, At, Ready
  <2>2. Plain(p)
    BY <1>2, <2>1, GotoPlain, FinishPlain, StartPlain DEF Inspect, Labels
  <2>3. PlainRows
    BY <1>2, QuietPlain DEF Inspect, database
  <2> QED BY <2>2, <2>3
<1>3. CASE Publish(p)
  <2>1. proc[p].pc \notin {"boot", "idle"}
    BY <1>3, FreeLabel DEF Publish
  <2> HIDE DEF ShapeOf, OpLabels, ReadLabels, VisitLabels, At, Ready
  <2>2. Plain(p)
    BY <1>3, <2>1, GotoPlain DEF Publish, Labels
  <2>3. PlainRows
    BY <1>3 DEF Publish, PlainRows, Unborn, TypeOK, RecordVerdict, RowExists,
       Ops, Kinds, OpsOf, Rows
  <2> QED BY <2>2, <2>3
<1>4. CASE Unsession(p)
  <2>1. proc[p].pc \notin {"boot", "idle"} /\ proc[p].cur = NoOp
    BY <1>4, FreeLabel DEF Unsession
  <2> HIDE DEF ShapeOf, OpLabels, ReadLabels, VisitLabels, At, Ready
  <2>2. Plain(p)
    BY <1>4, <2>1, GotoPlain, FinishPlain, StartPlain DEF Unsession, Labels
  <2>3. PlainRows
    BY <1>4, QuietPlain DEF Unsession, database
  <2> QED BY <2>2, <2>3
<1>5. CASE Unstage(p)
  <2>1. proc[p].pc \notin {"boot", "idle"} /\ proc[p].cur = NoOp
    BY <1>5, FreeLabel DEF Unstage
  <2> HIDE DEF ShapeOf, OpLabels, ReadLabels, VisitLabels, At, Ready
  <2>2. Plain(p)
    BY <1>5, <2>1, GotoPlain, FinishPlain, StartPlain DEF Unstage, Labels
  <2>3. PlainRows
    BY <1>5, QuietPlain DEF Unstage, database
  <2> QED BY <2>2, <2>3
<1> QED BY <1>1, <1>2, <1>3, <1>4, <1>5 DEF Reconcile

\* The steps of Verify are plain.
LEMMA VerifyPlain ==
  ASSUME TypeInv, Unborn, NEW p \in Procs, Verify(p)
  PROVE  Plain(p) /\ PlainRows
<1> USE ShapeNow, MovedPlain DEF ShapeOf, OpLabels, ReadLabels, VisitLabels, At, Ready
<1>1. CASE Head(p)
  <2>2. Plain(p)
    BY <1>1, HeadMoved DEF Head
  <2>3. PlainRows
    BY <1>1, QuietPlain DEF Head, database
  <2> QED BY <2>2, <2>3
<1>2. CASE Get(p)
  <2>2. Plain(p)
    BY <1>2, GetMoved DEF Get
  <2>3. PlainRows
    BY <1>2, QuietPlain DEF Get, database
  <2> QED BY <2>2, <2>3
<1>3. CASE ReadFails(p)
  <2>1. proc[p].pc \in ReadLabels
    BY <1>3 DEF ReadFails
  <2>2. Plain(p)
    BY <1>3, <2>1, ReadFailsMoved
  <2>3. PlainRows
    BY <1>3, QuietPlain DEF ReadFails, database
  <2> QED BY <2>2, <2>3
<1>4. CASE VerdictRepair(p)
  <2>2. Plain(p)
    BY <1>4, VerdictRepairMoved DEF VerdictRepair, RecordVerdict
  <2>3. PlainRows
    BY <1>4 DEF VerdictRepair, PlainRows, Unborn, TypeOK, RecordVerdict,
       RowExists, Ops, Kinds, OpsOf, Rows
  <2> QED BY <2>2, <2>3
<1>5. CASE VerdictScrub(p)
  <2>2. Plain(p)
    BY <1>5, VerdictScrubMoved DEF VerdictScrub, RecordVerdict
  <2>3. PlainRows
    BY <1>5 DEF VerdictScrub, PlainRows, Unborn, TypeOK, RecordVerdict,
       RowExists, Ops, Kinds, OpsOf, Rows
  <2> QED BY <2>2, <2>3
<1>6. CASE VerdictDownload(p)
  <2>2. Plain(p)
    BY <1>6, VerdictDownloadMoved DEF VerdictDownload, RecordVerdict
  <2>3. PlainRows
    BY <1>6 DEF VerdictDownload, PlainRows, Unborn, TypeOK, RecordVerdict,
       RowExists, Ops, Kinds, OpsOf, Rows
  <2> QED BY <2>2, <2>3
<1> QED BY <1>1, <1>2, <1>3, <1>4, <1>5, <1>6 DEF Verify

\* The steps of Schedule are plain.
LEMMA SchedulePlain ==
  ASSUME TypeInv, Unborn, NEW p \in Procs, Schedule(p)
  PROVE  Plain(p) /\ PlainRows
<1> USE ShapeNow, MovedPlain DEF ShapeOf, OpLabels, ReadLabels, VisitLabels, At, Ready
<1>1. CASE \E n \in Nodes : Visit(p, n)
  <2>2. Plain(p)
    BY <1>1, VisitMoved DEF Visit
  <2>3. PlainRows
    BY <1>1, QuietPlain DEF Visit, database
  <2> QED BY <2>2, <2>3
<1>2. CASE Visited(p)
  <2>1. proc[p].pc \notin {"boot", "idle"} /\ proc[p].cur = NoOp
    BY <1>2, FreeLabel DEF Visited
  <2> HIDE DEF ShapeOf, OpLabels, ReadLabels, VisitLabels, At, Ready
  <2>2. Plain(p)
    BY <1>2, <2>1, GotoPlain, FinishPlain, StartPlain DEF Visited, Labels
  <2>3. PlainRows
    BY <1>2, QuietPlain DEF Visited, database
  <2> QED BY <2>2, <2>3
<1>3. CASE Lookup(p)
  <2>2. Plain(p)
    BY <1>3, LookupMoved DEF Lookup
  <2>3. PlainRows
    BY <1>3, QuietPlain DEF Lookup, database
  <2> QED BY <2>2, <2>3
<1>4. CASE Enqueue(p)
  <2>2. Plain(p)
    BY <1>4, EnqueueMoved DEF Enqueue
  <2>3. PlainRows
    BY <1>4 DEF Enqueue, PlainRows, Unborn, TypeOK, RecordVerdict, RowExists,
       Ops, Kinds, OpsOf, Rows
  <2> QED BY <2>2, <2>3
<1>5. CASE Mark(p)
  <2>2. Plain(p)
    BY <1>5, MarkMoved DEF Mark
  <2>3. PlainRows
    BY <1>5 DEF Mark, PlainRows, Unborn, TypeOK, RecordVerdict, RowExists,
       Ops, Kinds, OpsOf, Rows, ProcState
  <2> QED BY <2>2, <2>3
<1>6. CASE Replace(p)
  <2>2. Plain(p)
    BY <1>6, ReplaceMoved DEF Replace
  <2>3. PlainRows
    BY <1>6, QuietPlain DEF Replace, database
  <2> QED BY <2>2, <2>3
<1>7. CASE Insert(p)
  <2>2. Plain(p)
    BY <1>7, InsertMoved DEF Insert
  <2>3. PlainRows
    BY <1>7 DEF Insert, PlainRows, Unborn, TypeOK, RecordVerdict, RowExists,
       Ops, Kinds, OpsOf, Rows
  <2> QED BY <2>2, <2>3
<1>8. CASE Queue(p)
  <2>2. Plain(p)
    BY <1>8, QueueMoved DEF Queue
  <2>3. PlainRows
    BY <1>8, QuietPlain DEF Queue, database
  <2> QED BY <2>2, <2>3
<1> QED BY <1>1, <1>2, <1>3, <1>4, <1>5, <1>6, <1>7, <1>8 DEF Schedule

\* The steps of Request are plain, those that take or end an operation apart.
LEMMA RequestPlain ==
  ASSUME TypeInv, Unborn, NEW p \in Procs, Request(p)
  PROVE  \/ Plain(p) /\ PlainRows
         \/ Upload(p)
<1> USE ShapeNow, MovedPlain DEF ShapeOf, OpLabels, ReadLabels, VisitLabels, At, Ready
<1>1. CASE Retry(p)
  <2>1. proc[p].pc # "boot" /\ ~Booting /\ proc[p].cur = NoOp
    BY <1>1, FreeLabel DEF Retry
  <2> HIDE DEF ShapeOf, OpLabels, ReadLabels, VisitLabels, At, Ready
  <2>2. Plain(p)
    BY <1>1, <2>1, GotoPlain, FinishPlain, StartPlain DEF Retry, Labels,
       JobKinds
  <2>3. PlainRows
    BY <1>1, QuietPlain DEF Retry, database
  <2> QED BY <2>2, <2>3
<1>2. CASE Delete(p)
  <2>1. proc[p].pc # "boot" /\ ~Booting /\ proc[p].cur = NoOp
    BY <1>2, FreeLabel DEF Delete
  <2> HIDE DEF ShapeOf, OpLabels, ReadLabels, VisitLabels, At, Ready
  <2>2. Plain(p)
    BY <1>2, <2>1, GotoPlain, FinishPlain, StartPlain DEF Delete, Labels,
       JobKinds
  <2>3. PlainRows
    BY <1>2 DEF Delete, PlainRows, Unborn, TypeOK, RecordVerdict, RowExists,
       Ops, Kinds, OpsOf, Rows
  <2> QED BY <2>2, <2>3
<1>3. CASE Download(p)
  <2>1. proc[p].cur = NoOp /\ proc[p].pc # "boot" /\ ~Booting
    BY <1>3 DEF Download
  <2>2. Plain(p)
    BY <1>3, <2>1, DownloadMoved
  <2>3. PlainRows
    BY <1>3, QuietPlain DEF Download, database
  <2> QED BY <2>2, <2>3
<1>4. CASE Scrub(p)
  <2>1. proc[p].cur = NoOp /\ proc[p].pc # "boot" /\ ~Booting
    BY <1>4 DEF Scrub
  <2>2. Plain(p)
    BY <1>4, <2>1, ScrubMoved
  <2>3. PlainRows
    BY <1>4, QuietPlain DEF Scrub, database
  <2> QED BY <2>2, <2>3
<1>5. CASE \E aged \in SUBSET Nodes : RepairPass(p, aged)
  <2>1. proc[p].cur = NoOp /\ proc[p].pc # "boot" /\ ~Booting
    BY <1>5 DEF RepairPass
  <2>2. Plain(p)
    BY <1>5, <2>1, RepairPassMoved
  <2>3. PlainRows
    BY <1>5, QuietPlain DEF RepairPass, database
  <2> QED BY <2>2, <2>3
<1> QED BY <1>1, <1>2, <1>3, <1>4, <1>5 DEF Request

\* A plain step keeps the invariant.
LEMMA PlainRunner ==
  ASSUME TypeInv, RunnerInv, NEW p \in Procs, Plain(p), PlainRows
  PROVE  RunnerInv'
<1>1. Unborn'
  BY DEF RunnerInv, Unborn, Plain, PlainRows
<1>2. BootInv'
  <2>1. \A q \in Procs : proc[q].pc = "boot" => Booting
    BY DEF TypeInv, Shape, ShapeOf, Booting
  <2> QED BY <2>1 DEF RunnerInv, BootInv, Plain
<1>3. CreateInv'
  BY DEF RunnerInv, CreateInv, Plain, PlainRows, OpsOf
<1>4. OneCreator'
  BY DEF RunnerInv, OneCreator, Plain
<1>5. RunningHasRunner'
  BY DEF RunnerInv, RunningHasRunner, Plain, PlainRows
<1> QED BY <1>1, <1>2, <1>3, <1>4, <1>5 DEF RunnerInv

\* An upload creates its operations while no job runs any.
LEMMA UploadRunner ==
  ASSUME TypeInv, RunnerInv, NEW p \in Procs, Upload(p)
  PROVE  RunnerInv'
<1>1. proc[p].cur = NoOp /\ proc[p].pc = "idle" /\ ~Booting
  BY FreeLabel DEF Upload, Ready, At, OpLabels, ReadLabels
<1>2. Plain(p)
  BY <1>1, StartPlain DEF Upload, Labels, JobKinds
<1>3. file' = "PENDING" /\ \A q \in Procs : proc[q].cur = NoOp
  BY DEF Upload, RunnerInv, Unborn
<1>4. \A o \in Ops : op'[o] # "RUNNING"
  BY DEF Upload
<1>5. \A q \in Procs : proc[q].pc = "boot" => Booting
  BY DEF TypeInv, Shape, ShapeOf, Booting
<1>6. Unborn'
  BY <1>3 DEF Unborn
<1>7. BootInv'
  BY <1>1, <1>2, <1>5 DEF RunnerInv, BootInv, Plain
<1>8. CreateInv' /\ OneCreator'
  BY <1>2, <1>3, NoOpFree DEF CreateInv, OneCreator, Plain, OpsOf, Ops, Kinds
<1>9. RunningHasRunner'
  BY <1>4 DEF RunningHasRunner
<1> QED BY <1>6, <1>7, <1>8, <1>9 DEF RunnerInv

\* A claim goes through only if nobody runs the CREATE operation.
LEMMA ClaimRunner ==
  ASSUME TypeInv, RunnerInv, NEW p \in Procs, NEW o \in Ops, Claim(p, o)
  PROVE  RunnerInv'
<1>1. Moved(p, "begin", proc[p].job, o, proc[p].src, proc[p].got)
  BY ShapeNow, ClaimMoved
<1>2. /\ proc'[p].cur = o /\ proc'[p].pc = "begin" /\ proc[p].pc = "loop"
      /\ \A q \in Procs : q # p => proc'[q] = proc[q]
  BY <1>1 DEF Moved, Claim, At
<1>3. /\ op[o] \in {"PENDING", "FAILED"} /\ op' = [op EXCEPT ![o] = "RUNNING"]
      /\ file' = file /\ op \in [Ops -> OpStatus]
  BY ShapeNow DEF Claim, Claimable, TypeOK
<1>4. Unborn'
  BY <1>3 DEF RunnerInv, Unborn
<1>5. BootInv'
  BY <1>2 DEF RunnerInv, BootInv
<1>6. \A q \in Procs : o \in OpsOf("CREATE") => proc[q].cur # o
  BY <1>3 DEF RunnerInv, CreateInv
<1>7. CreateInv' /\ OneCreator'
  BY <1>2, <1>3, <1>6 DEF RunnerInv, CreateInv, OneCreator, OpsOf, Ops, Kinds
<1>8. proc[p].cur = NoOp
  BY <1>2, FreeLabel DEF OpLabels, ReadLabels
<1>9. RunningHasRunner'
  BY <1>2, <1>3, <1>8, NoOpFree DEF RunnerInv, RunningHasRunner
<1> QED BY <1>4, <1>5, <1>7, <1>9 DEF RunnerInv

\* Commit and Reject.
LEMMA EndRunner ==
  ASSUME TypeInv, RunnerInv, NEW p \in Procs, Commit(p) \/ Reject(p)
  PROVE  RunnerInv'
<1>1. Moved(p, "loop", proc[p].job, NoOp, NoNode, "none")
  BY ShapeNow, NextOpMoved DEF Commit, Reject
<1>2. /\ proc'[p].cur = NoOp /\ proc'[p].pc = "loop"
      /\ proc[p].pc \notin {"boot", "idle"}
      /\ \A q \in Procs : q # p => proc'[q] = proc[q]
  BY <1>1 DEF Moved, Commit, Reject, At
<1>3. PICK o \in Ops, s \in {"DONE", "FAILED"} :
         o = proc[p].cur /\ op[o] # "NONE" /\ op' = [op EXCEPT ![o] = s]
  BY ShapeNow DEF Commit, Reject, At, ShapeOf, OpLabels
<1>4. file' = file /\ op \in [Ops -> OpStatus]
  BY ShapeNow DEF Commit, Reject, TypeOK
<1>5. Unborn'
  BY <1>3, <1>4 DEF RunnerInv, Unborn
<1>6. BootInv'
  BY <1>2 DEF RunnerInv, BootInv
<1>7. \A q \in Procs \ {p} : o \in OpsOf("CREATE") => proc[q].cur # o
  BY <1>3 DEF RunnerInv, OneCreator
<1>8. CreateInv' /\ OneCreator'
  BY <1>2, <1>3, <1>4, <1>7, NoOpFree
     DEF RunnerInv, CreateInv, OneCreator, OpsOf, Ops, Kinds
<1>9. RunningHasRunner'
  BY <1>2, <1>3, <1>4 DEF RunnerInv, RunningHasRunner
<1> QED BY <1>5, <1>6, <1>8, <1>9 DEF RunnerInv

\* Vanished and Drop end the job.
LEMMA StopRunner ==
  ASSUME TypeInv, RunnerInv, NEW p \in Procs, Vanished(p) \/ Drop(p)
  PROVE  RunnerInv'
<1>1. Moved(p, "idle", "none", NoOp, NoNode, "none")
  BY ShapeNow, FinishMoved DEF Vanished, Drop
<1>2. /\ proc'[p].cur = NoOp /\ proc'[p].pc = "idle"
      /\ proc[p].pc \notin {"boot", "idle"}
      /\ \A q \in Procs : q # p => proc'[q] = proc[q]
  BY <1>1 DEF Moved, Vanished, Drop, At
<1>3. /\ (op' = op /\ file' = file /\ replica' = replica)
         \/ (file' = "GONE" /\ \A o \in Ops : op'[o] = "NONE")
      /\ op \in [Ops -> OpStatus]
  BY ShapeNow DEF Vanished, Drop, database, TypeOK
<1>4. \A o \in Ops : proc[p].cur = o => op'[o] = "NONE"
  BY <1>3, FreeLabel, NoOpFree
     DEF Vanished, Drop, At, OpLabels, ReadLabels, database
<1>5. Unborn'
  BY <1>2, <1>3 DEF RunnerInv, Unborn
<1>6. BootInv'
  BY <1>2 DEF RunnerInv, BootInv
<1>7. CreateInv' /\ OneCreator'
  BY <1>2, <1>3, NoOpFree DEF RunnerInv, CreateInv, OneCreator, OpsOf, Ops,
     Kinds
<1>8. RunningHasRunner'
  BY <1>2, <1>3, <1>4 DEF RunnerInv, RunningHasRunner
<1> QED BY <1>5, <1>6, <1>7, <1>8 DEF RunnerInv

\* A startup resets the operations while nobody runs one.
LEMMA BootRunner ==
  ASSUME TypeInv, RunnerInv, NEW p \in Procs, Boot(p)
  PROVE  RunnerInv'
<1>1. /\ Moved(p, "loop", proc[p].job, proc[p].cur, proc[p].src, proc[p].got)
      /\ proc[p].pc = "boot" /\ file' = file
  BY ShapeNow, BootMoved DEF Boot, At
<1>2. /\ \A q \in Procs : proc[q].cur = NoOp
      /\ \A q \in Procs : q # p => proc[q].pc = "idle"
  BY <1>1, FreeLabel DEF RunnerInv, BootInv, OpLabels, ReadLabels
<1>3. /\ \A q \in Procs : proc'[q].cur = NoOp /\ proc'[q].pc # "boot"
      /\ replica' = replica
  BY <1>1, <1>2 DEF Moved, Boot
<1>4. \A o \in Ops : op'[o] # "RUNNING" /\ (op[o] = "NONE" => op'[o] = "NONE")
  BY DEF Boot, Recovered
<1>5. Unborn'
  BY <1>1, <1>3, <1>4 DEF RunnerInv, Unborn
<1>6. BootInv' /\ CreateInv' /\ OneCreator'
  BY <1>3, NoOpFree DEF BootInv, CreateInv, OneCreator, OpsOf, Ops, Kinds
<1>7. RunningHasRunner'
  BY <1>4 DEF RunningHasRunner
<1> QED BY <1>5, <1>6, <1>7 DEF RunnerInv

\* A crash leaves nobody running anything.
LEMMA CrashRunner ==
  ASSUME TypeInv, RunnerInv, NEW p \in Procs, Crash(p)
  PROVE  RunnerInv'
<1> DEFINE s == [Idle EXCEPT !.pc = "boot", !.job = "boot"]
<1>1. s.pc = "boot" /\ s.cur = NoOp
  BY DEF Idle
<1>2. proc' = [[q \in Procs |-> Idle] EXCEPT ![p] = s] /\ UNCHANGED <<file, replica, op>>
  BY DEF Crash, database
<1> HIDE DEF s
<1>3. /\ \A q \in Procs : proc'[q].cur = NoOp
      /\ \A q \in Procs : q # p => proc'[q].pc = "idle"
      /\ proc'[p].pc = "boot"
  BY <1>1, <1>2, IdleType
<1>4. Unborn' /\ BootInv' /\ RunningHasRunner'
  BY <1>2, <1>3 DEF RunnerInv, Unborn, BootInv, RunningHasRunner
<1>5. CreateInv' /\ OneCreator'
  BY <1>3, NoOpFree DEF CreateInv, OneCreator, OpsOf, Ops, Kinds
<1> QED BY <1>4, <1>5 DEF RunnerInv

\* A step of the environment keeps the invariant.
LEMMA StillRunner ==
  ASSUME RunnerInv, UNCHANGED <<file, replica, op, proc>>
  PROVE  RunnerInv'
  BY DEF RunnerInv, Unborn, BootInv, CreateInv, OneCreator, RunningHasRunner

\* Initially nothing runs.
LEMMA InitRunner == Init => RunnerInv
<1> SUFFICES ASSUME Init PROVE RunnerInv
  OBVIOUS
<1>1. /\ \A p \in Procs : proc[p].cur = NoOp /\ proc[p].pc = "idle"
      /\ \A o \in Ops : op[o] = "NONE"
      /\ \A n \in Nodes : replica[n] = "NONE"
  BY IdleType DEF Init
<1> QED BY <1>1, NoOpFree
     DEF RunnerInv, Unborn, BootInv, CreateInv, OneCreator, RunningHasRunner,
         OpsOf, Ops, Kinds

\* Every step keeps the invariant.
LEMMA NextRunner == TypeInv /\ RunnerInv /\ [Next]_vars => RunnerInv'
<1> SUFFICES ASSUME TypeInv, RunnerInv, [Next]_vars PROVE RunnerInv'
  OBVIOUS
<1>1. ASSUME NEW p \in Procs, Request(p) \/ Advance(p) PROVE RunnerInv'
  <2>1. Unborn
    BY DEF RunnerInv
  <2> QED
    BY <1>1, <2>1, RequestPlain, OperatePlain, ReconcilePlain, VerifyPlain,
       SchedulePlain, PlainRunner, UploadRunner, ClaimRunner, EndRunner,
       StopRunner, BootRunner DEF Advance
<1>2. ASSUME NEW p \in Procs, Crash(p) PROVE RunnerInv'
  BY <1>2, CrashRunner
<1>3. CASE \/ \E n \in Nodes : NodeDown(n) \/ NodeUp(n) \/ Damage(n)
           \/ \E o \in Ops : LatePut(o)
  BY <1>3, StillRunner DEF NodeDown, NodeUp, Damage, LatePut, database
<1>4. CASE UNCHANGED vars
  BY <1>4, StillRunner DEF vars
<1> QED BY <1>1, <1>2, <1>3, <1>4 DEF Next, Environment

\* RunnerInv holds in every behaviour of the coordinator.
THEOREM RunnerInvariant == Spec => []RunnerInv
<1>1. Init => TypeInv /\ RunnerInv
  BY InitType, InitRunner
<1>2. TypeInv /\ RunnerInv /\ [Next]_vars => (TypeInv /\ RunnerInv)'
  BY NextType, NextRunner
<1> QED BY <1>1, <1>2, PTL DEF Spec

\* OneCreator: claim() of operation-service.ts lets one job at a time run a
\* CREATE operation.
THEOREM CreatorCorrect == Spec => []OneCreator
<1>1. RunnerInv => OneCreator
  BY DEF RunnerInv
<1> QED BY <1>1, RunnerInvariant, PTL

\* RunningHasRunner: no operation stays RUNNING without a job that runs it or
\* a startup that resets it.
THEOREM RunnerCorrect == Spec => []RunningHasRunner
<1>1. RunnerInv => RunningHasRunner
  BY DEF RunnerInv
<1> QED BY <1>1, RunnerInvariant, PTL

\* Only a verified replica is streamed to a user.
LEMMA NextServed == TypeInv /\ ServedIsGood /\ [Next]_vars => ServedIsGood'
<1> SUFFICES ASSUME TypeInv, ServedIsGood, [Next]_vars PROVE ServedIsGood'
  OBVIOUS
<1>1. ASSUME NEW p \in Procs, VerdictDownload(p) PROVE ServedIsGood'
  BY <1>1, VerdictData DEF VerdictDownload, ServedIsGood
<1>2. CASE UNCHANGED served
  BY <1>2 DEF ServedIsGood
<1>3. ASSUME NEW p \in Procs, Request(p) PROVE UNCHANGED served
  BY <1>3 DEF Request, Upload, Retry, Delete, Download, Scrub, RepairPass
<1>4. ASSUME NEW p \in Procs, Operate(p) PROVE UNCHANGED served
  BY <1>4 DEF Operate, Claim, NotClaimed, AllRun, BeginCreate, BeginDelete,
       BeginRepair, Source, NoSource, Put, PutConflict, PutFails, Confirm,
       ConfirmFails, Erase, EraseFails, Commit, Reject
<1>5. ASSUME NEW p \in Procs, Reconcile(p) PROVE UNCHANGED served
  BY <1>5 DEF Reconcile, List, Inspect, Drop, Publish, Unsession, Unstage,
       Vanished, Boot
<1>6. ASSUME NEW p \in Procs, Schedule(p) PROVE UNCHANGED served
  BY <1>6 DEF Schedule, Visit, Visited, Lookup, Enqueue, Mark, Replace,
     Insert, Queue
<1>7. ASSUME NEW p \in Procs, Verify(p) PROVE UNCHANGED served \/ VerdictDownload(p)
  BY <1>7 DEF Verify, Head, Get, ReadFails, VerdictRepair, VerdictScrub
<1>8. Environment => UNCHANGED served
  BY DEF Environment, Crash, NodeDown, NodeUp, Damage, LatePut
<1>9. UNCHANGED vars => UNCHANGED served
  BY DEF vars
<1> QED BY <1>1, <1>2, <1>3, <1>4, <1>5, <1>6, <1>7, <1>8, <1>9 DEF Next,
   Advance

\* ServedIsGood: openDownload streams no bytes that failed their hash, whatever
\* happens to the object on its node meanwhile.
THEOREM ServedCorrect == Spec => []ServedIsGood
<1>1. Init => TypeInv /\ ServedIsGood
  BY InitType DEF Init, ServedIsGood
<1>2. TypeInv /\ ServedIsGood /\ [Next]_vars => (TypeInv /\ ServedIsGood)'
  BY NextType, NextServed
<1> QED BY <1>1, <1>2, PTL DEF Spec
=============================================================================
