---------------------------- MODULE NodeRegistry ----------------------------
(***************************************************************************)
(* The coordinator's view of its storage nodes: overlapping heartbeat      *)
(* ticks (heartbeat-service.ts), the refresh before an upload, the status  *)
(* and heartbeat of each node's row, the ageing of heartbeats and the      *)
(* choice of nodes for a new file (metadata-service.ts).                   *)
(*                                                                         *)
(* Time is discrete. Every instant is kept as its age, which saturates     *)
(* where nothing distinguishes it any more, so clocks stay finite while    *)
(* behaviours do not end. A database step takes less than a unit of time   *)
(* and is one with the answer it follows.                                  *)
(***************************************************************************)
EXTENDS Placement

CONSTANTS
    Nodes,     \* storage nodes
    Interval,  \* HEARTBEAT_INTERVAL_MS
    Timeout,   \* STORAGE_REQUEST_TIMEOUT_MS
    Failure,   \* STORAGE_FAILURE_TIMEOUT_MS
    Latency,   \* how long a working node takes to answer at most
    Load,      \* what each node reports of itself, as a placement candidate
    Copies,    \* replicas of a file
    Clusters,  \* sets of candidates that placement is looked at for
    Whole,     \* a capacity that all of theirs divide
    MaxTurns   \* bound on how often nodes stop or come back

ASSUME TimesAssumption ==
    /\ {Interval, Timeout, Failure} \subseteq Nat \ {0}
    /\ Latency \in 0..Timeout
ASSUME BoundsAssumption == MaxTurns \in Nat
ASSUME LoadAssumption == \A m, n \in Nodes : m # n => Load[m].id # Load[n].id
ASSUME ClustersAssumption ==
    Whole \in Nat /\ \A cluster \in Clusters : IsCluster(cluster, Whole)

VARIABLES
    status,  \* StorageNode.status
    beat,    \* the age of lastHeartbeatAt, Old when there is none
    up,      \* the node is working
    age,     \* for how long it has been working, or not
    turns,   \* how often that has changed
    rounds,  \* ticks and refreshes under way: one probe of every node each
    timer,   \* time since the heartbeat timer fired, Off before it started
    running, \* time since it started
    chosen   \* the nodes chosen for the upload under way

nodes == <<up, age, turns>>
clock == <<timer, running>>
vars == <<status, beat, nodes, rounds, clock, chosen>>

Old == Failure + 1
Off == -1
\* By then a change of a node is in its row. What it answered before it stopped
\* may come in until a timeout later and be recorded over what a tick since has
\* learnt; the next tick asks twice. A tick that misses a return has asked
\* before it, a unit at least.
DeathKnown == Interval + 3 * Timeout
ReturnKnown == Interval + Timeout + 2 * Latency - 1
Horizon == DeathKnown + Latency   \* where the age of a node's state saturates

\* A tick asks for health and capacity at once ("ask") and, when capacity
\* fails, for capacity "again". A refresh asks for "health", then "capacity".
Stages == {"ask", "again", "health", "capacity", "done", "failed"}
Probe == [stage: Stages,
          age: 0..Timeout,                        \* of the request under way
          health: {"waiting", "alive", "dead"},
          seen: 0..Old,                           \* the age of checkedAt
          sized: BOOLEAN]                         \* capacity is known
Ask(stage) == [stage |-> stage, age |-> 0, health |-> "waiting",
               seen |-> 0, sized |-> FALSE]
Done == [Ask("done") EXCEPT !.health = "dead"]
Failed == [Done EXCEPT !.stage = "failed"]

Round == [kind: {"tick", "refresh"}, age: 0..(2 * Timeout), probe: [Nodes -> Probe]]
Begin(kind, stage) == [kind |-> kind, age |-> 0, probe |-> [n \in Nodes |-> Ask(stage)]]
Pending(probe) == probe.stage \notin {"done", "failed"}
With(r, n, probe) == [r EXCEPT !.probe[n] = probe]
Over(r) == \A n \in Nodes : ~Pending(r.probe[n])

\* The server has started: whatever an earlier process left in the rows, though
\* no heartbeat of a node that has stopped, and the first tick.
Init ==
    /\ status \in [Nodes -> {"HEALTHY", "UNAVAILABLE"}]
    /\ beat \in [Nodes -> 0..Old]
    /\ up \in [Nodes -> BOOLEAN]
    /\ \A n \in Nodes : ~up[n] => beat[n] = Old
    /\ age = [n \in Nodes |-> Horizon + 1]
    /\ turns = 0
    /\ rounds = {Begin("tick", "ask")}
    /\ timer = Off /\ running = 0
    /\ chosen = {}

-----------------------------------------------------------------------------
(* Answers of the nodes and what is recorded of them.                      *)

\* recordHeartbeat: lastHeartbeatAt changes only when the node was alive.
StatusAlways(probe) == "HEALTHY"     \* mistake: a refresh that looks at capacity only
StatusOf(probe) == IF probe.health = "alive" THEN "HEALTHY" ELSE "UNAVAILABLE"
BeatAlways(n, probe) == probe.seen   \* mistake: also when the node was not alive
BeatOf(n, probe) == IF probe.health = "alive" THEN probe.seen ELSE beat[n]

Record(n, probe) ==
    /\ status' = [status EXCEPT ![n] = StatusOf(probe)]
    /\ beat' = [beat EXCEPT ![n] = BeatOf(n, probe)]

\* The probe of n goes on as next; its result is recorded once it is complete.
Continue(r, n, next, complete) ==
    /\ rounds' = (rounds \ {r}) \union {With(r, n, IF complete THEN Done ELSE next)}
    /\ IF complete THEN Record(n, next) ELSE UNCHANGED <<status, beat>>
    /\ UNCHANGED <<nodes, clock, chosen>>

\* n has worked at some time since it was asked: its answer may come in, also
\* when it has stopped meanwhile, and counts from when it comes (checkedAt).
Heard(n, probe) == up[n] \/ age[n] <= probe.age
\* n has stood still at some time since then, or did not answer in time.
Missed(n, probe) == ~up[n] \/ probe.age = Timeout \/ probe.age > age[n]

\* health() is answered, or swallows the error: it never rejects.
Health(r, n) ==
    LET probe == r.probe[n]
        dead == probe.health = "waiting" /\ Missed(n, probe)
        alive == probe.health = "waiting" /\ Heard(n, probe)
    IN  /\ probe.stage \in {"ask", "health"}
        /\ \/ /\ alive
              /\ IF probe.stage = "ask"
                 THEN Continue(r, n, [probe EXCEPT !.health = "alive"], probe.sized)
                 ELSE Continue(r, n, [Ask("capacity") EXCEPT !.health = "alive"], FALSE)
           \/ /\ dead
              /\ Continue(r, n, [probe EXCEPT !.health = "dead"],
                          probe.stage = "health" \/ probe.sized)

\* capacity() is answered.
Capacity(r, n) ==
    LET probe == r.probe[n]
    IN  /\ probe.stage \in {"ask", "again", "capacity"} /\ ~probe.sized
        /\ Heard(n, probe)
        /\ CASE probe.stage = "ask" ->
                  Continue(r, n, [probe EXCEPT !.sized = TRUE], probe.health # "waiting")
             [] probe.stage = "again" ->
                  Continue(r, n, [probe EXCEPT !.health = "dead"], TRUE)
             [] probe.stage = "capacity" -> Continue(r, n, probe, TRUE)

AskForever(r, n, probe) == Continue(r, n, Ask("again"), FALSE)   \* mistake: a loop
SecondFailure(r, n, probe) == Continue(r, n, probe, TRUE)

\* capacity() rejects: a tick asks again and records the node as dead, also
\* when it fails a second time; a refresh fails, and its upload with it.
CapacityFails(r, n) ==
    LET probe == r.probe[n]
    IN  /\ probe.stage \in {"ask", "again", "capacity"} /\ ~probe.sized
        /\ Missed(n, probe)
        /\ CASE probe.stage = "ask" ->
                  Continue(r, n, [Ask("again") EXCEPT !.health = "dead"], FALSE)
             [] probe.stage = "again" -> SecondFailure(r, n, probe)
             [] probe.stage = "capacity" -> Continue(r, n, Failed, FALSE)

-----------------------------------------------------------------------------
(* Rounds, placement and time.                                             *)

FreshStrictly(n) == beat[n] < Failure   \* mistake: the last instant is too old
Fresh(n) == beat[n] <= Failure
\* markStaleDead.
Marked == [n \in Nodes |-> IF Fresh(n) THEN status[n] ELSE "UNAVAILABLE"]

EndTick(r) ==
    /\ r.kind = "tick" /\ Over(r)
    /\ status' = Marked
    /\ rounds' = rounds \ {r}
    /\ UNCHANGED <<beat, nodes, clock, chosen>>

\* chooseNodes, unless the refresh failed.
EndRefresh(r) ==
    /\ r.kind = "refresh" /\ Over(r)
    /\ \/ /\ \A n \in Nodes : r.probe[n].stage = "done"
          /\ status' = Marked
          /\ LET live == {n \in Nodes : Marked[n] = "HEALTHY"}
                 picked == ToSet(ChooseReplicaNodes({Load[n] : n \in live}, Copies))
             IN  chosen' = {n \in live : Load[n] \in picked}
       \/ /\ \E n \in Nodes : r.probe[n].stage = "failed"
          /\ UNCHANGED <<status, chosen>>
    /\ rounds' = rounds \ {r}
    /\ UNCHANGED <<beat, nodes, clock>>

\* heartbeat.start(), some time after the first tick: start-up waits for that,
\* and then for what else it has to put right.
Start ==
    /\ timer = Off /\ rounds = {}
    /\ timer' = 0
    /\ UNCHANGED <<status, beat, nodes, rounds, running, chosen>>

\* setInterval: a tick starts whether or not the previous ones are over.
Tick ==
    /\ timer = Interval
    /\ rounds' = rounds \union {Begin("tick", "ask")}
    /\ timer' = 0
    /\ UNCHANGED <<status, beat, nodes, running, chosen>>

\* prepareFile, one upload at a time, once the server listens.
Refresh ==
    /\ timer # Off
    /\ \A r \in rounds : r.kind # "refresh"
    /\ rounds' = rounds \union {Begin("refresh", "health")}
    /\ chosen' = {}
    /\ UNCHANGED <<status, beat, nodes, clock>>

\* The monitoring page's read of the nodes.
Dashboard ==
    /\ timer # Off
    /\ Marked # status
    /\ status' = Marked
    /\ UNCHANGED <<beat, nodes, rounds, clock, chosen>>

\* A node stops, or works again.
Turn(n) ==
    /\ turns < MaxTurns /\ turns' = turns + 1
    /\ up' = [up EXCEPT ![n] = ~@]
    /\ age' = [age EXCEPT ![n] = 0]
    /\ UNCHANGED <<status, beat, rounds, clock, chosen>>

\* A request ends by its timeout; a node that has been working since it was
\* sent answers within Latency. The code's timer stops at the headers: the few
\* bytes of the body are taken to come with them.
MayWait(n, probe) ==
    Pending(probe) =>
        probe.age < (IF up[n] /\ probe.age <= age[n] THEN Latency ELSE Timeout)

Older(a, limit) == IF a < limit THEN a + 1 ELSE limit
Aged(probe) ==
    IF Pending(probe)
    THEN [probe EXCEPT !.age = @ + 1,
                       !.seen = IF probe.health = "alive" THEN Older(@, Old) ELSE @]
    ELSE probe
Later(r) == [r EXCEPT !.age = @ + 1, !.probe = [n \in Nodes |-> Aged(r.probe[n])]]

Pass ==
    /\ \A r \in rounds : ~Over(r) /\ \A n \in Nodes : MayWait(n, r.probe[n])
    /\ timer < Interval
    /\ timer' = IF timer = Off THEN Off ELSE timer + 1
    /\ running' = IF timer = Off THEN running ELSE Older(running, DeathKnown + 1)
    /\ chosen' = {}
    /\ rounds' = {Later(r) : r \in rounds}
    /\ beat' = [n \in Nodes |-> Older(beat[n], Old)]
    /\ age' = [n \in Nodes |-> Older(age[n], Horizon + 1)]
    /\ UNCHANGED <<status, up, turns>>

-----------------------------------------------------------------------------
Program ==
    \/ \E r \in rounds, n \in Nodes : Health(r, n) \/ Capacity(r, n) \/ CapacityFails(r, n)
    \/ \E r \in rounds : EndTick(r) \/ EndRefresh(r)
    \/ Start \/ Tick

Next ==
    \/ Program \/ Pass \/ Refresh \/ Dashboard
    \/ \E n \in Nodes : Turn(n)

Spec == Init /\ [][Next]_vars

-----------------------------------------------------------------------------
\* Every variable has its type; in particular no tick, and no refresh, lasts
\* longer than two request timeouts (heartbeat-service.ts:9-19).
TypeOK ==
    /\ status \in [Nodes -> {"HEALTHY", "UNAVAILABLE"}]
    /\ beat \in [Nodes -> 0..Old]
    /\ up \in [Nodes -> BOOLEAN]
    /\ age \in [Nodes -> 0..(Horizon + 1)]
    /\ turns \in 0..MaxTurns
    /\ \A r \in rounds : r \in Round
    /\ timer \in {Off} \union 0..Interval
    /\ running \in 0..(DeathKnown + 1)
    /\ chosen \subseteq Nodes

\* A row's heartbeat is from when the node worked or from an answer it still
\* gave then, so from no later than a request timeout after it stopped, however
\* late that answer and the one on its capacity are recorded.
BeatIsHeard ==
    \A n \in Nodes : ~up[n] => age[n] <= beat[n] + Timeout \/ beat[n] = Old

\* The nodes an upload gets have been working at most a request timeout before
\* its refresh began, or since: what a refresh has learnt of a dead node is
\* undone only by a tick's answer from that time which comes in after it.
ChosenAnswered ==
    [][\A r \in rounds \ rounds' : r.kind = "refresh" =>
          \A n \in chosen' : up[n] \/ age[n] <= r.age + Timeout]_vars

\* A node that stopped is UNAVAILABLE by then, although answers from before it
\* stopped come in after a newer tick has found it dead and make it HEALTHY
\* again, and however long start-up took.
DeadIsNoticed ==
    running > DeathKnown => \A n \in Nodes :
        ~up[n] /\ age[n] > DeathKnown => status[n] = "UNAVAILABLE"

\* A node that works and answers within Latency is HEALTHY by then and stays
\* so, although ticks overlap and record older heartbeats over newer ones.
AliveIsNoticed ==
    running > DeathKnown => \A n \in Nodes :
        up[n] /\ age[n] > ReturnKnown => status[n] = "HEALTHY"

\* chooseReplicaNodes gives a file the least utilised nodes that have room, the
\* first of them as PRIMARY, for one copy or more, also when fewer have room
\* than copies are asked for (placement.ts:4-13). It is about no state, and
\* looked at in the initial ones only.
PlacementIsLeast ==
    Init => \A cluster \in Clusters : \A count \in 1..(Cardinality(cluster) + 1) :
        LeastUtilised(ChooseReplicaNodes(cluster, count), cluster, count, Whole)
=============================================================================
