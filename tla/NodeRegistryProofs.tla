------------------------- MODULE NodeRegistryProofs -------------------------
(***************************************************************************)
(* What holds of the coordinator's view of its nodes for any number of     *)
(* them, of their failures and returns, and of overlapping ticks, whatever *)
(* the interval and the timeouts are: no round lasts longer than two       *)
(* request timeouts; no row claims a heartbeat from later than a request   *)
(* timeout after its node stopped; uploads get nodes that worked at most   *)
(* that long before their refresh; the status of a node follows its state  *)
(* within fixed times, although answers overtake each other; and placement *)
(* chooses the least utilised nodes, for any number of them and of copies. *)
(*                                                                         *)
(* The timed invariants are each a list of the times at which the status   *)
(* may still lag: before a tick has begun since the change, or while one   *)
(* that has begun since is on its way. As ticks begin every Interval and   *)
(* are over in bounded time, both end.                                     *)
(***************************************************************************)
EXTENDS NodeRegistry, FiniteSetTheorems, TLAPS

\* What a round of this kind and this age says of a probe of it.
Fits(kind, a, p) ==
    /\ p \in Probe
    /\ kind = "tick" => p.stage \in {"ask", "again", "done"}
    /\ kind = "refresh" => p.stage \in {"health", "capacity", "done", "failed"}
    /\ Pending(p) => p.age <= a /\ p.seen <= p.age
    /\ p.stage \in {"ask", "health"} => a <= p.age
    /\ p.stage \in {"again", "capacity"} => a <= Timeout + p.age
    /\ p.stage = "health" => p.health = "waiting"
    /\ p.stage = "capacity" => p.health = "alive"
    /\ p.stage = "again" => p.health = "dead"
    /\ p.stage # "ask" \/ p.health # "waiting" => ~p.sized
    /\ p.health = "waiting" => p.seen = 0

\* A round: its probes fit its age.
Sound(r) ==
    /\ r \in Round
    /\ \A n \in Nodes : Fits(r.kind, r.age, r.probe[n])

\* The types, and the phases of a probe.
TypeInv ==
    /\ TypeOK
    /\ \A r \in rounds : Sound(r)
    /\ timer = Off => running = 0

-----------------------------------------------------------------------------
(* Rounds and probes.                                                      *)

LEMMA Times ==
    /\ Interval \in Nat /\ Timeout \in Nat /\ Failure \in Nat /\ Latency \in Nat
    /\ Interval > 0 /\ Timeout > 0 /\ Failure > 0 /\ Latency <= Timeout
    /\ Old \in Nat /\ Old = Failure + 1
    /\ DeathKnown \in Nat /\ DeathKnown = Interval + Timeout + Timeout + Timeout
    /\ Horizon \in Nat /\ Horizon = Interval + Timeout + Timeout + Timeout + Latency
    /\ MaxTurns \in Nat /\ 2 * Timeout = Timeout + Timeout
    /\ 3 * Timeout = Timeout + Timeout + Timeout
  BY TimesAssumption, BoundsAssumption DEF Old, DeathKnown, Horizon

LEMMA AskIs ==
  ASSUME NEW stage \in Stages
  PROVE  /\ Ask(stage) \in Probe
         /\ Ask(stage).stage = stage /\ Ask(stage).age = 0 /\ Ask(stage).health = "waiting"
         /\ Ask(stage).seen = 0 /\ Ask(stage).sized = FALSE
  BY Times DEF Ask, Probe

LEMMA DoneIs ==
  /\ Done \in Probe /\ Done.stage = "done" /\ Done.health = "dead" /\ Done.sized = FALSE
  /\ Failed \in Probe /\ Failed.stage = "failed" /\ Failed.health = "dead"
  /\ Failed.sized = FALSE /\ ~Pending(Done) /\ ~Pending(Failed)
  <1>1. "done" \in Stages /\ "failed" \in Stages
    BY DEF Stages
  <1>2. Done \in Probe /\ Done.stage = "done" /\ Done.health = "dead" /\ Done.sized = FALSE
    <2>1. Ask("done") \in Probe /\ Ask("done").stage = "done" /\ Ask("done").sized = FALSE
      BY <1>1, AskIs
    <2> QED  BY <2>1 DEF Done, Probe
  <1>3. /\ Failed \in Probe /\ Failed.stage = "failed" /\ Failed.health = "dead"
        /\ Failed.sized = FALSE
    BY <1>1, <1>2 DEF Failed, Probe
  <1> QED  BY <1>2, <1>3 DEF Pending

LEMMA DoneFits ==
  ASSUME NEW kind, NEW a
  PROVE  Fits(kind, a, Done) /\ (kind # "tick" => Fits(kind, a, Failed))
  BY DoneIs DEF Fits

LEMMA AskFits ==
  /\ Fits("tick", 0, Ask("ask"))
  /\ Fits("refresh", 0, Ask("health"))
  <1>1. "ask" \in Stages /\ "health" \in Stages
    BY DEF Stages
  <1>2. /\ Ask("ask") \in Probe /\ Ask("ask").stage = "ask" /\ Ask("ask").age = 0
        /\ Ask("ask").health = "waiting" /\ Ask("ask").seen = 0 /\ Ask("ask").sized = FALSE
    BY <1>1, AskIs
  <1>3. /\ Ask("health") \in Probe /\ Ask("health").stage = "health"
        /\ Ask("health").age = 0 /\ Ask("health").health = "waiting"
        /\ Ask("health").seen = 0 /\ Ask("health").sized = FALSE
    BY <1>1, AskIs
  <1>4. Fits("tick", 0, Ask("ask"))
    BY <1>2, Times DEF Fits, Pending
  <1>5. Fits("refresh", 0, Ask("health"))
    BY <1>3, Times DEF Fits, Pending
  <1> QED  BY <1>4, <1>5

LEMMA WithIs ==
  ASSUME NEW r \in Round, NEW n \in Nodes, NEW p \in Probe
  PROVE  /\ With(r, n, p) \in Round
         /\ With(r, n, p).kind = r.kind
         /\ With(r, n, p).age = r.age
         /\ With(r, n, p).probe[n] = p
         /\ \A m \in Nodes : m # n => With(r, n, p).probe[m] = r.probe[m]
  BY DEF With, Round

LEMMA BeginIs ==
  ASSUME NEW kind \in {"tick", "refresh"}, NEW stage \in Stages
  PROVE  /\ Begin(kind, stage) \in Round
         /\ Begin(kind, stage).kind = kind
         /\ Begin(kind, stage).age = 0
         /\ \A m \in Nodes : Begin(kind, stage).probe[m] = Ask(stage)
  <1>1. 0 \in 0..(2 * Timeout)
    BY Times
  <1> DEFINE probe == [n \in Nodes |-> Ask(stage)]
  <1>2. probe \in [Nodes -> Probe]
    BY AskIs
  <1>3. Begin(kind, stage) = [kind |-> kind, age |-> 0, probe |-> probe]
    BY DEF Begin
  <1> HIDE DEF probe
  <1>4. Begin(kind, stage) \in Round /\ Begin(kind, stage).probe = probe
    BY <1>1, <1>2, <1>3 DEF Round
  <1> QED  BY <1>3, <1>4 DEF probe

LEMMA OlderIs ==
  ASSUME NEW a \in Nat, NEW limit \in Nat, a <= limit
  PROVE  /\ Older(a, limit) \in 0..limit
         /\ Older(a, limit) <= a + 1
         /\ Older(a, limit) >= a
         /\ a < limit => Older(a, limit) = a + 1
         /\ a = limit => Older(a, limit) = limit
  BY DEF Older

LEMMA AgedIs ==
  ASSUME NEW p \in Probe, Pending(p) => p.age < Timeout
  PROVE  /\ Aged(p) \in Probe
         /\ Aged(p).stage = p.stage /\ Aged(p).health = p.health /\ Aged(p).sized = p.sized
         /\ Pending(Aged(p)) <=> Pending(p)
         /\ Pending(p) => /\ Aged(p).age = p.age + 1
                          /\ Aged(p).seen <= p.seen + 1
                          /\ p.health # "alive" => Aged(p).seen = p.seen
                          /\ p.health = "alive" => Aged(p).seen = Older(p.seen, Old)
         /\ ~Pending(p) => Aged(p) = p
  <1>1. p.seen \in 0..Old /\ p.age \in 0..Timeout
    BY DEF Probe
  <1>2. Older(p.seen, Old) \in 0..Old /\ Older(p.seen, Old) <= p.seen + 1
    BY <1>1, Times, OlderIs
  <1>3. CASE ~Pending(p)
    BY <1>3 DEF Aged
  <1>4. CASE Pending(p)
    <2> DEFINE seen == IF p.health = "alive" THEN Older(p.seen, Old) ELSE p.seen
    <2>1. Aged(p) = [p EXCEPT !.age = p.age + 1, !.seen = seen]
      BY <1>4 DEF Aged
    <2>2. /\ seen \in 0..Old /\ seen <= p.seen + 1
          /\ p.health # "alive" => seen = p.seen
          /\ p.health = "alive" => seen = Older(p.seen, Old)
      BY <1>1, <1>2, Times
    <2>3. p.age + 1 \in 0..Timeout
      BY <1>1, <1>4, Times
    <2> HIDE DEF seen
    <2> QED  BY <1>4, <2>1, <2>2, <2>3 DEF Probe, Pending
  <1> QED  BY <1>3, <1>4

LEMMA LaterIs ==
  ASSUME NEW r \in Round, r.age < 2 * Timeout,
         \A n \in Nodes : Pending(r.probe[n]) => r.probe[n].age < Timeout
  PROVE  /\ Later(r) \in Round
         /\ Later(r).kind = r.kind
         /\ Later(r).age = r.age + 1
         /\ \A n \in Nodes : Later(r).probe[n] = Aged(r.probe[n])
  <1>1. \A n \in Nodes : Aged(r.probe[n]) \in Probe
    BY AgedIs DEF Round
  <1>2. r.age + 1 \in 0..(2 * Timeout)
    BY Times DEF Round
  <1> QED  BY <1>1, <1>2 DEF Later, Round

-----------------------------------------------------------------------------
(* The answers: the cases of Health, Capacity and CapacityFails.           *)

\* The probe p of n, answered, goes on as next, or is complete and recorded.
Answered(n, p, next, complete) ==
    \/ /\ p.stage = "ask" /\ p.health = "waiting" /\ Heard(n, p)
       /\ next = [p EXCEPT !.health = "alive"] /\ complete = p.sized
    \/ /\ p.stage = "ask" /\ p.health = "waiting" /\ Missed(n, p)
       /\ next = [p EXCEPT !.health = "dead"] /\ complete = p.sized
    \/ /\ p.stage = "health" /\ p.health = "waiting" /\ Heard(n, p)
       /\ next = [Ask("capacity") EXCEPT !.health = "alive"] /\ complete = FALSE
    \/ /\ p.stage = "health" /\ p.health = "waiting" /\ Missed(n, p)
       /\ next = [p EXCEPT !.health = "dead"] /\ complete = TRUE
    \/ /\ p.stage = "ask" /\ ~p.sized /\ Heard(n, p)
       /\ next = [p EXCEPT !.sized = TRUE] /\ complete = (p.health # "waiting")
    \/ /\ p.stage = "ask" /\ ~p.sized /\ Missed(n, p)
       /\ next = [Ask("again") EXCEPT !.health = "dead"] /\ complete = FALSE
    \/ /\ p.stage = "again" /\ Heard(n, p)
       /\ next = [p EXCEPT !.health = "dead"] /\ complete = TRUE
    \/ /\ p.stage = "again" /\ Missed(n, p)
       /\ next = p /\ complete = TRUE
    \/ /\ p.stage = "capacity" /\ Heard(n, p)
       /\ next = p /\ complete = TRUE
    \/ /\ p.stage = "capacity" /\ Missed(n, p)
       /\ next = Failed /\ complete = FALSE

\* An answer to round r about n.
Answer(r, n) ==
    \E next \in Probe, complete \in BOOLEAN :
        Answered(n, r.probe[n], next, complete) /\ Continue(r, n, next, complete)

LEMMA AnswerType ==
  ASSUME NEW p \in Probe
  PROVE  /\ [p EXCEPT !.health = "alive"] \in Probe
         /\ [p EXCEPT !.health = "dead"] \in Probe
         /\ [p EXCEPT !.sized = TRUE] \in Probe
         /\ [Ask("capacity") EXCEPT !.health = "alive"] \in Probe
         /\ [Ask("again") EXCEPT !.health = "dead"] \in Probe
         /\ p.sized \in BOOLEAN /\ (p.health # "waiting") \in BOOLEAN
  <1>1. Ask("capacity") \in Probe /\ Ask("again") \in Probe
    BY AskIs DEF Stages
  <1> QED  BY <1>1 DEF Probe

LEMMA HealthAnswers ==
  ASSUME NEW r \in Round, NEW n \in Nodes, Health(r, n)
  PROVE  Answer(r, n)
  <1> DEFINE p == r.probe[n]
  <1>1. p \in Probe
    BY DEF Round
  <1>2. p.stage = "ask" \/ p.stage = "health"
    BY DEF Health
  <1> QED  BY <1>1, <1>2, AnswerType DEF Health, Answer, Answered

LEMMA CapacityAnswers ==
  ASSUME NEW r \in Round, NEW n \in Nodes, Capacity(r, n) \/ CapacityFails(r, n)
  PROVE  Answer(r, n)
  <1> DEFINE p == r.probe[n]
  <1>1. p \in Probe
    BY DEF Round
  <1> USE <1>1, AnswerType, DoneIs
  <1>2. p.stage \in {"ask", "again", "capacity"} /\ ~p.sized
    BY DEF Capacity, CapacityFails
  <1>3. CASE Capacity(r, n)
    <2>1. CASE p.stage = "ask"
      BY <1>2, <1>3, <2>1 DEF Capacity, Answer, Answered
    <2>2. CASE p.stage = "again"
      BY <1>2, <1>3, <2>2 DEF Capacity, Answer, Answered
    <2>3. CASE p.stage = "capacity"
      BY <1>2, <1>3, <2>3 DEF Capacity, Answer, Answered
    <2> QED  BY <1>2, <2>1, <2>2, <2>3
  <1>4. CASE CapacityFails(r, n)
    <2>1. CASE p.stage = "ask"
      BY <1>2, <1>4, <2>1 DEF CapacityFails, Answer, Answered
    <2>2. CASE p.stage = "again"
      BY <1>2, <1>4, <2>2 DEF CapacityFails, SecondFailure, Answer, Answered
    <2>3. CASE p.stage = "capacity"
      BY <1>2, <1>4, <2>3 DEF CapacityFails, Answer, Answered
    <2> QED  BY <1>2, <2>1, <2>2, <2>3
  <1> QED  BY <1>3, <1>4

\* What an answer leaves fits the round, and only the answer of a node that has
\* been up since it was asked leads to a record of it as alive.
LEMMA AnswerFits ==
  ASSUME NEW kind \in {"tick", "refresh"}, NEW a \in 0..(2 * Timeout), NEW n \in Nodes,
         NEW p, Fits(kind, a, p), NEW next \in Probe, NEW complete \in BOOLEAN,
         Answered(n, p, next, complete)
  PROVE  /\ Pending(p)
         /\ ~complete => Fits(kind, a, next)
         /\ ~complete /\ kind = "tick" => Pending(next)
         /\ complete /\ next.health = "alive" => Heard(n, p) /\ next.seen <= p.age
  <1>1. p \in Probe
    BY DEF Fits
  <1>2. Pending(p)
    BY DEF Answered, Pending
  <1>3. p.age \in 0..Timeout /\ p.seen \in 0..Old /\ p.age \in Nat /\ p.seen \in Nat
    BY <1>1, Times DEF Probe
  <1>4. a \in Nat /\ a <= Timeout + Timeout
    BY Times
  <1>5. complete /\ next.health = "alive" => Heard(n, p) /\ next.seen <= p.age
    BY <1>1, <1>2, <1>3 DEF Answered, Fits, Probe
  <1>6. ASSUME ~complete
        PROVE  Fits(kind, a, next) /\ (kind = "tick" => Pending(next))
    <2>1. CASE p.stage = "ask" /\ p.health = "waiting" /\ next = [p EXCEPT !.health = "alive"]
               /\ ~p.sized
      BY <1>1, <1>2, <1>3, <1>4, <2>1 DEF Fits, Pending, Probe
    <2>2. CASE p.stage = "ask" /\ p.health = "waiting" /\ next = [p EXCEPT !.health = "dead"]
               /\ ~p.sized
      BY <1>1, <1>2, <1>3, <1>4, <2>2 DEF Fits, Pending, Probe
    <2>3. CASE p.stage = "ask" /\ p.health = "waiting" /\ next = [p EXCEPT !.sized = TRUE]
      BY <1>1, <1>2, <1>3, <1>4, <2>3 DEF Fits, Pending, Probe
    <2>4. CASE p.stage = "health" /\ next = [Ask("capacity") EXCEPT !.health = "alive"]
      <3>1. a <= Timeout
        BY <1>2, <1>3, <1>4, <2>4, Times DEF Fits
      <3>2. kind = "refresh"
        BY <2>4 DEF Fits
      <3>3. /\ next.stage = "capacity" /\ next.age = 0 /\ next.health = "alive"
            /\ next.seen = 0 /\ next.sized = FALSE
        BY <2>4 DEF Ask
      <3> QED  BY <1>4, <3>1, <3>2, <3>3, Times DEF Fits, Pending
    <2>5. CASE p.stage = "ask" /\ next = [Ask("again") EXCEPT !.health = "dead"]
      <3>1. a <= Timeout
        BY <1>2, <1>3, <1>4, <2>5, Times DEF Fits
      <3>2. kind = "tick"
        BY <2>5 DEF Fits
      <3>3. /\ next.stage = "again" /\ next.age = 0 /\ next.health = "dead"
            /\ next.seen = 0 /\ next.sized = FALSE
        BY <2>5 DEF Ask
      <3> QED  BY <1>4, <3>1, <3>2, <3>3, Times DEF Fits, Pending
    <2>6. CASE p.stage = "capacity" /\ next = Failed
      BY <2>6, DoneFits DEF Fits
    <2> QED  BY <1>6, <2>1, <2>2, <2>3, <2>4, <2>5, <2>6 DEF Answered
  <1> QED  BY <1>2, <1>5, <1>6

-----------------------------------------------------------------------------
(* The effect of the actions.                                              *)

\* Round r becomes new by an answer about n.
Moved(r, n, next, complete, new) ==
    /\ Answered(n, r.probe[n], next, complete)
    /\ rounds' = (rounds \ {r}) \union {new}
    /\ new.kind = r.kind /\ new.age = r.age
    /\ new.probe[n] = IF complete THEN Done ELSE next
    /\ \A m \in Nodes : m # n => new.probe[m] = r.probe[m]
    /\ complete => /\ status' = [status EXCEPT ![n] = StatusOf(next)]
                   /\ beat' = [beat EXCEPT ![n] = BeatOf(n, next)]
    /\ ~complete => status' = status /\ beat' = beat
    /\ UNCHANGED <<up, age, turns, timer, running, chosen>>

LEMMA AnswerMoves ==
  ASSUME TypeInv, NEW r \in rounds, NEW n \in Nodes, Answer(r, n)
  PROVE  \E next \in Probe, complete \in BOOLEAN, new \in Round :
            Moved(r, n, next, complete, new) /\ Sound(new)
  <1>1. Sound(r) /\ r \in Round /\ Fits(r.kind, r.age, r.probe[n])
    BY DEF TypeInv, Sound
  <1>2. PICK next \in Probe, complete \in BOOLEAN :
          Answered(n, r.probe[n], next, complete) /\ Continue(r, n, next, complete)
    BY DEF Answer
  <1> DEFINE result == IF complete THEN Done ELSE next
             new == With(r, n, result)
  <1>3. result \in Probe
    BY DoneIs
  <1>4. /\ new \in Round /\ new.kind = r.kind /\ new.age = r.age /\ new.probe[n] = result
        /\ \A m \in Nodes : m # n => new.probe[m] = r.probe[m]
    <2> HIDE DEF result
    <2> QED  BY <1>1, <1>3, WithIs
  <1>5. r.kind \in {"tick", "refresh"} /\ r.age \in 0..(2 * Timeout)
    BY <1>1 DEF Round
  <1>6. Fits(r.kind, r.age, result)
    BY <1>1, <1>2, <1>5, DoneFits, AnswerFits
  <1>7. Sound(new)
    <2> HIDE DEF new, result
    <2> QED  BY <1>1, <1>4, <1>6 DEF Sound
  <1>8. rounds' = (rounds \ {r}) \union {new}
    BY <1>2 DEF Continue
  <1> HIDE DEF new
  <1>9. Moved(r, n, next, complete, new)
    BY <1>2, <1>4, <1>8 DEF Moved, Continue, Record, nodes, clock
  <1> QED  BY <1>4, <1>7, <1>9

\* While time passes, no request is late, and no round.
LEMMA PassMoves ==
  ASSUME TypeInv, Pass
  PROVE  \A r \in rounds :
            /\ r.age < 2 * Timeout
            /\ \A n \in Nodes : Pending(r.probe[n]) => r.probe[n].age < Timeout
            /\ Later(r).kind = r.kind /\ Later(r).age = r.age + 1
            /\ \A n \in Nodes : Later(r).probe[n] = Aged(r.probe[n])
            /\ Sound(Later(r))
  <1> TAKE r \in rounds
  <1>1. Sound(r) /\ r \in Round
    BY DEF TypeInv, Sound
  <1>2. r.age \in Nat
    BY <1>1, Times DEF Round
  <1>3. \A n \in Nodes :
          /\ Fits(r.kind, r.age, r.probe[n]) /\ r.probe[n] \in Probe
          /\ r.probe[n].age \in Nat /\ r.probe[n].seen \in Nat
          /\ r.probe[n].stage \in Stages
    BY <1>1, Times DEF Sound, Round, Probe
  <1>4. \A n \in Nodes : Pending(r.probe[n]) => r.probe[n].age < Timeout
    BY <1>3, Times DEF Pass, MayWait
  <1>5. r.age < 2 * Timeout
    <2>1. PICK n \in Nodes : Pending(r.probe[n])
      BY DEF Pass, Over
    <2> QED  BY <1>2, <1>3, <1>4, <2>1, Times DEF Fits, Pending, Stages
  <1>6. /\ Later(r) \in Round /\ Later(r).kind = r.kind /\ Later(r).age = r.age + 1
        /\ \A n \in Nodes : Later(r).probe[n] = Aged(r.probe[n])
    BY <1>1, <1>4, <1>5, LaterIs
  <1>7. ASSUME NEW n \in Nodes
        PROVE  Fits(r.kind, r.age + 1, Aged(r.probe[n]))
    <2> DEFINE p == r.probe[n]
    <2>1. /\ Fits(r.kind, r.age, p) /\ p \in Probe /\ p.age \in Nat /\ p.seen \in Nat
          /\ p.stage \in Stages
      BY <1>3
    <2>2. Pending(p) => p.age < Timeout
      BY <1>4
    <2> SUFFICES Fits(r.kind, r.age + 1, Aged(p))
      OBVIOUS
    <2> HIDE DEF p
    <2>3. /\ Aged(p) \in Probe
          /\ Aged(p).stage = p.stage /\ Aged(p).health = p.health /\ Aged(p).sized = p.sized
          /\ Pending(p) => /\ Aged(p).age = p.age + 1
                           /\ Aged(p).seen <= p.seen + 1
                           /\ p.health # "alive" => Aged(p).seen = p.seen
          /\ ~Pending(p) => Aged(p) = p
      BY <2>1, <2>2, AgedIs
    <2>4. Aged(p).seen \in Nat
      BY <2>3, Times DEF Probe
    <2>5. CASE ~Pending(p)
      BY <2>1, <2>3, <2>5 DEF Fits, Pending
    <2>6. CASE Pending(p)
      BY <1>2, <2>1, <2>3, <2>4, <2>6, Times DEF Fits, Pending
    <2> QED  BY <2>5, <2>6
  <1>8. Sound(Later(r))
    BY <1>6, <1>7 DEF Sound
  <1> QED  BY <1>4, <1>5, <1>6, <1>8

LEMMA MarkedIs ==
  ASSUME TypeOK
  PROVE  /\ Marked \in [Nodes -> {"HEALTHY", "UNAVAILABLE"}]
         /\ \A n \in Nodes : /\ Marked[n] = "HEALTHY" => status[n] = "HEALTHY"
                             /\ beat[n] <= Failure => Marked[n] = status[n]
  BY DEF Marked, Fresh, TypeOK

\* The actions, one by one.
LEMMA Actions ==
  ASSUME TypeInv, [Next]_vars
  PROVE  \/ \E r \in rounds, n \in Nodes : Answer(r, n)
         \/ \E r \in rounds : EndTick(r)
         \/ \E r \in rounds : EndRefresh(r)
         \/ Start \/ Tick \/ Pass \/ Refresh \/ Dashboard
         \/ \E n \in Nodes : Turn(n)
         \/ UNCHANGED vars
  <1>1. \A r \in rounds : r \in Round
    BY DEF TypeInv, Sound
  <1> QED  BY <1>1, HealthAnswers, CapacityAnswers DEF Next, Program

-----------------------------------------------------------------------------
(* Types, and how long a round lasts.                                      *)

LEMMA StatusIs ==
  ASSUME NEW p
  PROVE  StatusOf(p) \in {"HEALTHY", "UNAVAILABLE"}
  BY DEF StatusOf

LEMMA BeatIs ==
  ASSUME TypeOK, NEW n \in Nodes, NEW p \in Probe
  PROVE  BeatOf(n, p) \in 0..Old
  BY DEF BeatOf, Probe, TypeOK

LEMMA TypeInit == Init => TypeInv
  <1> SUFFICES ASSUME Init
               PROVE  TypeInv
    OBVIOUS
  <1>1. "ask" \in Stages
    BY DEF Stages
  <1> DEFINE first == Begin("tick", "ask")
  <1>2. /\ first \in Round /\ first.kind = "tick" /\ first.age = 0
        /\ \A m \in Nodes : first.probe[m] = Ask("ask")
    BY <1>1, BeginIs
  <1> HIDE DEF first
  <1>3. Sound(first)
    BY <1>2, AskFits DEF Sound
  <1>4. rounds = {first}
    BY DEF Init, first
  <1>5. age \in [Nodes -> 0..(Horizon + 1)]
    BY Times DEF Init
  <1> QED  BY <1>2, <1>3, <1>4, <1>5, Times DEF Init, TypeInv, TypeOK

LEMMA TypeNext == TypeInv /\ [Next]_vars => TypeInv'
  <1> SUFFICES ASSUME TypeInv, [Next]_vars
               PROVE  TypeInv'
    OBVIOUS
  <1>1. TypeOK /\ (\A r \in rounds : Sound(r)) /\ (timer = Off => running = 0)
    BY DEF TypeInv
  <1> DEFINE Rest == /\ status' \in [Nodes -> {"HEALTHY", "UNAVAILABLE"}]
                     /\ beat' \in [Nodes -> 0..Old]
                     /\ up' \in [Nodes -> BOOLEAN]
                     /\ age' \in [Nodes -> 0..(Horizon + 1)]
                     /\ turns' \in 0..MaxTurns
                     /\ timer' \in {Off} \union 0..Interval
                     /\ running' \in 0..(DeathKnown + 1)
                     /\ chosen' \subseteq Nodes
                     /\ timer' = Off => running' = 0
  <1>2. SUFFICES Rest /\ \A r \in rounds' : Sound(r)
    BY DEF TypeInv, TypeOK, Sound
  <1>3. CASE \E r \in rounds, n \in Nodes : Answer(r, n)
    <2>1. PICK r \in rounds, n \in Nodes : Answer(r, n)
      BY <1>3
    <2>2. PICK next \in Probe, complete \in BOOLEAN, new \in Round :
            Moved(r, n, next, complete, new) /\ Sound(new)
      BY <2>1, AnswerMoves
    <2>3. \A s \in rounds' : Sound(s)
      BY <1>1, <2>2 DEF Moved
    <2>4. Rest
      BY <1>1, <2>2, StatusIs, BeatIs DEF Moved, TypeOK
    <2> QED  BY <2>3, <2>4
  <1>4. CASE \E r \in rounds : EndTick(r)
    BY <1>1, <1>4, MarkedIs DEF EndTick, TypeOK, nodes, clock
  <1>5. CASE \E r \in rounds : EndRefresh(r)
    BY <1>1, <1>5, MarkedIs DEF EndRefresh, TypeOK, nodes, clock
  <1>6. CASE Start
    BY <1>1, <1>6, Times DEF Start, TypeOK, nodes, Off
  <1>7. CASE Tick
    <2>1. Sound(Begin("tick", "ask"))
      <3>1. "ask" \in Stages
        BY DEF Stages
      <3> QED  BY <3>1, AskFits, BeginIs DEF Sound
    <2> QED  BY <1>1, <1>7, <2>1, Times DEF Tick, TypeOK, nodes, Off
  <1>8. CASE Pass
    <2>1. \A r \in rounds' : Sound(r)
      BY <1>8, PassMoves DEF Pass
    <2>2. /\ \A n \in Nodes : Older(beat[n], Old) \in 0..Old
          /\ \A n \in Nodes : Older(age[n], Horizon + 1) \in 0..(Horizon + 1)
          /\ Older(running, DeathKnown + 1) \in 0..(DeathKnown + 1)
      BY <1>1, OlderIs, Times DEF TypeOK
    <2>3. timer' \in {Off} \union 0..Interval
      BY <1>1, <1>8, Times DEF Pass, TypeOK, Off
    <2>4. timer' = Off => running' = 0
      BY <1>1, <1>8, Times DEF Pass, TypeOK, Off
    <2>5. Rest
      BY <1>1, <1>8, <2>2, <2>3, <2>4 DEF Pass, TypeOK
    <2> QED  BY <2>1, <2>5
  <1>9. CASE Refresh
    <2>1. Sound(Begin("refresh", "health"))
      <3>1. "health" \in Stages
        BY DEF Stages
      <3> QED  BY <3>1, AskFits, BeginIs DEF Sound
    <2> QED  BY <1>1, <1>9, <2>1 DEF Refresh, TypeOK, nodes, clock
  <1>10. CASE Dashboard
    BY <1>1, <1>10, MarkedIs DEF Dashboard, TypeOK, nodes, clock
  <1>11. CASE \E n \in Nodes : Turn(n)
    BY <1>1, <1>11, Times DEF Turn, TypeOK, clock
  <1>12. CASE UNCHANGED vars
    BY <1>1, <1>12 DEF vars, nodes, clock, TypeOK
  <1> QED  BY <1>3, <1>4, <1>5, <1>6, <1>7, <1>8, <1>9, <1>10, <1>11, <1>12, Actions

\* What the phases of a probe say of its age, always.
THEOREM RegistryInvariant == Spec => []TypeInv
  BY TypeInit, TypeNext, PTL DEF Spec

\* For all nodes and times every variable has its type; in particular no tick
\* and no refresh lasts longer than two request timeouts, though a tick asks a
\* node twice (heartbeat-service.ts:9-19).
THEOREM TypeCorrect == Spec => []TypeOK
  <1>1. TypeInv => TypeOK
    BY DEF TypeInv
  <1> QED  BY <1>1, RegistryInvariant, PTL

-----------------------------------------------------------------------------
(* Heartbeats.                                                             *)

\* A heartbeat is not from long after n stopped: Old says that it is too old to
\* tell.
NotLate(n, seen) == seen # Old => age[n] <= seen + Timeout

\* That is so of what is recorded and of what is about to be.
HeardInv ==
    \A n \in Nodes : ~up[n] =>
        /\ NotLate(n, beat[n])
        /\ \A r \in rounds :
              Pending(r.probe[n]) /\ r.probe[n].health = "alive" => NotLate(n, r.probe[n].seen)

LEMMA HeardInit == Init => HeardInv
<1>1. "ask" \in Stages
  BY DEF Stages
<1>2. \A n \in Nodes : Begin("tick", "ask").probe[n].health = "waiting"
  BY <1>1, AskIs, BeginIs
<1> QED  BY <1>2 DEF Init, HeardInv, NotLate

\* An answer that finds n alive is new, or was found so before.
LEMMA AliveSeen ==
  ASSUME NEW kind, NEW a, NEW n \in Nodes, NEW p, Fits(kind, a, p),
         NEW next \in Probe, NEW complete \in BOOLEAN, Answered(n, p, next, complete),
         next.health = "alive"
  PROVE  /\ Pending(p)
         /\ \/ Heard(n, p) /\ p.age \in 0..Timeout /\ next.seen = 0
            \/ p.health = "alive" /\ next.seen = p.seen
  <1>1. p \in Probe /\ p.age \in 0..Timeout /\ (p.health = "waiting" => p.seen = 0)
    BY DEF Fits, Probe
  <1>2. /\ Ask("capacity") \in Probe /\ Ask("capacity").seen = 0
        /\ Ask("again") \in Probe
    BY AskIs DEF Stages
  <1>3. Pending(p)
    BY DEF Answered, Pending
  <1>4. CASE p.stage = "ask" /\ p.health = "waiting" /\ Heard(n, p)
              /\ next = [p EXCEPT !.health = "alive"]
    BY <1>1, <1>3, <1>4 DEF Probe
  <1>5. CASE p.stage = "health" /\ Heard(n, p)
              /\ next = [Ask("capacity") EXCEPT !.health = "alive"]
    BY <1>1, <1>2, <1>3, <1>5 DEF Probe
  <1>6. CASE next = [p EXCEPT !.sized = TRUE] \/ next = p
    BY <1>1, <1>3, <1>6 DEF Probe
  <1>7. next # Failed /\ next # [p EXCEPT !.health = "dead"]
        /\ next # [Ask("again") EXCEPT !.health = "dead"]
    BY <1>1, <1>2, DoneIs DEF Probe
  <1> QED  BY <1>4, <1>5, <1>6, <1>7 DEF Answered

LEMMA HeardNext == TypeInv /\ HeardInv /\ [Next]_vars => HeardInv'
  <1> SUFFICES ASSUME TypeInv, HeardInv, [Next]_vars, NEW m \in Nodes, ~up'[m]
               PROVE  /\ NotLate(m, beat[m])'
                      /\ \A s \in rounds' :
                            Pending(s.probe[m]) /\ s.probe[m].health = "alive" =>
                                NotLate(m, s.probe[m].seen)'
    BY DEF HeardInv, NotLate
  <1>1. TypeOK /\ \A r \in rounds : Sound(r) /\ r \in Round
    BY DEF TypeInv, Sound
  <1>2. /\ beat[m] \in 0..Old /\ age[m] \in 0..(Horizon + 1) /\ up[m] \in BOOLEAN
        /\ beat[m] \in Nat /\ age[m] \in Nat
        /\ \A r \in rounds : r.probe[m] \in Probe /\ r.probe[m].seen \in Nat
                             /\ r.probe[m].seen <= Old
    BY <1>1, Times DEF TypeOK, Round, Probe
  <1>3. ~up[m] => /\ NotLate(m, beat[m])
                  /\ \A r \in rounds : Pending(r.probe[m]) /\ r.probe[m].health = "alive" =>
                                          NotLate(m, r.probe[m].seen)
    BY DEF HeardInv
  <1>4. CASE \E r \in rounds, n \in Nodes : Answer(r, n)
    <2>1. PICK r \in rounds, n \in Nodes : Answer(r, n)
      BY <1>4
    <2>2. PICK next \in Probe, complete \in BOOLEAN, new \in Round :
            Moved(r, n, next, complete, new)
      BY <2>1, AnswerMoves
    <2>3. /\ rounds' = (rounds \ {r}) \union {new}
          /\ \A k \in Nodes : k # n => new.probe[k] = r.probe[k]
          /\ new.probe[n] = (IF complete THEN Done ELSE next)
          /\ up' = up /\ age' = age
      BY <2>2 DEF Moved
    <2>4. n = m /\ next.health = "alive" => NotLate(m, next.seen)
      <3> SUFFICES ASSUME n = m, next.health = "alive"
                   PROVE  NotLate(m, next.seen)
        OBVIOUS
      <3>1. Fits(r.kind, r.age, r.probe[n]) /\ Answered(n, r.probe[n], next, complete)
        BY <1>1, <2>2 DEF Sound, Moved
      <3>2. /\ Pending(r.probe[n])
            /\ \/ Heard(n, r.probe[n]) /\ r.probe[n].age \in 0..Timeout /\ next.seen = 0
               \/ r.probe[n].health = "alive" /\ next.seen = r.probe[n].seen
        BY <3>1, AliveSeen
      <3>3. CASE Heard(n, r.probe[n]) /\ r.probe[n].age \in 0..Timeout /\ next.seen = 0
        BY <1>2, <2>3, <3>3, Times DEF Heard, NotLate
      <3> QED  BY <1>3, <2>3, <3>2, <3>3
    <2>5. beat'[m] = beat[m] \/ (n = m /\ next.health = "alive" /\ beat'[m] = next.seen)
      BY <1>1, <2>2 DEF Moved, BeatOf, TypeOK
    <2>6. NotLate(m, beat[m])'
      BY <1>3, <2>3, <2>4, <2>5 DEF NotLate
    <2>7. ASSUME NEW s \in rounds', Pending(s.probe[m]), s.probe[m].health = "alive"
          PROVE  NotLate(m, s.probe[m].seen)
      <3>1. CASE s \in rounds
        BY <1>3, <2>3, <2>7, <3>1
      <3>2. CASE s = new /\ m # n
        BY <1>3, <2>3, <2>7, <3>2
      <3>3. CASE s = new /\ m = n
        BY <2>3, <2>4, <2>7, <3>3, DoneIs
      <3> QED  BY <2>3, <3>1, <3>2, <3>3
    <2> QED  BY <2>3, <2>6, <2>7 DEF NotLate
  <1>5. CASE Pass
    <2>1. /\ up' = up /\ beat'[m] = Older(beat[m], Old) /\ age'[m] = Older(age[m], Horizon + 1)
          /\ rounds' = {Later(r) : r \in rounds}
      BY <1>5 DEF Pass
    <2>2. age'[m] \in Nat /\ age'[m] <= age[m] + 1
      BY <1>2, <2>1, Times, OlderIs
    <2>3. ASSUME NEW seen \in Nat, seen <= Old, NotLate(m, seen)
          PROVE  Older(seen, Old) # Old => age'[m] <= Older(seen, Old) + Timeout
      BY <1>2, <2>2, <2>3, Times DEF Older, NotLate
    <2>4. NotLate(m, beat[m])'
      BY <1>2, <1>3, <2>1, <2>3 DEF NotLate
    <2>5. ASSUME NEW s \in rounds', Pending(s.probe[m]), s.probe[m].health = "alive"
          PROVE  s.probe[m].seen # Old => age'[m] <= s.probe[m].seen + Timeout
      <3>1. PICK r \in rounds : s = Later(r)
        BY <2>1
      <3>2. /\ s.probe[m] = Aged(r.probe[m]) /\ r.probe[m] \in Probe
            /\ Pending(r.probe[m]) => r.probe[m].age < Timeout
        BY <1>1, <1>5, <3>1, PassMoves DEF Round
      <3>3. /\ Pending(r.probe[m]) /\ r.probe[m].health = "alive"
            /\ s.probe[m].seen = Older(r.probe[m].seen, Old)
        BY <2>5, <3>2, AgedIs
      <3> QED  BY <1>2, <1>3, <2>1, <2>3, <3>3
    <2> QED  BY <2>4, <2>5 DEF NotLate
  <1>6. CASE \E n \in Nodes : Turn(n)
    <2>1. PICK n \in Nodes : Turn(n)
      BY <1>6
    <2>2. /\ age' = [age EXCEPT ![n] = 0] /\ up' = [up EXCEPT ![n] = ~@]
          /\ beat' = beat /\ rounds' = rounds
      BY <2>1 DEF Turn
    <2>3. CASE m = n
      <3>1. age'[m] = 0
        BY <1>1, <2>2, <2>3 DEF TypeOK
      <3> QED  BY <1>2, <2>2, <3>1, Times DEF NotLate
    <2>4. CASE m # n
      BY <1>1, <1>3, <2>2, <2>4 DEF TypeOK, NotLate
    <2> QED  BY <2>3, <2>4
  <1>7. CASE /\ up' = up /\ age' = age /\ beat' = beat
             /\ rounds' \subseteq rounds \union {Begin("tick", "ask"), Begin("refresh", "health")}
    <2>1. /\ Begin("tick", "ask").probe[m].health = "waiting"
          /\ Begin("refresh", "health").probe[m].health = "waiting"
      BY DEF Begin, Ask
    <2> QED  BY <1>3, <1>7, <2>1 DEF NotLate
  <1> QED  BY <1>4, <1>5, <1>6, <1>7, Actions
           DEF EndTick, EndRefresh, Start, Tick, Refresh, Dashboard, vars, nodes

\* However late its last answers come in and are recorded, and by whichever of
\* the ticks and refreshes under way, no row claims a heartbeat from later than
\* a request timeout after its node stopped (metadata-service.ts:12-18,
\* storage-node-http.ts:66-69).
THEOREM HeardCorrect == Spec => []BeatIsHeard
  <1>1. HeardInv => BeatIsHeard
    BY DEF HeardInv, NotLate, BeatIsHeard
  <1> QED  BY <1>1, HeardInit, HeardNext, RegistryInvariant, PTL DEF Spec

-----------------------------------------------------------------------------
(* The nodes an upload gets.                                               *)

\* There is one refresh at a time, nothing is chosen during it, and a node it
\* has been told of is HEALTHY only if it was up since a request timeout before
\* the refresh began.
Vouched(r) ==
    r.kind = "refresh" =>
        /\ \A s \in rounds : s.kind = "refresh" => s = r
        /\ chosen = {}
        /\ \A n \in Nodes : r.probe[n].stage = "done" /\ status[n] = "HEALTHY" =>
                           up[n] \/ age[n] <= r.age + Timeout

VouchedInv == \A r \in rounds : Vouched(r)

\* A node becomes HEALTHY only by an answer from when it was up, which is over by
\* a request timeout after it stopped.
LEMMA AliveIsHeard ==
  ASSUME TypeInv, NEW r \in rounds, NEW n \in Nodes, NEW next \in Probe,
         NEW complete \in BOOLEAN, NEW new \in Round, Moved(r, n, next, complete, new)
  PROVE  /\ Fits(r.kind, r.age, r.probe[n])
         /\ Pending(r.probe[n])
         /\ complete /\ next.health = "alive" =>
               (up[n] \/ age[n] <= Timeout) /\ next.seen <= r.probe[n].age
         /\ complete => (status'[n] = "HEALTHY" <=> next.health = "alive")
         /\ complete /\ next.health = "alive" => beat'[n] = next.seen
         /\ complete => status'[n] = "HEALTHY" \/ status'[n] = "UNAVAILABLE"
         /\ r.kind = "tick" /\ ~complete => Pending(next)
         /\ \A m \in Nodes : m # n \/ ~complete => status'[m] = status[m] /\ beat'[m] = beat[m]
  <1>1. TypeOK /\ Sound(r)
    BY DEF TypeInv
  <1>2. /\ Fits(r.kind, r.age, r.probe[n])
        /\ r.kind \in {"tick", "refresh"} /\ r.age \in 0..(2 * Timeout)
    BY <1>1 DEF Sound, Round
  <1>3. Answered(n, r.probe[n], next, complete)
    BY DEF Moved
  <1>4. /\ Pending(r.probe[n])
        /\ complete /\ next.health = "alive" =>
              (up[n] \/ age[n] <= Timeout) /\ next.seen <= r.probe[n].age
        /\ r.kind = "tick" /\ ~complete => Pending(next)
    <2>1. /\ Pending(r.probe[n])
          /\ complete /\ next.health = "alive" =>
                Heard(n, r.probe[n]) /\ next.seen <= r.probe[n].age
          /\ r.kind = "tick" /\ ~complete => Pending(next)
      BY <1>2, <1>3, AnswerFits
    <2>2. r.probe[n].age \in 0..Timeout /\ age[n] \in 0..(Horizon + 1)
      BY <1>1, <1>2 DEF Fits, Probe, TypeOK
    <2> QED  BY <2>1, <2>2, Times DEF Heard
  <1>5. complete => /\ status'[n] = StatusOf(next) /\ beat'[n] = BeatOf(n, next)
                    /\ \A m \in Nodes : m # n => status'[m] = status[m] /\ beat'[m] = beat[m]
    BY <1>1 DEF Moved, TypeOK
  <1>6. ~complete => status' = status /\ beat' = beat
    BY DEF Moved
  <1> QED  BY <1>2, <1>4, <1>5, <1>6 DEF StatusOf, BeatOf

LEMMA VouchedInit == Init => VouchedInv
  <1>1. "ask" \in Stages
    BY DEF Stages
  <1> QED  BY <1>1, BeginIs DEF Init, VouchedInv, Vouched

LEMMA VouchedNext == TypeInv /\ VouchedInv /\ [Next]_vars => VouchedInv'
  <1> SUFFICES ASSUME TypeInv, VouchedInv, [Next]_vars, NEW s \in rounds', s.kind = "refresh"
               PROVE  Vouched(s)'
    BY DEF VouchedInv, Vouched
  <1>1. TypeOK /\ \A r \in rounds : Vouched(r) /\ Sound(r) /\ r \in Round
    BY DEF TypeInv, VouchedInv, Sound
  <1>2. CASE \E r \in rounds, n \in Nodes : Answer(r, n)
    <2>1. PICK r \in rounds, n \in Nodes : Answer(r, n)
      BY <1>2
    <2>2. PICK next \in Probe, complete \in BOOLEAN, new \in Round :
            Moved(r, n, next, complete, new) /\ Sound(new)
      BY <2>1, AnswerMoves
    <2>3. /\ complete /\ status'[n] = "HEALTHY" => up[n] \/ age[n] <= Timeout
          /\ \A m \in Nodes : m # n \/ ~complete => status'[m] = status[m]
      BY <2>2, AliveIsHeard
    <2>4. /\ rounds' = (rounds \ {r}) \union {new} /\ new.kind = r.kind /\ new.age = r.age
          /\ \A m \in Nodes : m # n => new.probe[m] = r.probe[m]
          /\ ~complete => new.probe[n] = next
          /\ up' = up /\ age' = age /\ chosen' = chosen
      BY <2>2 DEF Moved
    <2>5. ~complete => next.stage # "done"
      <3>1. Answered(n, r.probe[n], next, complete) /\ r.probe[n] \in Probe
        BY <1>1, <2>2 DEF Moved, Round
      <3>2. Ask("again").stage = "again" /\ Ask("capacity").stage = "capacity"
        BY DEF Ask
      <3>3. Ask("again") \in Probe /\ Ask("capacity") \in Probe
        BY AskIs DEF Stages
      <3> QED  BY <3>1, <3>2, <3>3, DoneIs DEF Answered, Probe
    <2>6. chosen' = {} /\ \A q \in rounds' : q.kind = "refresh" => q = s
      BY <1>1, <2>4 DEF Vouched
    <2>7. ASSUME NEW m \in Nodes, s.probe[m].stage = "done", status'[m] = "HEALTHY", ~up[m]
          PROVE  age[m] <= s.age + Timeout
      <3>1. CASE m = n /\ complete
        <4>1. s.age \in Nat /\ age[m] \in Nat /\ age[m] <= Timeout
          BY <1>1, <2>2, <2>3, <2>4, <2>7, <3>1, Times DEF TypeOK, Round
        <4> QED  BY <4>1, Times
      <3>2. CASE m # n \/ ~complete
        <4>1. status[m] = "HEALTHY"
          BY <2>3, <2>7, <3>2
        <4>2. CASE s \in rounds
          BY <1>1, <2>7, <4>1, <4>2 DEF Vouched
        <4>3. CASE s = new
          BY <1>1, <2>4, <2>5, <2>7, <3>2, <4>1, <4>3 DEF Vouched
        <4> QED  BY <2>4, <4>2, <4>3
      <3> QED  BY <3>1, <3>2
    <2> QED  BY <2>4, <2>6, <2>7 DEF Vouched
  <1>3. CASE \E r \in rounds : EndTick(r)
    BY <1>1, <1>3, MarkedIs DEF EndTick, Vouched, nodes
  <1>4. CASE \E r \in rounds : EndRefresh(r)
    <2>1. PICK r \in rounds : r.kind = "refresh" /\ rounds' = rounds \ {r}
      BY <1>4 DEF EndRefresh
    <2> QED  BY <1>1, <2>1 DEF Vouched
  <1>5. CASE Start
    BY <1>1, <1>5 DEF Start, Vouched, nodes
  <1>6. CASE Tick
    <2>1. Begin("tick", "ask").kind = "tick"
      BY DEF Begin
    <2> QED  BY <1>1, <1>6, <2>1 DEF Tick, Vouched, nodes
  <1>7. CASE Pass
    <2>1. PICK r \in rounds : s = Later(r)
      BY <1>7 DEF Pass
    <2>2. /\ \A q \in rounds : Later(q).kind = q.kind
          /\ r.kind = "refresh" /\ s.age = r.age + 1
          /\ \A n \in Nodes : s.probe[n] = Aged(r.probe[n])
      BY <1>7, <2>1, PassMoves
    <2>3. /\ up' = up /\ status' = status /\ chosen' = {}
          /\ \A n \in Nodes : age'[n] = Older(age[n], Horizon + 1)
          /\ rounds' = {Later(q) : q \in rounds}
      BY <1>7 DEF Pass
    <2>4. \A n \in Nodes : s.probe[n].stage = r.probe[n].stage
      <3>1. \A n \in Nodes : r.probe[n] \in Probe /\ (Pending(r.probe[n]) =>
                                                       r.probe[n].age < Timeout)
        BY <1>1, <1>7, PassMoves DEF Round
      <3> QED  BY <2>2, <3>1, AgedIs
    <2>5. \A n \in Nodes : age[n] \in Nat /\ age'[n] \in Nat /\ age'[n] <= age[n] + 1
      BY <1>1, <2>3, Times DEF Older, TypeOK
    <2>6. r.age \in Nat
      BY <1>1, Times DEF Round
    <2>7. \A q \in rounds' : q.kind = "refresh" => q = s
      BY <1>1, <2>1, <2>2, <2>3 DEF Vouched
    <2> QED  BY <1>1, <2>2, <2>3, <2>4, <2>5, <2>6, <2>7, Times DEF Vouched
  <1>8. CASE Refresh
    <2>1. /\ Begin("tick", "ask").kind = "tick"
          /\ \A n \in Nodes : Begin("refresh", "health").probe[n].stage = "health"
      BY DEF Begin, Ask
    <2> QED  BY <1>1, <1>8, <2>1 DEF Refresh, Vouched
  <1>9. CASE Dashboard
    BY <1>1, <1>9, MarkedIs DEF Dashboard, Vouched, nodes
  <1>10. CASE \E n \in Nodes : Turn(n)
    <2>1. PICK n \in Nodes : Turn(n)
      BY <1>10
    <2>2. /\ age' = [age EXCEPT ![n] = 0] /\ up' = [up EXCEPT ![n] = ~@]
          /\ UNCHANGED <<status, rounds, chosen>>
      BY <2>1 DEF Turn
    <2>3. s.age \in Nat /\ \A m \in Nodes : m # n => age'[m] = age[m] /\ up'[m] = up[m]
      BY <1>1, <2>2, Times DEF TypeOK, Round
    <2>4. age'[n] = 0
      BY <1>1, <2>2 DEF TypeOK
    <2> QED  BY <1>1, <2>2, <2>3, <2>4, Times DEF Vouched
  <1>11. CASE UNCHANGED vars
    BY <1>1, <1>11 DEF vars, nodes, Vouched
  <1> QED  BY <1>2, <1>3, <1>4, <1>5, <1>6, <1>7, <1>8, <1>9, <1>10, <1>11, Actions

\* The nodes chosen when a refresh ends have worked within a request timeout of
\* its beginning, or since: chooseNodes takes HEALTHY rows whose heartbeat is
\* fresh, and what makes a row HEALTHY after the refresh has found its node dead
\* is an answer asked for before the node stopped (metadata-service.ts:31-57).
THEOREM ChosenCorrect == Spec => ChosenAnswered
  <1>1. ASSUME TypeInv, VouchedInv, [Next]_vars, NEW r \in rounds \ rounds',
               r.kind = "refresh", NEW n \in chosen'
        PROVE  up[n] \/ age[n] <= r.age + Timeout
    <2>1. TypeOK /\ Vouched(r) /\ chosen = {}
      BY <1>1 DEF TypeInv, VouchedInv, Vouched
    <2>2. PICK s \in rounds : EndRefresh(s)
      <3>1. \A q \in rounds, m \in Nodes : Answer(q, m) => chosen' = chosen
        BY <1>1, AnswerMoves DEF Moved
      <3> QED  BY <1>1, <2>1, <3>1, Actions
               DEF EndTick, Start, Tick, Pass, Refresh, Dashboard, Turn, vars
    <2>3. s = r
      BY <1>1, <2>2 DEF EndRefresh
    <2>4. n \in Nodes /\ Marked[n] = "HEALTHY" /\ \A m \in Nodes : r.probe[m].stage = "done"
      BY <1>1, <2>1, <2>2, <2>3 DEF EndRefresh
    <2> QED  BY <1>1, <2>1, <2>4, MarkedIs DEF Vouched
  <1>2. TypeInv /\ VouchedInv /\ [Next]_vars =>
          [\A r \in rounds \ rounds' : r.kind = "refresh" =>
              \A n \in chosen' : up[n] \/ age[n] <= r.age + Timeout]_vars
    BY <1>1
  <1> QED  BY <1>2, VouchedInit, VouchedNext, RegistryInvariant, PTL DEF Spec, ChosenAnswered

-----------------------------------------------------------------------------
(* Nodes that have stopped.                                                *)

\* A tick that will record n has begun within Interval of the last answer that n
\* can have given, or of the start of the timer.
Expected(n) ==
    \E r \in rounds :
        /\ r.kind = "tick" /\ Pending(r.probe[n])
        /\ age[n] <= r.age + Interval + Timeout \/ running <= r.age + Interval

\* When a node that has stopped may still be HEALTHY.
Lagging(n) ==
    timer # Off /\ ~up[n] /\ status[n] = "HEALTHY" =>
        age[n] <= timer + Timeout \/ running <= timer \/ Expected(n)

DeadInv == \A n \in Nodes : Lagging(n)

LEMMA DeadInit == Init => DeadInv
  BY DEF Init, DeadInv, Lagging

LEMMA DeadNext == TypeInv /\ DeadInv /\ [Next]_vars => DeadInv'
  <1> SUFFICES ASSUME TypeInv, DeadInv, [Next]_vars, NEW m \in Nodes,
                      timer' # Off, ~up'[m], status'[m] = "HEALTHY"
               PROVE  age'[m] <= timer' + Timeout \/ running' <= timer' \/ Expected(m)'
    BY DEF DeadInv, Lagging
  <1>1. TypeOK /\ (\A r \in rounds : Sound(r) /\ r \in Round) /\ (timer = Off => running = 0)
    BY DEF TypeInv, Sound
  <1>2. /\ age[m] \in Nat /\ age[m] <= Horizon + 1 /\ running \in Nat
        /\ running <= DeathKnown + 1 /\ timer \in {Off} \union 0..Interval
        /\ \A r \in rounds : r.age \in Nat
    BY <1>1, Times DEF TypeOK, Round
  <1>3. timer # Off /\ ~up[m] /\ status[m] = "HEALTHY" =>
          age[m] <= timer + Timeout \/ running <= timer \/ Expected(m)
    BY DEF DeadInv, Lagging
  <1>4. CASE \E r \in rounds, n \in Nodes : Answer(r, n)
    <2>1. PICK r \in rounds, n \in Nodes : Answer(r, n)
      BY <1>4
    <2>2. PICK next \in Probe, complete \in BOOLEAN, new \in Round :
            Moved(r, n, next, complete, new)
      BY <2>1, AnswerMoves
    <2>3. /\ complete /\ status'[n] = "HEALTHY" => up[n] \/ age[n] <= Timeout
          /\ r.kind = "tick" /\ ~complete => Pending(next)
          /\ \A k \in Nodes : k # n \/ ~complete => status'[k] = status[k]
      BY <2>2, AliveIsHeard
    <2>4. /\ rounds' = (rounds \ {r}) \union {new} /\ new.kind = r.kind /\ new.age = r.age
          /\ \A k \in Nodes : k # n => new.probe[k] = r.probe[k]
          /\ ~complete => new.probe[n] = next
          /\ up' = up /\ age' = age /\ timer' = timer /\ running' = running
      BY <2>2 DEF Moved
    <2>5. CASE m = n /\ complete
      <3>1. age[m] <= Timeout /\ timer' \in Nat
        BY <1>2, <2>3, <2>4, <2>5, Times
      <3> QED  BY <1>2, <2>4, <3>1, Times
    <2>6. ASSUME Expected(m), m # n \/ ~complete
          PROVE  Expected(m)'
      <3>1. PICK s \in rounds :
              /\ s.kind = "tick" /\ Pending(s.probe[m])
              /\ age[m] <= s.age + Interval + Timeout \/ running <= s.age + Interval
        BY <2>6 DEF Expected
      <3>2. CASE s # r
        BY <2>4, <3>1, <3>2 DEF Expected
      <3>3. CASE s = r
        <4>1. new.kind = "tick" /\ Pending(new.probe[m]) /\ new \in rounds'
          BY <2>3, <2>4, <2>6, <3>1, <3>3
        <4> QED  BY <2>4, <3>1, <3>3, <4>1 DEF Expected
      <3> QED  BY <3>2, <3>3
    <2> QED  BY <1>3, <2>3, <2>4, <2>5, <2>6
  <1>5. CASE \E r \in rounds : EndTick(r) \/ EndRefresh(r)
    <2>1. PICK r \in rounds : EndTick(r) \/ EndRefresh(r)
      BY <1>5
    <2>2. /\ rounds' = rounds \ {r} /\ Over(r)
          /\ up' = up /\ age' = age /\ timer' = timer /\ running' = running
          /\ status' = Marked \/ status' = status
      BY <2>1 DEF EndTick, EndRefresh, nodes, clock
    <2>3. status[m] = "HEALTHY"
      BY <1>1, <2>2, MarkedIs
    <2>4. Expected(m) => Expected(m)'
      BY <2>2 DEF Expected, Over
    <2> QED  BY <1>3, <2>2, <2>3, <2>4
  <1>6. CASE Start
    BY <1>1, <1>6, Times DEF Start
  <1>7. CASE Tick
    <2> DEFINE new == Begin("tick", "ask")
    <2>1. new.kind = "tick" /\ new.age = 0 /\ Pending(new.probe[m])
      <3>1. "ask" \in Stages
        BY DEF Stages
      <3> QED  BY <3>1, AskIs, BeginIs DEF Pending
    <2> HIDE DEF new
    <2>2. /\ rounds' = rounds \union {new} /\ timer = Interval /\ timer # Off
          /\ up' = up /\ age' = age /\ status' = status /\ running' = running
      BY <1>7, Times DEF Tick, new, nodes, Off
    <2>3. Expected(m) => Expected(m)'
      BY <2>2 DEF Expected
    <2>4. age[m] <= timer + Timeout \/ running <= timer => Expected(m)'
      BY <1>2, <2>1, <2>2, Times DEF Expected
    <2> QED  BY <1>3, <2>2, <2>3, <2>4
  <1>8. CASE Pass
    <2>1. /\ up' = up /\ status' = status /\ age'[m] = Older(age[m], Horizon + 1)
          /\ timer # Off /\ timer' = timer + 1
          /\ running' = Older(running, DeathKnown + 1)
          /\ rounds' = {Later(q) : q \in rounds}
      BY <1>8 DEF Pass
    <2>2. /\ age'[m] \in Nat /\ age'[m] <= age[m] + 1
          /\ running' \in Nat /\ running' <= running + 1
      BY <1>2, <2>1, Times DEF Older
    <2>3. timer \in Nat
      BY <1>2, <2>1, Times
    <2>4. ASSUME Expected(m)
          PROVE  Expected(m)'
      <3>1. PICK s \in rounds :
              /\ s.kind = "tick" /\ Pending(s.probe[m])
              /\ age[m] <= s.age + Interval + Timeout \/ running <= s.age + Interval
        BY <2>4 DEF Expected
      <3>2. /\ Later(s).kind = "tick" /\ Later(s).age = s.age + 1
            /\ Later(s).probe[m] = Aged(s.probe[m]) /\ s.probe[m] \in Probe
            /\ s.probe[m].age < Timeout
        BY <1>1, <1>8, <3>1, PassMoves DEF Round
      <3>3. Pending(Later(s).probe[m])
        BY <3>1, <3>2, AgedIs
      <3>4. age'[m] <= (s.age + 1) + Interval + Timeout \/ running' <= (s.age + 1) + Interval
        BY <1>2, <2>2, <3>1, Times
      <3> QED  BY <2>1, <3>2, <3>3, <3>4 DEF Expected
    <2>5. age[m] <= timer + Timeout => age'[m] <= timer' + Timeout
      BY <1>2, <2>1, <2>2, <2>3, Times
    <2>6. running <= timer => running' <= timer'
      BY <1>2, <2>1, <2>2, <2>3
    <2> QED  BY <1>3, <2>1, <2>4, <2>5, <2>6
  <1>9. CASE Refresh
    <2>1. /\ rounds \subseteq rounds' /\ up' = up /\ age' = age /\ status' = status
          /\ timer' = timer /\ running' = running
      BY <1>9 DEF Refresh, nodes, clock
    <2>2. Expected(m) => Expected(m)'
      BY <2>1 DEF Expected
    <2> QED  BY <1>3, <2>1, <2>2
  <1>10. CASE Dashboard
    <2>1. /\ rounds' = rounds /\ up' = up /\ age' = age /\ status' = Marked
          /\ timer' = timer /\ running' = running
      BY <1>10 DEF Dashboard, nodes, clock
    <2>2. status[m] = "HEALTHY"
      BY <1>1, <2>1, MarkedIs
    <2>3. Expected(m) => Expected(m)'
      BY <2>1 DEF Expected
    <2> QED  BY <1>3, <2>1, <2>2, <2>3
  <1>11. CASE \E n \in Nodes : Turn(n)
    <2>1. PICK n \in Nodes : Turn(n)
      BY <1>11
    <2>2. /\ age' = [age EXCEPT ![n] = 0] /\ up' = [up EXCEPT ![n] = ~@]
          /\ UNCHANGED <<status, rounds, timer, running>>
      BY <2>1 DEF Turn, clock
    <2>3. CASE m = n
      <3>1. age'[m] = 0 /\ timer' \in Nat
        BY <1>1, <1>2, <2>2, <2>3, Times DEF TypeOK
      <3>2. Timeout \in Nat
        BY Times
      <3>3. 0 <= timer' + Timeout
        BY <3>1, <3>2
      <3>4. age'[m] <= timer' + Timeout
        BY <3>1, <3>3
      <3> QED  BY <3>4
    <2>4. CASE m # n
      <3>1. age'[m] = age[m] /\ up'[m] = up[m]
        BY <1>1, <2>2, <2>4 DEF TypeOK
      <3>2. Expected(m) => Expected(m)'
        BY <2>2, <3>1 DEF Expected
      <3> QED  BY <1>3, <2>2, <3>1, <3>2
    <2> QED  BY <2>3, <2>4
  <1>12. CASE UNCHANGED vars
    BY <1>3, <1>12 DEF vars, nodes, clock, Expected
  <1> QED  BY <1>4, <1>5, <1>6, <1>7, <1>8, <1>9, <1>10, <1>11, <1>12, Actions

\* A node that stopped is UNAVAILABLE after an interval and three request
\* timeouts, for any number of nodes and of overlapping ticks: an answer that is
\* recorded over what a newer tick has learnt comes in within the first, and the
\* tick begun an interval later asks twice (heartbeat-service.ts:8-21).
THEOREM DeadCorrect == Spec => []DeadIsNoticed
  <1>1. TypeInv /\ DeadInv => DeadIsNoticed
    <2> SUFFICES ASSUME TypeInv, DeadInv, running > DeathKnown, NEW n \in Nodes,
                        ~up[n], age[n] > DeathKnown, status[n] = "HEALTHY"
                 PROVE  FALSE
      BY DEF DeadIsNoticed, TypeInv, TypeOK
    <2>1. TypeOK /\ (\A r \in rounds : r \in Round) /\ (timer = Off => running = 0)
      BY DEF TypeInv, Sound
    <2>2. /\ age[n] \in Nat /\ running \in Nat /\ timer \in {Off} \union 0..Interval
          /\ \A r \in rounds : r.age \in Nat /\ r.age <= Timeout + Timeout
      BY <2>1, Times DEF TypeOK, Round
    <2>3. timer # Off /\ timer \in Nat /\ timer <= Interval
      BY <2>1, <2>2, Times
    <2>4. age[n] <= timer + Timeout \/ running <= timer \/ Expected(n)
      BY <2>3 DEF DeadInv, Lagging
    <2> QED  BY <2>2, <2>3, <2>4, Times DEF Expected
  <1> QED  BY <1>1, DeadInit, DeadNext, RegistryInvariant, PTL DEF Spec

-----------------------------------------------------------------------------
(* Nodes that work.                                                        *)

\* A node that answers at all does so before the timeout, and a heartbeat that
\* was under way for so long is still fresh an interval and an answer later.
InTime == Latency < Timeout /\ Interval + 2 * Latency <= Failure

\* A node that has been up since it was asked answers within Latency, and a tick
\* that began since then takes it for alive; one that began when n came back
\* has not asked again.
Prompt(n) ==
    \A r \in rounds : up[n] /\ Pending(r.probe[n]) =>
        /\ r.probe[n].age <= age[n] => r.probe[n].age <= Latency
        /\ r.kind = "tick" /\ r.age < age[n] =>
              r.probe[n].stage = "ask" /\ r.probe[n].health # "dead"
        /\ r.kind = "tick" /\ r.age <= age[n] => r.age <= r.probe[n].age

PromptInv == \A n \in Nodes : Prompt(n)

\* n is HEALTHY, and stays so until the next answer is recorded.
Lasting(n) ==
    /\ status[n] = "HEALTHY"
    /\ \/ beat[n] <= Latency + timer
       \/ \E r \in rounds :
             /\ r.kind = "tick" /\ Pending(r.probe[n]) /\ r.age < age[n]
             /\ beat[n] <= Latency + Interval + r.age

\* The tick that will record n as alive is under way: the first one after old
\* answers had all come, or after the timer was started.
Awaited(n) ==
    \E r \in rounds :
        /\ r.kind = "tick" /\ Pending(r.probe[n]) /\ r.age < age[n]
        /\ \/ age[n] < r.age + Interval + Timeout + Latency
           \/ running <= r.age + Interval

\* Otherwise it may lag only as long as no such tick has begun.
Returning(n) ==
    timer # Off /\ up[n] =>
        \/ age[n] < Timeout + Latency + timer \/ running <= timer
        \/ Lasting(n) \/ Awaited(n)

AliveInv == \A n \in Nodes : Returning(n)

\* What an answer about a node that is up says of it.
LEMMA AliveAnswer ==
  ASSUME Latency < Timeout,
         NEW kind \in {"tick", "refresh"}, NEW a \in Nat, NEW n \in Nodes,
         NEW p, Fits(kind, a, p), Pending(p), up[n], age[n] \in Nat,
         p.age <= age[n] => p.age <= Latency,
         kind = "tick" /\ a < age[n] => p.stage = "ask" /\ p.health # "dead",
         kind = "tick" /\ a <= age[n] => a <= p.age,
         NEW next \in Probe, NEW complete \in BOOLEAN, Answered(n, p, next, complete)
  PROVE  /\ ~complete => next.age = p.age \/ next.age = 0
         /\ complete /\ next.health # "alive" => age[n] < Timeout + Latency
         /\ kind = "tick" /\ a < age[n] =>
               /\ complete => next.health = "alive"
               /\ ~complete => next.stage = "ask" /\ next.health # "dead"
         /\ kind = "tick" /\ a <= age[n] /\ ~complete => a <= next.age
  <1>1. p \in Probe /\ p.age \in Nat /\ p.age <= Timeout
    BY Times DEF Fits, Probe
  <1>2. /\ Ask("capacity").age = 0 /\ Ask("again").age = 0 /\ Failed.age = 0
        /\ Ask("capacity") \in Probe /\ Ask("again") \in Probe
    BY AskIs DEF Ask, Stages, Failed, Done
  <1>3. p.age <= a /\ (Missed(n, p) => p.age > age[n])
    BY <1>1, Times DEF Fits, Missed
  <1>4. /\ p.stage \in {"ask", "health"} => a <= p.age
        /\ p.stage \in {"again", "capacity"} => a <= Timeout + p.age
        /\ p.stage = "ask" => kind = "tick"
        /\ p.stage = "again" => kind = "tick"
        /\ p.stage = "capacity" => p.health = "alive"
    BY DEF Fits
  <1>5. ~complete => next.age = p.age \/ next.age = 0
    BY <1>1, <1>2 DEF Answered, Probe
  <1>6. ASSUME complete, next.health # "alive"
        PROVE  age[n] < Timeout + Latency
    <2>1. CASE Missed(n, p)
      BY <1>1, <1>3, <2>1, Times
    <2>2. CASE p.stage = "ask" /\ p.health = "dead"
      BY <1>1, <1>4, <2>2, Times
    <2>3. CASE p.stage = "again"
      BY <1>1, <1>4, <2>3, Times
    <2>4. ~Missed(n, p) => p.stage = "again" \/ (p.stage = "ask" /\ p.health = "dead")
      BY <1>1, <1>4, <1>6 DEF Answered, Probe
    <2> QED  BY <2>1, <2>2, <2>3, <2>4
  <1>7. ASSUME kind = "tick", a < age[n]
        PROVE  /\ complete => next.health = "alive"
               /\ ~complete => next.stage = "ask" /\ next.health # "dead"
    <2>1. ~Missed(n, p) /\ p.stage = "ask" /\ p.health # "dead"
      BY <1>1, <1>3, <1>7
    <2> QED  BY <1>1, <2>1 DEF Answered, Probe
  <1>8. ASSUME kind = "tick", a <= age[n], ~complete
        PROVE  a <= next.age
    <2>1. ~Missed(n, p) /\ p.stage \in {"ask", "again"}
      BY <1>1, <1>3, <1>8 DEF Fits, Pending
    <2>2. next.age = p.age
      BY <1>1, <1>8, <2>1 DEF Answered, Probe
    <2> QED  BY <1>8, <2>2
  <1> QED  BY <1>5, <1>6, <1>7, <1>8

LEMMA PromptInit == InTime /\ Init => PromptInv
  <1> SUFFICES ASSUME InTime, Init
               PROVE  PromptInv
    OBVIOUS
  <1>1. "ask" \in Stages
    BY DEF Stages
  <1>2. /\ Ask("ask").stage = "ask" /\ Ask("ask").age = 0 /\ Ask("ask").health = "waiting"
        /\ Begin("tick", "ask").age = 0
        /\ \A n \in Nodes : Begin("tick", "ask").probe[n] = Ask("ask")
    BY <1>1, AskIs, BeginIs
  <1> QED  BY <1>2, Times DEF Init, PromptInv, Prompt

\* An answer, seen from a node that is up.
LEMMA AliveMoves ==
  ASSUME InTime, TypeInv, PromptInv, NEW r \in rounds, NEW n \in Nodes, up[n],
         NEW next \in Probe, NEW complete \in BOOLEAN, NEW new \in Round,
         Moved(r, n, next, complete, new)
  PROVE  /\ r.probe[n].age <= age[n] => r.probe[n].age <= Latency
         /\ r.kind = "tick" /\ r.age < age[n] => r.age <= Latency
         /\ ~complete => next.age = r.probe[n].age \/ next.age = 0
         /\ complete /\ next.health # "alive" => age[n] < Timeout + Latency
         /\ r.kind = "tick" /\ r.age < age[n] =>
               /\ complete => next.health = "alive"
               /\ ~complete => next.stage = "ask" /\ next.health # "dead"
         /\ r.kind = "tick" /\ r.age <= age[n] /\ ~complete => r.age <= next.age
  <1>1. /\ Fits(r.kind, r.age, r.probe[n]) /\ Pending(r.probe[n])
        /\ r.kind \in {"tick", "refresh"} /\ r.age \in Nat /\ age[n] \in Nat
        /\ r.probe[n].age \in Nat
    BY AliveIsHeard, Times DEF TypeInv, TypeOK, Sound, Round, Probe
  <1>2. /\ r.probe[n].age <= age[n] => r.probe[n].age <= Latency
        /\ r.kind = "tick" /\ r.age < age[n] =>
              r.probe[n].stage = "ask" /\ r.probe[n].health # "dead"
        /\ r.kind = "tick" /\ r.age <= age[n] => r.age <= r.probe[n].age
    BY <1>1 DEF PromptInv, Prompt
  <1>3. r.kind = "tick" /\ r.age < age[n] => r.age <= Latency
    BY <1>1, <1>2, Times DEF Fits
  <1>4. Answered(n, r.probe[n], next, complete) /\ Latency < Timeout
    BY DEF Moved, InTime
  <1> HIDE DEF Moved
  <1> QED  BY <1>1, <1>2, <1>3, <1>4, AliveAnswer

LEMMA PromptNext == InTime /\ TypeInv /\ PromptInv /\ [Next]_vars => PromptInv'
  <1> SUFFICES ASSUME InTime, TypeInv, PromptInv, [Next]_vars, NEW m \in Nodes,
                      NEW s \in rounds', up'[m], Pending(s.probe[m])
               PROVE  /\ s.probe[m].age <= age'[m] => s.probe[m].age <= Latency
                      /\ s.kind = "tick" /\ s.age < age'[m] =>
                            s.probe[m].stage = "ask" /\ s.probe[m].health # "dead"
                      /\ s.kind = "tick" /\ s.age <= age'[m] => s.age <= s.probe[m].age
    BY DEF PromptInv, Prompt
  <1>1. TypeOK /\ (\A r \in rounds : Sound(r) /\ r \in Round)
    BY DEF TypeInv, Sound
  <1>2. /\ age[m] \in Nat /\ age[m] <= Horizon + 1
        /\ \A r \in rounds : /\ r.age \in Nat /\ r.age <= Timeout + Timeout
                             /\ r.probe[m] \in Probe /\ r.probe[m].age \in Nat
                             /\ Fits(r.kind, r.age, r.probe[m])
    BY <1>1, Times DEF TypeOK, Round, Sound, Probe
  <1>3. \A r \in rounds : up[m] /\ Pending(r.probe[m]) =>
          /\ r.probe[m].age <= age[m] => r.probe[m].age <= Latency
          /\ r.kind = "tick" /\ r.age < age[m] =>
                r.probe[m].stage = "ask" /\ r.probe[m].health # "dead"
          /\ r.kind = "tick" /\ r.age <= age[m] => r.age <= r.probe[m].age
    BY DEF PromptInv, Prompt
  <1>4. CASE \E r \in rounds, n \in Nodes : Answer(r, n)
    <2>1. PICK r \in rounds, n \in Nodes : Answer(r, n)
      BY <1>4
    <2>2. PICK next \in Probe, complete \in BOOLEAN, new \in Round :
            Moved(r, n, next, complete, new)
      BY <2>1, AnswerMoves
    <2>3. /\ rounds' = (rounds \ {r}) \union {new} /\ new.kind = r.kind /\ new.age = r.age
          /\ \A k \in Nodes : k # n => new.probe[k] = r.probe[k]
          /\ new.probe[n] = IF complete THEN Done ELSE next
          /\ up' = up /\ age' = age
      BY <2>2 DEF Moved
    <2>4. CASE s \in rounds
      BY <1>3, <2>3, <2>4
    <2>5. CASE s = new /\ m # n
      BY <1>3, <2>3, <2>5
    <2>6. CASE s = new /\ m = n
      <3>1. ~complete /\ s.probe[m] = next /\ s.age = r.age /\ s.kind = r.kind /\ up[n]
        BY <2>3, <2>6, DoneIs
      <3>2. /\ r.probe[n].age <= age[n] => r.probe[n].age <= Latency
            /\ next.age = r.probe[n].age \/ next.age = 0
            /\ r.kind = "tick" /\ r.age < age[n] => next.stage = "ask" /\ next.health # "dead"
            /\ r.kind = "tick" /\ r.age <= age[n] => r.age <= next.age
        BY <2>2, <3>1, AliveMoves
      <3> QED  BY <2>3, <2>6, <3>1, <3>2, Times
    <2> QED  BY <2>3, <2>4, <2>5, <2>6
  <1>5. CASE Pass
    <2>1. PICK r \in rounds : s = Later(r)
      BY <1>5 DEF Pass
    <2>2. /\ s.kind = r.kind /\ s.age = r.age + 1 /\ s.probe[m] = Aged(r.probe[m])
          /\ Pending(r.probe[m]) => r.probe[m].age < Timeout
      BY <1>5, <2>1, PassMoves
    <2>3. /\ Pending(r.probe[m]) /\ s.probe[m].age = r.probe[m].age + 1
          /\ s.probe[m].stage = r.probe[m].stage /\ s.probe[m].health = r.probe[m].health
      BY <1>2, <2>2, AgedIs
    <2>4. up[m] /\ age'[m] = Older(age[m], Horizon + 1)
      BY <1>5 DEF Pass
    <2>5. age'[m] \in Nat /\ age'[m] <= age[m] + 1
      BY <1>2, <2>4, Times DEF Older
    <2>6. r.probe[m].age <= age[m] => r.probe[m].age < Latency
      BY <1>5, <2>3, <2>4 DEF Pass, MayWait
    <2> QED  BY <1>2, <1>3, <2>2, <2>3, <2>4, <2>5, <2>6, Times
  <1>6. CASE \E n \in Nodes : Turn(n)
    <2>1. PICK n \in Nodes : Turn(n)
      BY <1>6
    <2>2. age' = [age EXCEPT ![n] = 0] /\ up' = [up EXCEPT ![n] = ~@] /\ rounds' = rounds
      BY <2>1 DEF Turn
    <2>3. CASE m = n
      <3>1. age'[m] = 0
        BY <1>1, <2>2, <2>3 DEF TypeOK
      <3> QED  BY <1>2, <2>2, <3>1, Times
    <2>4. CASE m # n
      <3>1. age'[m] = age[m] /\ up'[m] = up[m]
        BY <1>1, <2>2, <2>4 DEF TypeOK
      <3> QED  BY <1>3, <2>2, <3>1
    <2> QED  BY <2>3, <2>4
  <1>7. CASE up' = up /\ age' = age /\ (s \in rounds \/ s = Begin("tick", "ask")
                                                    \/ s = Begin("refresh", "health"))
    <2>1. /\ Begin("tick", "ask").probe[m].age = 0
          /\ Begin("tick", "ask").age = 0
          /\ Begin("tick", "ask").probe[m].stage = "ask"
          /\ Begin("tick", "ask").probe[m].health = "waiting"
          /\ Begin("refresh", "health").probe[m].age = 0
          /\ Begin("refresh", "health").kind = "refresh"
      BY DEF Begin, Ask
    <2> QED  BY <1>3, <1>7, <2>1, Times
  <1> QED  BY <1>4, <1>5, <1>6, <1>7, Actions
           DEF EndTick, EndRefresh, Start, Tick, Refresh, Dashboard, vars, nodes

\* A tick under way that began while n was up is young.
LEMMA TickIsYoung ==
  ASSUME TypeInv, PromptInv, NEW n \in Nodes, up[n], NEW r \in rounds,
         r.kind = "tick", Pending(r.probe[n]), r.age < age[n]
  PROVE  r.age \in Nat /\ r.age <= Latency /\ r.probe[n].age <= age[n]
  <1>1. /\ Fits(r.kind, r.age, r.probe[n]) /\ r.age \in Nat /\ r.probe[n].age \in Nat
        /\ age[n] \in Nat
    BY Times DEF TypeInv, TypeOK, Sound, Round, Probe
  <1>2. r.probe[n].age <= r.age
    BY <1>1 DEF Fits
  <1>3. r.probe[n].age <= age[n]
    BY <1>1, <1>2
  <1>4. r.probe[n].age <= Latency /\ r.probe[n].stage = "ask"
    BY <1>3 DEF PromptInv, Prompt
  <1> QED  BY <1>1, <1>3, <1>4, Times DEF Fits

LEMMA AliveInit == Init => AliveInv
  BY DEF Init, AliveInv, Returning

LEMMA AliveNext == InTime /\ TypeInv /\ PromptInv /\ AliveInv /\ [Next]_vars => AliveInv'
  <1> SUFFICES ASSUME InTime, TypeInv, PromptInv, AliveInv, [Next]_vars, NEW m \in Nodes,
                      timer' # Off, up'[m]
               PROVE  \/ age'[m] < Timeout + Latency + timer' \/ running' <= timer'
                      \/ Lasting(m)' \/ Awaited(m)'
    BY DEF AliveInv, Returning
  <1>1. TypeOK /\ (\A r \in rounds : Sound(r) /\ r \in Round) /\ (timer = Off => running = 0)
    BY DEF TypeInv, Sound
  <1>2. /\ age[m] \in Nat /\ age[m] <= Horizon + 1 /\ running \in Nat
        /\ running <= DeathKnown + 1 /\ timer \in {Off} \union 0..Interval
        /\ timer # Off => timer \in Nat
        /\ beat[m] \in Nat /\ beat[m] <= Old
        /\ \A r \in rounds : r.age \in Nat
    BY <1>1, Times DEF TypeOK, Round
  <1>3. timer # Off /\ up[m] =>
          \/ age[m] < Timeout + Latency + timer \/ running <= timer
          \/ Lasting(m) \/ Awaited(m)
    BY DEF AliveInv, Returning
  <1>4. Interval + Latency + Latency <= Failure
    BY Times DEF InTime
  <1>5. timer # Off /\ up[m] /\ Lasting(m) => Marked[m] = "HEALTHY"
    <2> SUFFICES ASSUME timer # Off, up[m], Lasting(m)
                 PROVE  Marked[m] = "HEALTHY"
      OBVIOUS
    <2>1. CASE beat[m] <= Latency + timer
      <3>1. beat[m] <= Failure
        BY <1>2, <1>4, <2>1, Times
      <3> QED  BY <1>1, <3>1, MarkedIs DEF Lasting
    <2>2. CASE \E r \in rounds :
                 /\ r.kind = "tick" /\ Pending(r.probe[m]) /\ r.age < age[m]
                 /\ beat[m] <= Latency + Interval + r.age
      <3>1. PICK r \in rounds :
                 /\ r.kind = "tick" /\ Pending(r.probe[m]) /\ r.age < age[m]
                 /\ beat[m] <= Latency + Interval + r.age
        BY <2>2
      <3>2. r.age <= Latency
        BY <3>1, TickIsYoung
      <3>3. beat[m] <= Failure
        BY <1>2, <1>4, <3>1, <3>2, Times
      <3> QED  BY <1>1, <3>3, MarkedIs DEF Lasting
    <2> QED  BY <2>1, <2>2 DEF Lasting
  <1>6. CASE \E r \in rounds, n \in Nodes : Answer(r, n)
    <2>1. PICK r \in rounds, n \in Nodes : Answer(r, n)
      BY <1>6
    <2>2. PICK next \in Probe, complete \in BOOLEAN, new \in Round :
            Moved(r, n, next, complete, new)
      BY <2>1, AnswerMoves
    <2>3. /\ rounds' = (rounds \ {r}) \union {new} /\ new.kind = r.kind /\ new.age = r.age
          /\ \A k \in Nodes : k # n => new.probe[k] = r.probe[k]
          /\ ~complete => new.probe[n] = next
          /\ up' = up /\ age' = age /\ timer' = timer /\ running' = running
      BY <2>2 DEF Moved
    <2>4. /\ complete => (status'[n] = "HEALTHY" <=> next.health = "alive")
          /\ complete /\ next.health = "alive" =>
                beat'[n] = next.seen /\ next.seen <= r.probe[n].age
          /\ r.kind = "tick" /\ ~complete => Pending(next)
          /\ \A k \in Nodes : k # n \/ ~complete => status'[k] = status[k] /\ beat'[k] = beat[k]
      BY <2>2, AliveIsHeard
    <2>5. CASE m # n \/ ~complete
      <3>1. status'[m] = status[m] /\ beat'[m] = beat[m]
        BY <2>4, <2>5
      <3>2. \A s \in rounds : s.kind = "tick" /\ Pending(s.probe[m]) =>
              \E q \in rounds' : q.kind = "tick" /\ Pending(q.probe[m]) /\ q.age = s.age
        BY <2>3, <2>4, <2>5
      <3>3. Lasting(m) => Lasting(m)'
        BY <2>3, <3>1, <3>2 DEF Lasting
      <3>4. Awaited(m) => Awaited(m)'
        BY <2>3, <3>2 DEF Awaited
      <3> QED  BY <1>3, <2>3, <3>3, <3>4
    <2>6. CASE m = n /\ complete
      <3>1. CASE age[m] < Timeout + Latency
        BY <1>2, <2>3, <3>1, Times
      <3>2. CASE age[m] >= Timeout + Latency
        <4>1. /\ r.probe[n].age <= age[n] => r.probe[n].age <= Latency
              /\ next.health # "alive" => age[n] < Timeout + Latency
          BY <2>2, <2>3, <2>6, AliveMoves
        <4>2. r.probe[n].age \in Nat /\ r.probe[n].age <= Timeout
          BY <1>1, Times DEF Round, Probe
        <4>3. r.probe[n].age <= Latency /\ next.health = "alive"
          BY <1>2, <2>6, <3>2, <4>1, <4>2, Times
        <4>4. status'[m] = "HEALTHY" /\ beat'[m] <= r.probe[n].age /\ beat'[m] = next.seen
          BY <2>4, <2>6, <4>3
        <4>5. next.seen \in Nat
          BY Times DEF Probe
        <4>6. beat'[m] <= Latency + timer'
          BY <1>2, <2>3, <4>2, <4>3, <4>4, <4>5, Times
        <4> QED  BY <4>4, <4>6 DEF Lasting
      <3> QED  BY <1>2, <3>1, <3>2, Times
    <2> QED  BY <2>5, <2>6
  <1>7. CASE \E r \in rounds : EndTick(r) \/ EndRefresh(r)
    <2>1. PICK r \in rounds : EndTick(r) \/ EndRefresh(r)
      BY <1>7
    <2>2. /\ rounds' = rounds \ {r} /\ Over(r)
          /\ up' = up /\ age' = age /\ timer' = timer /\ running' = running /\ beat' = beat
          /\ status' = Marked \/ status' = status
      BY <2>1 DEF EndTick, EndRefresh, nodes, clock
    <2>3. \A s \in rounds : Pending(s.probe[m]) => s \in rounds'
      BY <2>2 DEF Over
    <2>4. Awaited(m) => Awaited(m)'
      BY <2>2, <2>3 DEF Awaited
    <2>5. timer # Off /\ up[m] /\ Lasting(m) => Lasting(m)'
      BY <1>5, <2>2, <2>3 DEF Lasting
    <2> QED  BY <1>3, <2>2, <2>4, <2>5
  <1>8. CASE Start
    BY <1>1, <1>8, Times DEF Start
  <1>9. CASE Tick
    <2> DEFINE new == Begin("tick", "ask")
    <2>1. new.kind = "tick" /\ new.age = 0 /\ Pending(new.probe[m])
      <3>1. "ask" \in Stages
        BY DEF Stages
      <3> QED  BY <3>1, AskIs, BeginIs DEF Pending
    <2> HIDE DEF new
    <2>2. /\ rounds' = rounds \union {new} /\ timer = Interval /\ timer # Off /\ timer' = 0
          /\ up' = up /\ age' = age /\ status' = status /\ running' = running /\ beat' = beat
      BY <1>9, Times DEF Tick, new, nodes, Off
    <2>3. CASE age[m] = 0
      BY <2>2, <2>3, Times
    <2>4. CASE age[m] > 0
      <3>1. Awaited(m) => Awaited(m)'
        BY <2>2 DEF Awaited
      <3>2. age[m] < Timeout + Latency + timer \/ running <= timer => Awaited(m)'
        BY <1>2, <2>1, <2>2, <2>4, Times DEF Awaited
      <3>3. Lasting(m) => Lasting(m)'
        <4>1. CASE beat[m] <= Latency + timer
          <5>1. beat'[m] <= Latency + Interval + new.age
            BY <1>2, <2>1, <2>2, <4>1, Times
          <5> QED  BY <2>1, <2>2, <2>4, <5>1 DEF Lasting
        <4>2. CASE ~(beat[m] <= Latency + timer)
          BY <2>2, <4>2 DEF Lasting
        <4> QED  BY <4>1, <4>2
      <3> QED  BY <1>3, <2>2, <3>1, <3>2, <3>3
    <2> QED  BY <1>2, <2>3, <2>4
  <1>10. CASE Pass
    <2>1. /\ up' = up /\ status' = status /\ age'[m] = Older(age[m], Horizon + 1)
          /\ timer # Off /\ timer' = timer + 1 /\ beat'[m] = Older(beat[m], Old)
          /\ running' = Older(running, DeathKnown + 1)
          /\ rounds' = {Later(q) : q \in rounds}
      BY <1>10 DEF Pass
    <2>2. /\ age'[m] \in Nat /\ age'[m] <= age[m] + 1
          /\ running' \in Nat /\ running' <= running + 1
          /\ beat'[m] \in Nat /\ beat'[m] <= beat[m] + 1
          /\ age'[m] = age[m] + 1 \/ age'[m] = Horizon + 1
      BY <1>2, <2>1, Times DEF Older
    <2>3. timer \in Nat
      BY <1>2, <2>1
    <2>4. ASSUME NEW q \in rounds, q.kind = "tick", Pending(q.probe[m]), q.age < age[m], up[m]
          PROVE  /\ Later(q) \in rounds' /\ Later(q).kind = "tick" /\ Later(q).age = q.age + 1
                 /\ Pending(Later(q).probe[m]) /\ Later(q).age < age'[m]
      <3>1. /\ Later(q).kind = "tick" /\ Later(q).age = q.age + 1
            /\ Later(q).probe[m] = Aged(q.probe[m]) /\ q.probe[m] \in Probe
            /\ q.probe[m].age < Timeout
        BY <1>1, <1>10, <2>4, PassMoves DEF Round
      <3>2. Pending(Later(q).probe[m])
        BY <2>4, <3>1, AgedIs
      <3>3. q.age \in Nat /\ q.age <= Latency
        BY <2>4, TickIsYoung
      <3>4. q.age + 1 < age'[m]
        BY <1>2, <2>2, <2>4, <3>3, Times
      <3> QED  BY <2>1, <3>1, <3>2, <3>4
    <2>5. Awaited(m) => Awaited(m)'
      <3> SUFFICES ASSUME Awaited(m)
                   PROVE  Awaited(m)'
        OBVIOUS
      <3>1. PICK q \in rounds :
              /\ q.kind = "tick" /\ Pending(q.probe[m]) /\ q.age < age[m]
              /\ age[m] < q.age + Interval + Timeout + Latency \/ running <= q.age + Interval
        BY DEF Awaited
      <3>2. /\ Later(q) \in rounds' /\ Later(q).kind = "tick" /\ Later(q).age = q.age + 1
            /\ Pending(Later(q).probe[m]) /\ Later(q).age < age'[m]
        BY <2>1, <2>4, <3>1
      <3>3. \/ age'[m] < (q.age + 1) + Interval + Timeout + Latency
            \/ running' <= (q.age + 1) + Interval
        BY <1>2, <2>2, <3>1, Times
      <3> QED  BY <3>2, <3>3 DEF Awaited
    <2>6. Lasting(m) => Lasting(m)'
      <3> SUFFICES ASSUME Lasting(m)
                   PROVE  Lasting(m)'
        OBVIOUS
      <3>1. CASE beat[m] <= Latency + timer
        <4>1. beat'[m] <= Latency + timer'
          BY <1>2, <2>1, <2>2, <2>3, <3>1, Times
        <4> QED  BY <2>1, <4>1 DEF Lasting
      <3>2. CASE ~(beat[m] <= Latency + timer)
        <4>1. PICK q \in rounds :
                /\ q.kind = "tick" /\ Pending(q.probe[m]) /\ q.age < age[m]
                /\ beat[m] <= Latency + Interval + q.age
          BY <3>2 DEF Lasting
        <4>2. /\ Later(q) \in rounds' /\ Later(q).kind = "tick" /\ Later(q).age = q.age + 1
              /\ Pending(Later(q).probe[m]) /\ Later(q).age < age'[m]
          BY <2>1, <2>4, <4>1
        <4>3. beat'[m] <= Latency + Interval + (q.age + 1)
          BY <1>2, <2>2, <4>1, Times
        <4> QED  BY <2>1, <4>2, <4>3 DEF Lasting
      <3> QED  BY <3>1, <3>2
    <2> QED  BY <1>2, <1>3, <2>1, <2>2, <2>3, <2>5, <2>6, Times
  <1>11. CASE Refresh
    <2>1. /\ rounds \subseteq rounds' /\ up' = up /\ age' = age /\ status' = status
          /\ timer' = timer /\ running' = running /\ beat' = beat
      BY <1>11 DEF Refresh, nodes, clock
    <2>2. (Awaited(m) => Awaited(m)') /\ (Lasting(m) => Lasting(m)')
      BY <2>1 DEF Awaited, Lasting
    <2> QED  BY <1>3, <2>1, <2>2
  <1>12. CASE Dashboard
    <2>1. /\ rounds' = rounds /\ up' = up /\ age' = age /\ status' = Marked /\ beat' = beat
          /\ timer' = timer /\ running' = running
      BY <1>12 DEF Dashboard, nodes, clock
    <2>2. Awaited(m) => Awaited(m)'
      BY <2>1 DEF Awaited
    <2>3. timer # Off /\ up[m] /\ Lasting(m) => Lasting(m)'
      BY <1>5, <2>1 DEF Lasting
    <2> QED  BY <1>3, <2>1, <2>2, <2>3
  <1>13. CASE \E n \in Nodes : Turn(n)
    <2>1. PICK n \in Nodes : Turn(n)
      BY <1>13
    <2>2. /\ age' = [age EXCEPT ![n] = 0] /\ up' = [up EXCEPT ![n] = ~@]
          /\ status' = status /\ rounds' = rounds /\ timer' = timer /\ running' = running
          /\ beat' = beat
      BY <2>1 DEF Turn, clock
    <2>3. CASE m = n
      <3>1. age'[m] = 0
        BY <1>1, <2>2, <2>3 DEF TypeOK
      <3>2. timer \in Nat /\ timer' = timer
        BY <1>2, <2>2
      <3>3. age'[m] < Timeout + Latency + timer'
        BY <3>1, <3>2, Times
      <3> QED  BY <3>3
    <2>4. CASE m # n
      <3>1. age'[m] = age[m] /\ up'[m] = up[m]
        BY <1>1, <2>2, <2>4 DEF TypeOK
      <3>2. (Awaited(m) => Awaited(m)') /\ (Lasting(m) => Lasting(m)')
        BY <2>2, <3>1 DEF Awaited, Lasting
      <3> QED  BY <1>3, <2>2, <3>1, <3>2
    <2> QED  BY <2>3, <2>4
  <1>14. CASE UNCHANGED vars
    <2>1. /\ rounds' = rounds /\ up' = up /\ age' = age /\ status' = status /\ beat' = beat
          /\ timer' = timer /\ running' = running
      BY <1>14 DEF vars, nodes, clock
    <2>2. (Awaited(m) => Awaited(m)') /\ (Lasting(m) => Lasting(m)')
      BY <2>1 DEF Awaited, Lasting
    <2> QED  BY <1>3, <2>1, <2>2
  <1> QED  BY <1>6, <1>7, <1>8, <1>9, <1>10, <1>11, <1>12, <1>13, <1>14, Actions

\* A node that works and answers in time is HEALTHY once it has worked, and the
\* timer has run, for the times that AliveIsNoticed names, and stays so: neither
\* an answer from before it came back, nor an older heartbeat recorded over a
\* newer one by a tick that overlaps another, nor markStaleDead takes it for dead
\* (heartbeat-service.ts:8-21, metadata-service.ts:26-29).
THEOREM AliveCorrect ==
  ASSUME InTime
  PROVE  Spec => []AliveIsNoticed
  <1>1. TypeInv /\ PromptInv /\ AliveInv => AliveIsNoticed
    <2> SUFFICES ASSUME TypeInv, PromptInv, AliveInv, running > DeathKnown, NEW n \in Nodes,
                        up[n], age[n] > ReturnKnown
                 PROVE  status[n] = "HEALTHY"
      BY DEF AliveIsNoticed
    <2>1. TypeOK /\ (timer = Off => running = 0)
      BY DEF TypeInv
    <2>2. /\ age[n] \in Nat /\ running \in Nat /\ timer \in {Off} \union 0..Interval
      BY <2>1, Times DEF TypeOK
    <2>3. timer # Off /\ timer \in Nat /\ timer <= Interval
      BY <2>1, <2>2, Times
    <2>4. ReturnKnown = Interval + Timeout + Latency + Latency - 1
      BY Times DEF ReturnKnown
    <2>5. ~Awaited(n)
      <3> SUFFICES ASSUME NEW r \in rounds, r.kind = "tick", Pending(r.probe[n]), r.age < age[n],
                          \/ age[n] < r.age + Interval + Timeout + Latency
                          \/ running <= r.age + Interval
                   PROVE  FALSE
        BY DEF Awaited
      <3>1. r.age \in Nat /\ r.age <= Latency
        BY TickIsYoung
      <3> QED  BY <2>2, <2>4, <3>1, Times
    <2>6. \/ age[n] < Timeout + Latency + timer \/ running <= timer
          \/ Lasting(n) \/ Awaited(n)
      BY <2>3 DEF AliveInv, Returning
    <2> QED  BY <2>2, <2>3, <2>4, <2>5, <2>6, Times DEF Lasting
  <1>2. Init => PromptInv
    BY PromptInit
  <1>3. TypeInv /\ PromptInv /\ [Next]_vars => PromptInv'
    BY PromptNext
  <1>4. TypeInv /\ PromptInv /\ AliveInv /\ [Next]_vars => AliveInv'
    BY AliveNext
  <1> QED  BY <1>1, <1>2, <1>3, <1>4, AliveInit, RegistryInvariant, PTL DEF Spec

-----------------------------------------------------------------------------
(* Placement, for clusters of any size.                                    *)

\* A candidate's utilisation is its use, in as many parts as its capacity
\* leaves of W.
LEMMA Parts ==
    ASSUME NEW W \in Nat, NEW c \in Candidate(W)
    PROVE  /\ c \in [id: Nat, used: Nat, capacity: Nat \ {0}, primaries: Nat]
           /\ W \div c.capacity \in Nat \ {0}
           /\ (W \div c.capacity) * c.capacity = W
           /\ Utilisation(c, W) \in Nat
<1>1. c \in [id: Nat, used: Nat, capacity: Nat \ {0}, primaries: Nat]
  BY DEF Candidate
<1>2. PICK parts \in 1..W : parts * c.capacity = W
  BY DEF Candidate
<1>3. \A k \in Nat \ {0}, w \in Nat \ {0} : (w * k) \div k = w
  OBVIOUS
<1>4. W \div c.capacity = parts
  BY <1>1, <1>2, <1>3
<1>5. c.used * (W \div c.capacity) \in Nat
  BY <1>1, <1>2, <1>4
<1> QED
  BY <1>1, <1>2, <1>4, <1>5 DEF Utilisation

\* Products with a positive number are compared as their factors are.
LEMMA Scaled ==
    ASSUME NEW x \in Nat, NEW y \in Nat, NEW k \in Nat \ {0}
    PROVE  /\ x < y <=> x * k < y * k
           /\ x = y <=> x * k = y * k
OBVIOUS

\* Two fractions of one whole: the cross product compares the parts.
LEMMA Fractions ==
    ASSUME NEW u \in Nat, NEW v \in Nat,
           NEW c \in Nat \ {0}, NEW d \in Nat \ {0},
           NEW p \in Nat \ {0}, NEW q \in Nat \ {0}, p * c = q * d
    PROVE  /\ u * d < v * c <=> u * p < v * q
           /\ u * d = v * c <=> u * p = v * q
<1>1. (u * d) * (p * q) = (u * p) * (q * d) /\ (v * c) * (p * q) = (v * q) * (p * c)
  OBVIOUS
<1>2. p * q \in Nat \ {0} /\ p * c \in Nat \ {0}
  OBVIOUS
<1>3. u * d \in Nat /\ v * c \in Nat /\ u * p \in Nat /\ v * q \in Nat
  OBVIOUS
<1>4. /\ u * d < v * c <=> (u * d) * (p * q) < (v * c) * (p * q)
      /\ u * d = v * c <=> (u * d) * (p * q) = (v * c) * (p * q)
  BY ONLY <1>2, <1>3, Scaled
<1>5. /\ u * p < v * q <=> (u * p) * (p * c) < (v * q) * (p * c)
      /\ u * p = v * q <=> (u * p) * (p * c) = (v * q) * (p * c)
  BY ONLY <1>2, <1>3, Scaled
<1> QED
  BY ONLY <1>1, <1>4, <1>5, p * c = q * d

\* The cross product compares utilisations.
LEMMA CrossProduct ==
    ASSUME NEW W \in Nat, NEW a \in Candidate(W), NEW b \in Candidate(W)
    PROVE  /\ a.used * b.capacity < b.used * a.capacity
                <=> Utilisation(a, W) < Utilisation(b, W)
           /\ a.used * b.capacity = b.used * a.capacity
                <=> Utilisation(a, W) = Utilisation(b, W)
<1> DEFINE u == a.used
           v == b.used
           c == a.capacity
           d == b.capacity
           p == W \div c
           q == W \div d
<1>1. /\ u \in Nat /\ v \in Nat
      /\ c \in Nat \ {0} /\ d \in Nat \ {0}
      /\ p \in Nat \ {0} /\ q \in Nat \ {0}
      /\ p * c = W /\ q * d = W
  BY Parts
<1>2. Utilisation(a, W) = u * p /\ Utilisation(b, W) = v * q
  BY DEF Utilisation
<1> HIDE DEF u, v, c, d, p, q
<1>3. p * c = q * d
  BY <1>1
<1>4. /\ u * d < v * c <=> u * p < v * q
      /\ u * d = v * c <=> u * p = v * q
  BY ONLY <1>1, <1>3, Fractions
<1>5. /\ u * d < v * c <=> Utilisation(a, W) < Utilisation(b, W)
      /\ u * d = v * c <=> Utilisation(a, W) = Utilisation(b, W)
  BY <1>2, <1>4
<1> QED
  BY <1>5 DEF u, v, c, d

\* The order of the sort: by utilisation, primaries and identifier.
LEMMA PrecedesIs ==
    ASSUME NEW W \in Nat, NEW a \in Candidate(W), NEW b \in Candidate(W)
    PROVE  Precedes(a, b) <=>
             \/ Utilisation(a, W) < Utilisation(b, W)
             \/ /\ Utilisation(a, W) = Utilisation(b, W)
                /\ \/ a.primaries < b.primaries
                   \/ a.primaries = b.primaries /\ a.id < b.id
BY CrossProduct DEF Precedes

\* It is a strict order in which any two candidates of a cluster compare.
LEMMA StrictOrder ==
    ASSUME NEW W \in Nat, NEW S, IsCluster(S, W)
    PROVE  /\ \A a \in S : ~Precedes(a, a)
           /\ \A a, b, c \in S : Precedes(a, b) /\ Precedes(b, c) => Precedes(a, c)
           /\ \A a, b \in S : a # b => Precedes(a, b) \/ Precedes(b, a)
<1>1. \A c \in S : /\ c \in Candidate(W)
                   /\ Utilisation(c, W) \in Nat
                   /\ c.primaries \in Nat /\ c.id \in Nat
  BY Parts DEF IsCluster
<1>2. \A a, b \in S : a.id = b.id => a = b
  BY DEF IsCluster
<1>3. \A a, b \in S : Precedes(a, b) <=>
             \/ Utilisation(a, W) < Utilisation(b, W)
             \/ /\ Utilisation(a, W) = Utilisation(b, W)
                /\ \/ a.primaries < b.primaries
                   \/ a.primaries = b.primaries /\ a.id < b.id
  BY <1>1, PrecedesIs
<1> QED
  BY <1>1, <1>2, <1>3

\* A cluster can be sorted, in one order: a candidate's place is the number of
\* those that precede it.
LEMMA SortedIs ==
    ASSUME NEW W \in Nat, NEW S, IsCluster(S, W)
    PROVE  /\ Cardinality(S) \in Nat
           /\ Sorted(S) \in [1..Cardinality(S) -> S]
           /\ \A i, j \in 1..Cardinality(S) :
                 i < j => Precedes(Sorted(S)[i], Sorted(S)[j])
           /\ \A c \in S : \E i \in 1..Cardinality(S) : Sorted(S)[i] = c
<1> DEFINE N == Cardinality(S)
           Below(c) == {d \in S : Precedes(d, c)}
           before == [c \in S |-> Cardinality(Below(c))]
           place == [c \in S |-> before[c] + 1]
<1>1. IsFiniteSet(S) /\ N \in Nat
  BY FS_CardinalityType DEF IsCluster
<1>2. \A c \in S : IsFiniteSet(Below(c)) /\ Cardinality(Below(c)) \in 0..(N - 1)
  <2> SUFFICES ASSUME NEW c \in S
               PROVE  IsFiniteSet(Below(c)) /\ Cardinality(Below(c)) \in 0..(N - 1)
    OBVIOUS
  <2>1. Below(c) \in SUBSET S /\ c \notin Below(c)
    BY StrictOrder
  <2>2. /\ IsFiniteSet(Below(c)) /\ Cardinality(Below(c)) <= N
        /\ N = Cardinality(Below(c)) => S = Below(c)
    BY <1>1, <2>1, FS_Subset
  <2>3. Cardinality(Below(c)) \in Nat
    BY <2>2, FS_CardinalityType
  <2> QED
    BY <1>1, <2>1, <2>2, <2>3
<1>3. \A a, b \in S : Precedes(a, b) => before[a] < before[b]
  <2> SUFFICES ASSUME NEW a \in S, NEW b \in S, Precedes(a, b)
               PROVE  Cardinality(Below(a)) < Cardinality(Below(b))
    OBVIOUS
  <2>1. Below(a) \in SUBSET Below(b) /\ a \in Below(b) /\ a \notin Below(a)
    BY StrictOrder
  <2>2. /\ IsFiniteSet(Below(a)) /\ Cardinality(Below(a)) <= Cardinality(Below(b))
        /\ Cardinality(Below(b)) = Cardinality(Below(a)) => Below(b) = Below(a)
    BY <1>2, <2>1, FS_Subset
  <2>3. Cardinality(Below(a)) \in Nat /\ Cardinality(Below(b)) \in Nat
    BY <1>2, FS_CardinalityType
  <2> HIDE DEF Below
  <2> QED
    BY <2>1, <2>2, <2>3
<1>4. \A c \in S : before[c] \in 0..(N - 1)
  BY <1>2
<1> HIDE DEF before, N
<1>5. /\ place \in [S -> 1..N]
      /\ \A a, b \in S : a # b => place[a] # place[b]
  <2>1. \A a, b \in S : a # b => before[a] # before[b]
    BY <1>3, <1>4, StrictOrder
  <2> QED
    BY <1>1, <1>4, <2>1
<1>6. \A i \in 1..N : \E c \in S : place[c] = i
  <2>1. place \in Injection(S, 1..N)
    BY <1>5 DEF Injection, IsInjective
  <2>2. IsFiniteSet(1..N) /\ Cardinality(S) = Cardinality(1..N)
    BY <1>1, FS_Interval DEF N
  <2>3. place \in Surjection(S, 1..N)
    BY <2>1, <2>2, FS_Injection
  <2> QED
    BY <2>3 DEF Surjection
<1> DEFINE s == [i \in 1..N |-> CHOOSE c \in S : place[c] = i]
<1>7. \A i \in 1..N : s[i] \in S /\ place[s[i]] = i
  BY <1>6
<1>8. s \in [1..N -> S]
  BY <1>7
<1>9. \A i, j \in 1..N : i < j => Precedes(s[i], s[j])
  <2> SUFFICES ASSUME NEW i \in 1..N, NEW j \in 1..N, i < j
               PROVE  Precedes(s[i], s[j])
    OBVIOUS
  <2>1. s[i] \in S /\ s[j] \in S /\ place[s[i]] = i /\ place[s[j]] = j
    BY <1>7
  <2>2. s[i] # s[j]
    BY <2>1
  <2>3. ~Precedes(s[j], s[i])
    BY <1>1, <1>3, <1>4, <2>1
  <2> QED
    BY <2>1, <2>2, <2>3, StrictOrder
<1>10. /\ Sorted(S) \in [1..N -> S]
       /\ \A i, j \in 1..N : i < j => Precedes(Sorted(S)[i], Sorted(S)[j])
  BY <1>8, <1>9 DEF Sorted, N
<1>11. \A c \in S : \E i \in 1..N : Sorted(S)[i] = c
  <2>1. \A i, j \in 1..N : i # j => Sorted(S)[i] # Sorted(S)[j]
    BY <1>1, <1>10, StrictOrder
  <2>2. Sorted(S) \in Injection(1..N, S)
    BY <1>10, <2>1 DEF Injection, IsInjective
  <2>3. Cardinality(S) = Cardinality(1..N)
    BY <1>1, FS_Interval DEF N
  <2>4. Sorted(S) \in Surjection(1..N, S)
    BY <1>1, <2>2, <2>3, FS_Injection
  <2> QED
    BY <2>4 DEF Surjection
<1> QED
  BY <1>1, <1>10, <1>11 DEF N

\* What placement gives is least utilised, for any cluster and any count.
LEMMA ChosenLeast ==
    ASSUME NEW W \in Nat, NEW S, IsCluster(S, W), NEW count \in Nat
    PROVE  LeastUtilised(ChooseReplicaNodes(S, count), S, count, W)
<1> DEFINE room == {c \in S : HasRoom(c)}
           N == Cardinality(room)
           m == IF count < N THEN count ELSE N
           sorted == Sorted(room)
           taken == ChooseReplicaNodes(S, count)
<1>1. IsCluster(room, W)
  BY FS_Subset DEF IsCluster
<1>2. /\ N \in Nat /\ sorted \in [1..N -> room]
      /\ \A i, j \in 1..N : i < j => Precedes(sorted[i], sorted[j])
      /\ \A c \in room : \E i \in 1..N : sorted[i] = c
  BY <1>1, SortedIs
<1>3. room = {c \in S : c.capacity > c.used}
  BY DEF HasRoom
<1>4. \A a, b \in room : Precedes(a, b) =>
          \/ Utilisation(a, W) < Utilisation(b, W)
          \/ /\ Utilisation(a, W) = Utilisation(b, W)
             /\ a.primaries <= b.primaries
  <2>1. \A c \in room : c \in Candidate(W) /\ c.primaries \in Nat
    BY <1>1, Parts DEF IsCluster
  <2> QED
    BY <2>1, PrecedesIs
<1> HIDE DEF sorted, room, N
<1>5. sorted \in Seq(room) /\ Len(sorted) = N
  BY <1>2
<1>6. m \in 0..N
  BY <1>2
<1>7. taken = SubSeq(sorted, 1, m)
  BY <1>5 DEF ChooseReplicaNodes, room, sorted
<1>8. /\ DOMAIN taken = 1..m /\ Len(taken) = m
      /\ \A i \in 1..m : taken[i] = sorted[i]
  BY <1>2, <1>5, <1>6, <1>7
<1>9. ToSet(taken) \subseteq room
  BY <1>2, <1>6, <1>8 DEF ToSet
<1>10. ASSUME NEW i \in 1..m, NEW c \in room, \A j \in 1..i : taken[j] # c
       PROVE  Precedes(taken[i], c)
  <2>1. PICK k \in 1..N : sorted[k] = c
    BY <1>2
  <2>2. k > i
    BY <1>2, <1>6, <1>8, <1>10, <2>1
  <2> QED
    BY <1>2, <1>6, <1>8, <2>1, <2>2
<1>11. \A i \in 1..m : taken[i] \in room
  BY <1>2, <1>6, <1>8
<1> QED
  BY <1>3, <1>4, <1>8, <1>9, <1>10, <1>11 DEF LeastUtilised, N

\* Placement gives a file the least utilised nodes that have room, for any set
\* of nodes and number of copies (placement.ts:4-13).
THEOREM PlacementCorrect == Spec => []PlacementIsLeast
<1>1. PlacementIsLeast
  <2> SUFFICES ASSUME NEW cluster \in Clusters, NEW count \in 1..(Cardinality(cluster) + 1)
               PROVE  LeastUtilised(ChooseReplicaNodes(cluster, count), cluster, count, Whole)
    BY DEF PlacementIsLeast
  <2>1. Whole \in Nat /\ IsCluster(cluster, Whole)
    BY ClustersAssumption
  <2>2. count \in Nat
    OBVIOUS
  <2> QED
    BY <2>1, <2>2, ChosenLeast
<1> QED
  BY <1>1, PTL
=============================================================================
