-------------------------- MODULE BudgetedWorkerProofs --------------------------
(***************************************************************************)
(* What the ingestion worker and the LLM worker owe to their budget and to *)
(* the kill switch, for every number of workers, operators, limits and     *)
(* costs.                                                                  *)
(*                                                                         *)
(* BudgetStep gathers the ways in which a pipeline uses BudgetedWorker; it *)
(* is all that the proofs know of a pipeline.  Two parameters say the rest:*)
(* `idle', the program counters from which no charge is reached without    *)
(* asking the kill switch first, and `most', the most that is charged at   *)
(* once.                                                                   *)
(*                                                                         *)
(* That the overspend is bounded is not inductive.  Each charge that finds *)
(* the budget spent is paid for by a worker that loses its right to charge:*)
(* it throws the switch, and with the newest row on, a worker that asks    *)
(* goes no further.  Room counts the rights that were used up.             *)
(***************************************************************************)
EXTENDS BudgetedWorker, FiniteSetTheorems, TLAPS

KSP == INSTANCE KillSwitchProofs WITH
  Requests <- Operators \cup Trips, Readers <- Workers, Others <- Workers

(* The program counters of both pipelines.                                   *)
Points == {"check", "charge", "trip", "stopped", "down",
           "stream", "insert", "push",
           "pop", "load", "analyze", "retry", "flush", "resolve", "publish",
           "commit"}

(* A step of a worker that asks nothing of the switch or the budget: at most *)
(* it takes or gives back the write lock.                                    *)
Local(w, idle) ==
  /\ KS!TakeLock(w) \/ EndSession(w) \/ UNCHANGED switch
  /\ \E next \in Points : /\ Goto(w, next)
                          /\ next # "trip" /\ pc[w] # "trip"
                          /\ pc[w] \in idle => next \in idle
  /\ UNCHANGED <<budget, counters>>

BudgetStep(idle, most) ==
  \/ \E w \in Workers :
       \/ Ask(w)
       \/ \E next \in Points \ {"trip"} : Hear(w, next)
       \/ \E cost \in 0 .. most, next \in idle : Charge(w, cost, next)
       \/ Tripping(w)
       \/ Fail(w)
       \/ \E first \in idle : Start(w, first)
       \/ Local(w, idle)
  \/ NextPeriod \/ RedisLoss
  \/ \E q \in Operators : Operate(q)
  \/ UNCHANGED <<switch, pc, budget, counters>>

(* What a pipeline must choose the parameters like.                          *)
Parameters(idle, most) ==
  /\ {"check", "stopped", "down"} \subseteq idle /\ "charge" \notin idle
  /\ idle \subseteq Points \ {"trip"}
  /\ most \in Nat

-----------------------------------------------------------------------------
(* The switch, as in OrderPipelineProofs. *)
LEMMA Sessions == KSP!SessionsAssumption
  BY BudgetAssumption DEF BudgetAssumption, KSP!SessionsAssumption

LEMMA SameNext == KS!Next <=> KSP!Next
  BY DEF KS!Next, KSP!Next, KS!Step, KSP!Step, KS!Observe, KSP!Observe, KS!Active, KSP!Active,
         KS!Writing, KSP!Writing, KS!Activate, KSP!Activate, KS!Deactivate, KSP!Deactivate,
         KS!Flush, KSP!Flush, KS!LockTimeout, KSP!LockTimeout, KS!WriteRedis, KSP!WriteRedis,
         KS!Commit, KSP!Commit, KS!Abort, KSP!Abort,
         KS!Reading, KSP!Reading, KS!Call, KSP!Call, KS!ReadEnv, KSP!ReadEnv,
         KS!ReadRedis, KSP!ReadRedis, KS!ReadLatest, KSP!ReadLatest, KS!ReadFails, KSP!ReadFails,
         KS!Restart, KSP!Restart, KS!Return, KSP!Return, KS!GoOn, KSP!GoOn,
         KS!TakeLock, KSP!TakeLock, KS!ReleaseLock, KSP!ReleaseLock, KS!RedisLoss, KSP!RedisLoss,
         KS!shared, KSP!shared, KS!writers, KSP!writers, KS!readers, KSP!readers

LEMMA SameInit == KS!Init <=> KSP!Init
  BY DEF KS!Init, KSP!Init

LEMMA SameType == KS!TypeOK <=> KSP!TypeOK
  BY DEF KS!TypeOK, KSP!TypeOK

LEMMA SwitchUntouched ==
  ASSUME KSP!SwitchInv, UNCHANGED switch, KS!Observe
  PROVE  UNCHANGED seen
<1>1. seen' = [r \in Workers |-> IF rpc[r] = "idle" THEN {}
                                                     ELSE seen[r] \cup {KS!Active(r)}]
  BY DEF KS!Observe, KS!Active, switch
<1>2. ASSUME NEW r \in Workers PROVE seen'[r] = seen[r]
  BY <1>1 DEF KSP!SwitchInv, KSP!CallsWatched, KSP!Active, KS!Active
<1>3. QED
  BY <1>1, <1>2 DEF KSP!SwitchInv, KSP!WriteInv, KSP!TypeOK

(* Every step of a pipeline is a step of the switch or leaves it alone.      *)
LEMMA SwitchMoves ==
  ASSUME \A w \in Workers : env[w] \in BOOLEAN, NEW idle, NEW most, BudgetStep(idle, most)
  PROVE  KS!Step \/ UNCHANGED switch
<1>1. ASSUME NEW w \in Workers,
             \/ Ask(w)
             \/ \E next \in Points \ {"trip"} : Hear(w, next)
             \/ Local(w, idle)
      PROVE  KS!Step \/ UNCHANGED switch
  BY <1>1 DEF Ask, Hear, Local, EndSession, KS!Step, KS!Reading
<1>2. ASSUME NEW w \in Workers,
             \/ \E cost \in 0 .. most, next \in idle : Charge(w, cost, next)
             \/ Tripping(w)
      PROVE  KS!Step \/ UNCHANGED switch
  <2>1. Trip(w) \in Operators \cup Trips
    BY DEF Trips
  <2>2. KS!Writing(Trip(w)) => KS!Step
    BY <2>1 DEF KS!Step
  <2>3. QED
    BY <1>2, <2>2 DEF Charge, Tripping, TripGoesOn, TripCommits, TripTimesOut, KS!Writing
<1>3. ASSUME NEW w \in Workers, Fail(w) PROVE KS!Step \/ UNCHANGED switch
  <2>1. CASE KS!Abort(Trip(w))
    <3>1. Trip(w) \in Operators \cup Trips
      BY DEF Trips
    <3>2. QED
      BY <2>1, <3>1 DEF KS!Step, KS!Writing
  <2>2. CASE KS!Restart(w, env[w])
    <3>1. env[w] \in BOOLEAN
      OBVIOUS
    <3>2. QED
      BY <2>2, <3>1 DEF KS!Step, KS!Reading
  <2>3. CASE EndSession(w)
    BY <2>3 DEF EndSession, KS!Step
  <2>4. QED
    BY <1>3, <2>1, <2>2, <2>3 DEF Fail
<1>4. ASSUME NEW w \in Workers, NEW first \in idle, Start(w, first) PROVE KS!Step
  BY <1>4 DEF Start, KS!Step, KS!Reading
<1>5. ASSUME NEW q \in Operators, Operate(q) PROVE KS!Step
  <2>1. KS!Writing(q)
    BY <1>5 DEF Operate, KS!Writing
  <2>2. QED
    BY <2>1 DEF KS!Step
<1>6. CASE NextPeriod \/ RedisLoss
  BY <1>6 DEF NextPeriod, RedisLoss, KS!Step
<1>7. QED
  BY <1>1, <1>2, <1>3, <1>4, <1>5, <1>6 DEF BudgetStep, switch

LEMMA StepOfSwitch ==
  ASSUME KSP!SwitchInv, NEW idle, NEW most, BudgetStep(idle, most), KS!Observe
  PROVE  KS!Next \/ UNCHANGED KS!vars
<1>1. \A w \in Workers : env[w] \in BOOLEAN
  BY DEF KSP!SwitchInv, KSP!WriteInv, KSP!TypeOK
<1>2. QED
  BY <1>1, SwitchMoves, SwitchUntouched DEF KS!Next, KS!vars, switch

LEMMA SwitchStep ==
  ASSUME KSP!SwitchInv, NEW idle, NEW most, BudgetStep(idle, most), KS!Observe
  PROVE  KSP!SwitchInv'
<1>1. [KSP!Next]_(KSP!vars)
  BY StepOfSwitch, SameNext DEF KS!vars, KSP!vars
<1>2. QED
  BY <1>1, Sessions, KSP!SwitchInvStep

-----------------------------------------------------------------------------
(* The budget.                                                               *)

BudgetType ==
  /\ pc \in [Workers -> Points]
  /\ spend \in [Periods -> Nat]
  /\ period \in Periods
  /\ bill \in [Periods -> Nat]
  /\ losses \in Nat
  /\ faults \in Nat /\ refused \in Nat /\ releases \in Nat

(* The session Trip(w) is the one of w while w throws the switch, and it     *)
(* throws it.                                                                *)
TripsInv == \A w \in Workers :
  /\ pc[w] = "trip" <=> wpc[Trip(w)] # "idle"
  /\ pc[w] = "trip" => op[Trip(w)]

(* The requests to release the switch that are in progress were counted.     *)
Releasing == {q \in Operators : wpc[q] # "idle" /\ ~op[q]}

ReleasesInv == IsFiniteSet(Releasing) /\ Cardinality(Releasing) <= releases

(* The workers that have the right to charge.                                *)
Entitled(idle) == {w \in Workers : pc[w] # "trip" /\ ~(latest /\ pc[w] \in idle)}

(* How many rights were used up.  A release of the switch gives every worker *)
(* a new one when it commits, a failed attempt to throw it gives one back.   *)
Room(idle) ==
  Cardinality(Workers) * (1 + releases - Cardinality(Releasing)) + refused
    - Cardinality(Entitled(idle))

(* What Redis still knows of a bill: it stops counting at the limit.         *)
Counted(p) == IF spend[p] < Limit THEN spend[p] ELSE Limit - 1

Charged(idle, most) == \A p \in Periods :
  bill[p] <= losses * (Limit - 1) + most * Room(idle) + Counted(p)

BudgetInv(idle, most) ==
  /\ BudgetType
  /\ TripsInv
  /\ ReleasesInv
  /\ SpentMeansTripped
  /\ Charged(idle, most)

(* What the budget needs to know of the switch, whoever else reads it.       *)
SwitchTyped ==
  /\ redis \in BOOLEAN /\ latest \in BOOLEAN
  /\ wpc \in [Operators \cup Trips -> {"idle", "flush", "redis", "commit"}]
  /\ op \in [Operators \cup Trips -> BOOLEAN]
  /\ \A w \in Workers : w \in DOMAIN rpc /\ w \in DOMAIN source

LEMMA Tripper ==
  ASSUME NEW w \in Workers
  PROVE  /\ Trip(w) \in Operators \cup Trips
         /\ Trip(w) \notin Operators
         /\ \A v \in Workers : Trip(v) = Trip(w) => v = w
<1>1. Trip(w) \in Trips
  BY DEF Trips
<1>2. QED
  BY <1>1, BudgetAssumption DEF BudgetAssumption, Trip

LEMMA Counts ==
  ASSUME ReleasesInv
  PROVE  /\ Cardinality(Workers) \in Nat
         /\ Cardinality(Releasing) \in Nat
  BY BudgetAssumption, FS_CardinalityType DEF BudgetAssumption, ReleasesInv

LEMMA CountEntitled ==
  ASSUME NEW idle
  PROVE  /\ IsFiniteSet(Entitled(idle)) /\ Cardinality(Entitled(idle)) \in Nat
         /\ Cardinality(Entitled(idle)) <= Cardinality(Workers)
<1>1. Entitled(idle) \in SUBSET Workers
  BY DEF Entitled
<1>2. QED
  BY <1>1, BudgetAssumption, FS_Subset, FS_CardinalityType DEF BudgetAssumption

(* The next two lemmas say what a step needs to show of Room.                *)
LEMMA Monotone ==
  ASSUME NEW a \in Nat, NEW x \in Int, NEW y \in Int, x <= y
  PROVE  a * x <= a * y
  OBVIOUS

LEMMA Distribute ==
  ASSUME NEW a \in Nat, NEW x \in Int
  PROVE  a * (x + 1) = a * x + a
  OBVIOUS

LEMMA RoomType ==
  ASSUME BudgetType, ReleasesInv, NEW idle
  PROVE  Room(idle) \in Int
  BY Counts, CountEntitled DEF BudgetType, Room

LEMMA FewerEntitled ==
  ASSUME BudgetType, ReleasesInv, NEW idle,
         UNCHANGED <<releases, Releasing>>, refused' \in Nat, refused <= refused',
         Entitled(idle)' \subseteq Entitled(idle)
  PROVE  Room(idle)' \in Int /\ Room(idle) <= Room(idle)'
<1>1. /\ IsFiniteSet(Entitled(idle)') /\ Cardinality(Entitled(idle)') \in Nat
      /\ Cardinality(Entitled(idle)') <= Cardinality(Entitled(idle))
  BY CountEntitled, FS_Subset, FS_CardinalityType
<1> DEFINE c == Cardinality(Workers) * (1 + releases - Cardinality(Releasing))
<1>2. c \in Int
  BY Counts DEF BudgetType
<1>3. /\ Room(idle) = c + refused - Cardinality(Entitled(idle))
      /\ Room(idle)' = c + refused' - Cardinality(Entitled(idle)')
  BY DEF Room
<1> HIDE DEF c
<1>4. QED
  BY <1>1, <1>2, <1>3, CountEntitled DEF BudgetType

(* A failed attempt to throw the switch may give the worker its right back.  *)
LEMMA RefusedEntitled ==
  ASSUME BudgetType, ReleasesInv, NEW idle, NEW w \in Workers,
         UNCHANGED <<releases, Releasing>>, refused' = refused + 1,
         Entitled(idle)' \subseteq Entitled(idle) \cup {w}
  PROVE  Room(idle)' \in Int /\ Room(idle) <= Room(idle)'
<1>1. /\ IsFiniteSet(Entitled(idle) \cup {w})
      /\ Cardinality(Entitled(idle) \cup {w}) <= Cardinality(Entitled(idle)) + 1
  BY CountEntitled, FS_AddElement
<1>2. /\ IsFiniteSet(Entitled(idle)') /\ Cardinality(Entitled(idle)') \in Nat
      /\ Cardinality(Entitled(idle)') <= Cardinality(Entitled(idle)) + 1
  BY <1>1, CountEntitled, FS_Subset, FS_CardinalityType
<1> DEFINE c == Cardinality(Workers) * (1 + releases - Cardinality(Releasing))
<1>3. c \in Int
  BY Counts DEF BudgetType
<1>4. /\ Room(idle) = c + refused - Cardinality(Entitled(idle))
      /\ Room(idle)' = c + refused' - Cardinality(Entitled(idle)')
  BY DEF Room
<1> HIDE DEF c
<1>5. QED
  BY <1>2, <1>3, <1>4, CountEntitled DEF BudgetType

(* A charge that finds the budget spent takes the right of its worker.       *)
LEMMA OneLessEntitled ==
  ASSUME BudgetType, ReleasesInv, NEW idle, NEW w \in Entitled(idle),
         UNCHANGED <<releases, refused, Releasing>>,
         Entitled(idle)' \subseteq Entitled(idle) \ {w}
  PROVE  Room(idle)' \in Int /\ Room(idle) + 1 <= Room(idle)'
<1>1. /\ IsFiniteSet(Entitled(idle) \ {w})
      /\ Cardinality(Entitled(idle) \ {w}) = Cardinality(Entitled(idle)) - 1
  BY CountEntitled, FS_RemoveElement
<1>2. /\ IsFiniteSet(Entitled(idle)') /\ Cardinality(Entitled(idle)') \in Nat
      /\ Cardinality(Entitled(idle)') <= Cardinality(Entitled(idle)) - 1
  BY <1>1, CountEntitled, FS_Subset, FS_CardinalityType
<1> DEFINE c == Cardinality(Workers) * (1 + releases - Cardinality(Releasing))
<1>3. c \in Int
  BY Counts DEF BudgetType
<1>4. /\ Room(idle) = c + refused - Cardinality(Entitled(idle))
      /\ Room(idle)' = c + refused - Cardinality(Entitled(idle)')
  BY DEF Room
<1> HIDE DEF c
<1>5. QED
  BY <1>2, <1>3, <1>4, CountEntitled DEF BudgetType

(* A step that charges nothing keeps the bill within its bound when it uses  *)
(* up no room; RedisLoss forgets less than a limit.                          *)
LEMMA NothingCharged ==
  ASSUME BudgetType, ReleasesInv, NEW idle, NEW most \in Nat, Charged(idle, most),
         UNCHANGED <<spend, bill, losses>>, Room(idle)' \in Int, Room(idle) <= Room(idle)'
  PROVE  Charged(idle, most)'
<1>1. Room(idle) \in Int
  BY RoomType
<1>2. most * Room(idle) \in Int /\ most * Room(idle)' \in Int
      /\ most * Room(idle) <= most * Room(idle)'
  BY <1>1, Monotone
<1>3. losses * (Limit - 1) \in Int
  BY BudgetAssumption DEF BudgetAssumption, BudgetType
<1> DEFINE m == most * Room(idle)
           n == most * Room(idle)'
           l == losses * (Limit - 1)
<1>4. ASSUME NEW p \in Periods PROVE bill'[p] <= losses' * (Limit - 1) + n + Counted(p)'
  <2>1. bill[p] <= l + m + Counted(p)
    BY DEF Charged
  <2>2. /\ bill'[p] = bill[p] /\ bill[p] \in Nat
        /\ Counted(p)' = Counted(p) /\ Counted(p) \in Int
        /\ losses' * (Limit - 1) = l
    BY BudgetAssumption DEF BudgetAssumption, BudgetType, Counted
  <2> HIDE DEF m, n, l
  <2>3. QED
    BY <2>1, <2>2, <1>2, <1>3 DEF m, n, l
<1>5. QED
  BY <1>4 DEF Charged

LEMMA DataLost ==
  ASSUME BudgetType, ReleasesInv, NEW idle, NEW most \in Nat, Charged(idle, most),
         UNCHANGED bill, spend' = [p \in Periods |-> 0], losses' = losses + 1,
         Room(idle)' = Room(idle)
  PROVE  Charged(idle, most)'
<1> DEFINE m == most * Room(idle)
           l == losses * (Limit - 1)
<1>1. m \in Int /\ l \in Int /\ Limit \in Nat \ {0}
  BY RoomType, BudgetAssumption DEF BudgetAssumption, BudgetType
<1>2. losses' * (Limit - 1) = l + (Limit - 1)
  BY BudgetAssumption DEF BudgetAssumption, BudgetType
<1>3. ASSUME NEW p \in Periods
      PROVE  bill'[p] <= losses' * (Limit - 1) + most * Room(idle)' + Counted(p)'
  <2>1. bill[p] <= l + m + Counted(p)
    BY DEF Charged
  <2>2. /\ bill'[p] = bill[p] /\ bill[p] \in Nat
        /\ Counted(p)' = 0 /\ Counted(p) \in Int /\ Counted(p) <= Limit - 1
        /\ most * Room(idle)' = m
    BY BudgetAssumption DEF BudgetAssumption, BudgetType, Counted
  <2> HIDE DEF m, l
  <2>3. QED
    BY <2>1, <2>2, <1>1, <1>2
<1>4. QED
  BY <1>3 DEF Charged

(* A charge below the limit is counted by Redis; one that reaches the limit  *)
(* uses up a room.                                                           *)
LEMMA OneCharged ==
  ASSUME BudgetType, ReleasesInv, NEW idle, NEW most \in Nat, Charged(idle, most),
         NEW cost \in 0 .. most, UNCHANGED losses,
         spend' = [spend EXCEPT ![period] = @ + cost],
         bill' = [bill EXCEPT ![period] = @ + cost],
         Room(idle)' \in Int,
         (spend'[period] < Limit /\ Room(idle) <= Room(idle)') \/ Room(idle) + 1 <= Room(idle)'
  PROVE  Charged(idle, most)'
<1> DEFINE m == most * Room(idle)
           n == most * Room(idle)'
           l == losses * (Limit - 1)
<1>1. m \in Int /\ n \in Int /\ l \in Int /\ Limit \in Nat \ {0} /\ Room(idle) \in Int
  BY RoomType, BudgetAssumption DEF BudgetAssumption, BudgetType
<1>2. m <= n
  BY <1>1, Monotone
<1>3. spend'[period] >= Limit => m + most <= n
  <2>1. CASE spend'[period] < Limit
    BY <2>1, BudgetAssumption DEF BudgetAssumption, BudgetType
  <2>2. CASE Room(idle) + 1 <= Room(idle)'
    <3>1. most * (Room(idle) + 1) <= n
      BY <1>1, <2>2, Monotone
    <3>2. QED
      BY <1>1, <3>1, Distribute
  <2>3. QED
    BY <2>1, <2>2
<1>4. ASSUME NEW p \in Periods PROVE bill'[p] <= l + n + Counted(p)'
  <2>1. bill[p] <= l + m + Counted(p)
    BY DEF Charged
  <2>2. CASE p # period
    <3>1. /\ bill'[p] = bill[p] /\ bill[p] \in Nat
          /\ Counted(p)' = Counted(p) /\ Counted(p) \in Int
      BY <2>2, BudgetAssumption DEF BudgetAssumption, BudgetType, Counted
    <3> HIDE DEF m, n, l
    <3>2. QED
      BY <1>1, <1>2, <2>1, <3>1
  <2>3. CASE p = period
    <3>1. /\ bill'[p] = bill[p] + cost /\ bill[p] \in Nat
          /\ spend'[p] = spend[p] + cost /\ spend[p] \in Nat
          /\ cost \in Nat /\ cost <= most
      BY <2>3, BudgetAssumption DEF BudgetAssumption, BudgetType
    <3> HIDE DEF m, n, l
    <3>2. QED
      BY <1>1, <1>2, <1>3, <2>1, <2>3, <3>1 DEF Counted
  <2>4. QED
    BY <2>2, <2>3
<1>5. QED
  BY <1>4 DEF Charged

-----------------------------------------------------------------------------
(* The steps, one kind after the other.                                      *)

(* The session of a worker is no operator's request.                         *)
LEMMA SameReleasing ==
  ASSUME UNCHANGED releases, ReleasesInv,
         \A q \in Operators : wpc'[q] = wpc[q] /\ op'[q] = op[q]
  PROVE  Releasing' = Releasing /\ ReleasesInv'
<1>1. Releasing' = Releasing
  BY DEF Releasing
<1>2. QED
  BY <1>1 DEF ReleasesInv

(* A worker that asks, hears, goes on, ends or begins: the switch keeps its  *)
(* value, and a worker gets a right to charge only by an answer `inactive',  *)
(* which it had from a newest row that is off.                               *)
LEMMA WorkerMoves ==
  ASSUME NEW idle, NEW most, Parameters(idle, most), BudgetInv(idle, most),
         NEW w \in Workers, NEW next \in Points \ {"trip"}, pc[w] # "trip",
         UNCHANGED <<redis, latest, wpc, op, budget, refused, releases>>,
         faults' \in Nat,
         Goto(w, next),
         pc[w] \in idle => next \in idle \/ ~latest
  PROVE  BudgetInv(idle, most)'
<1> USE DEF BudgetInv, budget
<1>1. BudgetType'
  BY DEF BudgetType, Goto, Periods
<1>2. TripsInv'
  BY DEF TripsInv, BudgetType, Goto
<1>3. Releasing' = Releasing /\ ReleasesInv'
  BY SameReleasing
<1>4. SpentMeansTripped'
  BY DEF SpentMeansTripped, BudgetType, Goto
<1>5. Entitled(idle)' \subseteq Entitled(idle)
  BY DEF Entitled, BudgetType, Goto
<1>6. Room(idle)' \in Int /\ Room(idle) <= Room(idle)'
  BY <1>3, <1>5, FewerEntitled DEF BudgetType
<1>7. Charged(idle, most)'
  BY <1>6, NothingCharged DEF Parameters
<1>8. QED
  BY <1>1, <1>2, <1>3, <1>4, <1>7

(* A step that no budget notices, one of somebody else among them, who may    *)
(* only have met a fault.                                                    *)
LEMMA NothingMoves ==
  ASSUME NEW idle, NEW most, BudgetInv(idle, most),
         UNCHANGED <<redis, latest, wpc, op, pc, spend, bill, losses, refused, releases>>,
         period' \in Periods, faults' \in Nat
  PROVE  BudgetInv(idle, most)'
  BY DEF BudgetInv, BudgetType, TripsInv, Releasing, ReleasesInv, SpentMeansTripped, Entitled,
         Room, Counted, Charged, Periods

LEMMA AskStep ==
  ASSUME NEW idle, NEW most, Parameters(idle, most), BudgetInv(idle, most),
         NEW w \in Workers, Ask(w)
  PROVE  BudgetInv(idle, most)'
  BY NothingMoves
  DEF Ask, KS!Call, KS!shared, KS!writers, budget, counters, BudgetInv, BudgetType

LEMMA HearStep ==
  ASSUME NEW idle, NEW most, Parameters(idle, most), SwitchTyped, BudgetInv(idle, most),
         NEW w \in Workers, NEW next \in Points \ {"trip"}, Hear(w, next)
  PROVE  BudgetInv(idle, most)'
<1> USE DEF SwitchTyped, KS!shared, KS!writers
<1>1. UNCHANGED <<redis, latest, wpc, op, budget, counters>>
  BY DEF Hear, KS!ReadEnv, KS!ReadRedis, KS!ReadLatest
<1>2. CASE UNCHANGED pc
  BY <1>1, <1>2, NothingMoves DEF budget, counters, BudgetInv, BudgetType
<1>3. pc[w] = "check" /\ faults' \in Nat /\ UNCHANGED <<refused, releases>>
  BY <1>1 DEF Hear, counters, BudgetInv, BudgetType
<1>4. CASE Goto(w, "stopped")
  BY <1>1, <1>3, <1>4, WorkerMoves DEF Parameters
<1>5. CASE Goto(w, next) /\ rpc'[w] = "idle" /\ source'[w] = "inactive"
  <2>1. ~latest
    <3>1. CASE KS!ReadEnv(w)
      BY <1>5, <3>1 DEF KS!ReadEnv, KS!Return, KS!GoOn
    <3>2. CASE KS!ReadRedis(w)
      BY <1>5, <3>2 DEF KS!ReadRedis, KS!Return, KS!GoOn
    <3>3. CASE KS!ReadLatest(w)
      BY <1>5, <3>3 DEF KS!ReadLatest, KS!Return
    <3>4. QED
      BY <3>1, <3>2, <3>3 DEF Hear
  <2>2. QED
    BY <1>1, <1>3, <1>5, <2>1, WorkerMoves
<1>6. QED
  BY <1>2, <1>4, <1>5 DEF Hear

LEMMA LocalStep ==
  ASSUME NEW idle, NEW most, Parameters(idle, most), BudgetInv(idle, most),
         NEW w \in Workers, Local(w, idle)
  PROVE  BudgetInv(idle, most)'
<1>1. UNCHANGED <<redis, latest, wpc, op>>
  BY DEF Local, EndSession, KS!TakeLock, KS!ReleaseLock, KS!writers, switch
<1>2. faults' \in Nat /\ UNCHANGED <<budget, refused, releases>>
  BY DEF Local, counters, BudgetInv, BudgetType
<1>3. QED
  BY <1>1, <1>2, WorkerMoves DEF Local

LEMMA StartStep ==
  ASSUME NEW idle, NEW most, Parameters(idle, most), BudgetInv(idle, most),
         NEW w \in Workers, NEW first \in idle, Start(w, first)
  PROVE  BudgetInv(idle, most)'
<1>1. UNCHANGED <<redis, latest, wpc, op>>
  BY DEF Start, KS!Restart, KS!shared, KS!writers
<1>2. faults' \in Nat /\ UNCHANGED <<budget, refused, releases>>
  BY DEF Start, counters, BudgetInv, BudgetType
<1>3. QED
  BY <1>1, <1>2, WorkerMoves DEF Start, Parameters

(* A charge below the limit goes on; one that reaches it starts to throw the *)
(* switch, and costs the worker its right.                                   *)
LEMMA ChargeStep ==
  ASSUME NEW idle, NEW most, Parameters(idle, most), BudgetInv(idle, most),
         NEW w \in Workers, NEW cost \in 0 .. most, NEW next \in idle, Charge(w, cost, next),
         SwitchTyped
  PROVE  BudgetInv(idle, most)'
<1> USE DEF BudgetInv, KS!shared, KS!readers
<1>1. /\ pc[w] = "charge" /\ cost \in Nat /\ most \in Nat
      /\ spend' = [spend EXCEPT ![period] = @ + cost]
      /\ bill' = [bill EXCEPT ![period] = @ + cost]
      /\ UNCHANGED <<period, losses, faults, refused, releases>>
      /\ UNCHANGED <<redis, latest>>
  BY DEF Charge, KS!Activate, counters, switch, Parameters
<1>2. spend' \in [Periods -> Nat] /\ bill' \in [Periods -> Nat] /\ period \in Periods
  BY <1>1 DEF BudgetType
<1>3. CASE spend'[period] >= Limit /\ KS!Activate(Trip(w)) /\ Goto(w, "trip")
  <2>1. /\ wpc' = [wpc EXCEPT ![Trip(w)] = "flush"]
        /\ op' = [op EXCEPT ![Trip(w)] = TRUE]
    BY <1>3 DEF KS!Activate
  <2>2. TripsInv'
    BY <1>3, <2>1, Tripper DEF TripsInv, BudgetType, Goto, SwitchTyped
  <2>3. Releasing' = Releasing /\ ReleasesInv'
    <3>1. ASSUME NEW q \in Operators PROVE wpc'[q] = wpc[q] /\ op'[q] = op[q]
      BY <2>1, Tripper DEF SwitchTyped
    <3>2. QED
      BY <1>1, <3>1, SameReleasing
  <2>4. SpentMeansTripped'
    BY <1>3 DEF SpentMeansTripped, BudgetType, Goto
  <2>5. BudgetType'
    <3>1. pc' \in [Workers -> Points]
      <4>1. "trip" \in Points
        BY DEF Points
      <4>2. QED
        BY <1>3, <4>1 DEF BudgetType, Goto
    <3>2. QED
      BY <1>1, <1>2, <3>1 DEF BudgetType, Periods
  <2>6. w \in Entitled(idle) /\ Entitled(idle)' \subseteq Entitled(idle) \ {w}
    BY <1>1, <1>3 DEF Entitled, BudgetType, Goto, Parameters
  <2>7. Room(idle)' \in Int /\ Room(idle) + 1 <= Room(idle)'
    BY <1>1, <2>3, <2>6, OneLessEntitled
  <2>8. Charged(idle, most)'
    BY <1>1, <2>7, OneCharged
  <2>9. QED
    BY <2>2, <2>3, <2>4, <2>5, <2>8
<1>4. CASE spend'[period] < Limit /\ UNCHANGED switch /\ Goto(w, next)
  <2>1. UNCHANGED <<wpc, op>> /\ next # "trip" /\ next \in Points
    BY <1>4 DEF switch, Parameters
  <2>2. TripsInv'
    BY <1>1, <1>4, <2>1 DEF TripsInv, BudgetType, Goto
  <2>3. Releasing' = Releasing /\ ReleasesInv'
    BY <1>1, <2>1, SameReleasing
  <2>4. SpentMeansTripped'
    <3>1. ASSUME NEW p \in Periods, spend'[p] >= Limit PROVE spend[p] >= Limit
      BY <1>1, <1>2, <1>4, <3>1, BudgetAssumption DEF BudgetType, BudgetAssumption
    <3>2. ASSUME NEW v \in Workers, pc[v] = "trip" PROVE pc'[v] = "trip"
      BY <1>1, <1>4, <3>2 DEF BudgetType, Goto
    <3>3. QED
      BY <1>1, <3>1, <3>2 DEF SpentMeansTripped
  <2>5. BudgetType'
    BY <1>1, <1>2, <1>4, <2>1 DEF BudgetType, Goto
  <2>6. Entitled(idle)' \subseteq Entitled(idle)
    BY <1>1, <1>4 DEF Entitled, BudgetType, Goto
  <2>7. Room(idle)' \in Int /\ Room(idle) <= Room(idle)'
    BY <1>1, <2>3, <2>6, FewerEntitled DEF BudgetType
  <2>8. Charged(idle, most)'
    BY <1>1, <1>4, <2>7, OneCharged
  <2>9. QED
    BY <2>2, <2>3, <2>4, <2>5, <2>8
<1>5. QED
  BY <1>3, <1>4 DEF Charge

(* The steps of activate.  Until its commit nothing but the key changes; the *)
(* commit turns the newest row on, and every worker that asks stops.         *)
LEMMA TripGoesOnStep ==
  ASSUME NEW idle, NEW most, Parameters(idle, most), BudgetInv(idle, most),
         NEW w \in Workers, TripGoesOn(w), SwitchTyped
  PROVE  BudgetInv(idle, most)'
<1> USE DEF BudgetInv, KS!shared, KS!readers
<1>1. /\ pc[w] = "trip" /\ UNCHANGED <<pc, budget, counters, latest, op>>
      /\ redis' = redis \/ redis' = op[Trip(w)]
      /\ wpc[Trip(w)] # "idle"
      /\ \E x \in {"redis", "commit"} : wpc' = [wpc EXCEPT ![Trip(w)] = x]
  BY DEF TripGoesOn, KS!Flush, KS!WriteRedis
<1>2. op[Trip(w)] = TRUE
  BY <1>1, Tripper DEF TripsInv, SwitchTyped
<1>3. TripsInv'
  BY <1>1, Tripper DEF TripsInv, SwitchTyped
<1>4. ASSUME NEW q \in Operators PROVE wpc'[q] = wpc[q] /\ op'[q] = op[q]
  BY <1>1, Tripper DEF SwitchTyped
<1>5. Releasing' = Releasing /\ ReleasesInv'
  BY <1>1, <1>4, SameReleasing DEF counters
<1>6. SpentMeansTripped'
  BY <1>1, <1>2 DEF SpentMeansTripped, budget, counters
<1>7. BudgetType'
  BY <1>1 DEF BudgetType, budget, counters, Periods
<1>8. Entitled(idle)' \subseteq Entitled(idle)
  BY <1>1 DEF Entitled
<1>9. Room(idle)' \in Int /\ Room(idle) <= Room(idle)'
  BY <1>1, <1>5, <1>8, FewerEntitled DEF counters, BudgetType
<1>10. Charged(idle, most)'
  BY <1>1, <1>9, NothingCharged DEF budget, Parameters
<1>11. QED
  BY <1>3, <1>5, <1>6, <1>7, <1>10

LEMMA TripCommitsStep ==
  ASSUME NEW idle, NEW most, Parameters(idle, most), BudgetInv(idle, most),
         NEW w \in Workers, TripCommits(w), SwitchTyped
  PROVE  BudgetInv(idle, most)'
<1> USE DEF BudgetInv, KS!shared, KS!readers
<1>1. /\ pc[w] = "trip" /\ UNCHANGED <<budget, counters, redis, op>>
      /\ latest' = op[Trip(w)]
      /\ pc' = [pc EXCEPT ![w] = "stopped"]
      /\ wpc' = [wpc EXCEPT ![Trip(w)] = "idle"]
  BY DEF TripCommits, KS!Commit, Goto
<1>2. latest' = TRUE
  BY <1>1, Tripper DEF TripsInv, SwitchTyped
<1>3. TripsInv'
  BY <1>1, Tripper DEF TripsInv, SwitchTyped, BudgetType
<1>4. ASSUME NEW q \in Operators PROVE wpc'[q] = wpc[q] /\ op'[q] = op[q]
  BY <1>1, Tripper DEF SwitchTyped
<1>5. Releasing' = Releasing /\ ReleasesInv'
  BY <1>1, <1>4, SameReleasing DEF counters
<1>6. SpentMeansTripped'
  BY <1>2 DEF SpentMeansTripped
<1>7. BudgetType'
  <2>1. "stopped" \in Points
    BY DEF Points
  <2>2. pc' \in [Workers -> Points]
    BY <1>1, <2>1 DEF BudgetType
  <2>3. QED
    BY <1>1, <2>2 DEF BudgetType, budget, counters, Periods
<1>8. Entitled(idle)' \subseteq Entitled(idle)
  BY <1>1, <1>2 DEF Entitled, BudgetType, Parameters
<1>9. Room(idle)' \in Int /\ Room(idle) <= Room(idle)'
  BY <1>1, <1>5, <1>8, FewerEntitled DEF counters, BudgetType
<1>10. Charged(idle, most)'
  BY <1>1, <1>9, NothingCharged DEF budget, Parameters
<1>11. QED
  BY <1>3, <1>5, <1>6, <1>7, <1>10

(* A busy timeout or an exception: the switch stays as it is, the worker is  *)
(* down, and the attempt is counted.                                         *)
LEMMA TripRefused ==
  ASSUME NEW idle, NEW most, Parameters(idle, most), BudgetInv(idle, most), SwitchTyped,
         NEW w \in Workers, pc[w] = "trip", Goto(w, "down"),
         UNCHANGED <<redis, latest, op, budget, releases>>,
         wpc' = [wpc EXCEPT ![Trip(w)] = "idle"],
         refused' = refused + 1, faults' \in Nat
  PROVE  BudgetInv(idle, most)'
<1> USE DEF BudgetInv
<1>1. TripsInv'
  BY Tripper DEF TripsInv, SwitchTyped, BudgetType, Goto
<1>2. ASSUME NEW q \in Operators PROVE wpc'[q] = wpc[q] /\ op'[q] = op[q]
  BY Tripper DEF SwitchTyped
<1>3. Releasing' = Releasing /\ ReleasesInv'
  BY <1>2, SameReleasing
<1>4. SpentMeansTripped'
  BY DEF SpentMeansTripped, BudgetType
<1>5. BudgetType'
  <2>1. "down" \in Points
    BY DEF Points
  <2>2. pc' \in [Workers -> Points]
    BY <2>1 DEF BudgetType, Goto
  <2>3. refused' \in Nat
    BY DEF BudgetType
  <2>4. QED
    BY <2>2, <2>3 DEF BudgetType, budget, Periods
<1>6. Entitled(idle)' \subseteq Entitled(idle) \cup {w}
  BY DEF Entitled, BudgetType, Goto
<1>7. Room(idle)' \in Int /\ Room(idle) <= Room(idle)'
  BY <1>3, <1>6, RefusedEntitled
<1>8. Charged(idle, most)'
  BY <1>7, NothingCharged DEF budget, Parameters
<1>9. QED
  BY <1>1, <1>3, <1>4, <1>5, <1>8

LEMMA TrippingStep ==
  ASSUME NEW idle, NEW most, Parameters(idle, most), BudgetInv(idle, most), SwitchTyped,
         NEW w \in Workers, Tripping(w)
  PROVE  BudgetInv(idle, most)'
<1>1. CASE TripTimesOut(w)
  <2>1. UNCHANGED <<redis, latest, op>> /\ wpc' = [wpc EXCEPT ![Trip(w)] = "idle"]
    BY <1>1 DEF TripTimesOut, KS!LockTimeout, KS!shared
  <2>2. QED
    BY <1>1, <2>1, TripRefused DEF TripTimesOut, BudgetInv, BudgetType
<1>2. QED
  BY <1>1, TripGoesOnStep, TripCommitsStep DEF Tripping

LEMMA FailStep ==
  ASSUME NEW idle, NEW most, Parameters(idle, most), BudgetInv(idle, most), SwitchTyped,
         NEW w \in Workers, Fail(w)
  PROVE  BudgetInv(idle, most)'
<1>1. faults' \in Nat /\ UNCHANGED <<budget, releases>> /\ Goto(w, "down")
  BY DEF Fail, BudgetInv, BudgetType
<1>2. CASE pc[w] = "trip" /\ KS!Abort(Trip(w)) /\ refused' = refused + 1
  <2>1. UNCHANGED <<redis, latest, op>> /\ wpc' = [wpc EXCEPT ![Trip(w)] = "idle"]
    BY <1>2 DEF KS!Abort
  <2>2. QED
    BY <1>1, <1>2, <2>1, TripRefused
<1>3. CASE pc[w] # "trip" /\ (KS!Restart(w, env[w]) \/ EndSession(w)) /\ UNCHANGED refused
  <2>1. UNCHANGED <<redis, latest, wpc, op>>
    BY <1>3 DEF KS!Restart, EndSession, KS!ReleaseLock, KS!shared, KS!writers, switch
  <2>2. "down" \in idle
    BY DEF Parameters
  <2>3. QED
    BY <1>1, <1>3, <2>1, <2>2, WorkerMoves DEF Parameters
<1>4. QED
  BY <1>2, <1>3 DEF Fail

(* An operator's request.  One that releases the switch was counted when it  *)
(* began; when it commits, every worker may charge again.                    *)
LEMMA ReleaserCounted ==
  ASSUME ReleasesInv, releases \in Nat, NEW q \in Releasing
  PROVE  releases > 0
<1>1. Cardinality(Releasing) \in Nat /\ Cardinality(Releasing) # 0
  BY FS_CardinalityType, FS_EmptySet DEF ReleasesInv
<1>2. QED
  BY <1>1 DEF ReleasesInv

LEMMA FewerReleasing ==
  ASSUME BudgetType, ReleasesInv, NEW idle, UNCHANGED <<releases, refused>>,
         Releasing' \subseteq Releasing,
         \/ Entitled(idle)' \subseteq Entitled(idle)
         \/ \E q \in Releasing : q \notin Releasing'
  PROVE  ReleasesInv' /\ Room(idle)' \in Int /\ Room(idle) <= Room(idle)'
<1> DEFINE n == Cardinality(Workers)
           r == Cardinality(Releasing)
           s == Cardinality(Releasing')
           e == Cardinality(Entitled(idle))
           f == Cardinality(Entitled(idle)')
<1>1. /\ IsFiniteSet(Releasing') /\ s \in Nat /\ r \in Nat /\ s <= r
      /\ (\E q \in Releasing : q \notin Releasing') => s + 1 <= r
  BY FS_Subset, FS_CardinalityType DEF ReleasesInv
<1>2. /\ Room(idle) = n * (1 + releases - r) + refused - e
      /\ Room(idle)' = n * (1 + releases - s) + refused - f
  BY DEF Room
<1>3. n \in Nat /\ e \in Nat /\ releases \in Nat /\ refused \in Nat
  BY Counts, CountEntitled DEF BudgetType
<1>4. f \in Nat /\ f <= n
  <2>1. Entitled(idle)' \in SUBSET Workers
    BY DEF Entitled
  <2>2. QED
    BY <2>1, BudgetAssumption, FS_Subset, FS_CardinalityType DEF BudgetAssumption
<1>5. ReleasesInv'
  BY <1>1, <1>3 DEF ReleasesInv
<1> HIDE DEF n, r, s, e, f
<1>6. Entitled(idle)' \subseteq Entitled(idle) => f <= e
  BY CountEntitled, FS_Subset DEF f, e
<1>7. CASE s + 1 <= r
  <2>1. n * (1 + releases - r + 1) <= n * (1 + releases - s)
    BY <1>1, <1>3, <1>7, Monotone
  <2>2. n * (1 + releases - r + 1) = n * (1 + releases - r) + n
    BY <1>1, <1>3, Distribute
  <2>3. n * (1 + releases - r) \in Int /\ n * (1 + releases - s) \in Int
    BY <1>1, <1>3
  <2>4. QED
    BY <1>2, <1>3, <1>4, <1>5, <2>1, <2>2, <2>3
<1>8. CASE f <= e
  <2>1. n * (1 + releases - r) <= n * (1 + releases - s)
    BY <1>1, <1>3, Monotone
  <2>2. n * (1 + releases - r) \in Int /\ n * (1 + releases - s) \in Int
    BY <1>1, <1>3
  <2>3. QED
    BY <1>2, <1>3, <1>4, <1>5, <1>8, <2>1, <2>2
<1>9. QED
  BY <1>1, <1>6, <1>7, <1>8

LEMMA ReleaseBegins ==
  ASSUME BudgetType, ReleasesInv, NEW idle, UNCHANGED <<refused, latest, pc>>,
         releases' = releases + 1,
         NEW q \in Operators \ Releasing, Releasing' = Releasing \cup {q}
  PROVE  ReleasesInv' /\ Room(idle)' = Room(idle)
<1>1. /\ IsFiniteSet(Releasing') /\ Cardinality(Releasing') = Cardinality(Releasing) + 1
  BY FS_AddElement DEF ReleasesInv
<1>2. Entitled(idle)' = Entitled(idle)
  BY DEF Entitled
<1>3. 1 + releases' - Cardinality(Releasing') = 1 + releases - Cardinality(Releasing)
  BY <1>1, Counts DEF BudgetType
<1>4. Room(idle)' = Room(idle)
  BY <1>2, <1>3 DEF Room
<1>5. QED
  BY <1>1, <1>4, Counts DEF BudgetType, ReleasesInv

LEMMA OperateStep ==
  ASSUME NEW idle, NEW most, Parameters(idle, most), BudgetInv(idle, most), SwitchTyped,
         NEW q \in Operators, Operate(q)
  PROVE  BudgetInv(idle, most)'
<1> USE DEF BudgetInv, KS!shared, KS!readers, KS!writers
<1>1. /\ UNCHANGED <<pc, budget, faults, refused>> /\ releases' \in Nat
  BY DEF Operate, BudgetType
<1>2. BudgetType'
  BY <1>1 DEF BudgetType, budget, Periods
<1>3. \A r \in (Operators \cup Trips) \ {q} : wpc'[r] = wpc[r] /\ op'[r] = op[r]
  BY DEF Operate, KS!Deactivate, KS!Activate, KS!Flush, KS!LockTimeout, KS!WriteRedis,
         KS!Commit, KS!Abort, SwitchTyped
<1>4. TripsInv'
  BY <1>1, <1>3, Tripper DEF TripsInv
<1>5. CASE releases' = releases + 1 /\ KS!Deactivate(q, "I-understand", "maintenance")
  <2>1. q \notin Releasing /\ Releasing' = Releasing \cup {q}
    BY <1>5 DEF KS!Deactivate, SwitchTyped, Releasing
  <2>2. UNCHANGED <<redis, latest>>
    BY <1>5 DEF KS!Deactivate
  <2>3. ReleasesInv' /\ Room(idle)' = Room(idle)
    BY <1>1, <1>5, <2>1, <2>2, ReleaseBegins
  <2>4. SpentMeansTripped'
    BY <1>2, <1>5 DEF SpentMeansTripped, BudgetType
  <2>5. Charged(idle, most)'
    BY <1>1, <2>3, RoomType, NothingCharged DEF budget, Parameters
  <2>6. QED
    BY <1>2, <1>4, <2>3, <2>4, <2>5
<1>6. CASE releases' = releases /\ KS!Activate(q)
  <2>1. UNCHANGED <<redis, latest>>
    BY <1>6 DEF KS!Activate
  <2>2. Releasing' = Releasing
    BY <1>6 DEF KS!Activate, SwitchTyped, Releasing
  <2>3. Entitled(idle)' = Entitled(idle)
    BY <1>1, <2>1 DEF Entitled
  <2>4. ReleasesInv' /\ Room(idle)' \in Int /\ Room(idle) <= Room(idle)'
    BY <1>1, <1>6, <2>2, <2>3, FewerReleasing
  <2>5. SpentMeansTripped'
    BY <1>1, <1>6, <2>1 DEF SpentMeansTripped, budget
  <2>6. Charged(idle, most)'
    BY <1>1, <2>4, NothingCharged DEF budget, Parameters
  <2>7. QED
    BY <1>2, <1>4, <2>4, <2>5, <2>6
<1>7. CASE /\ releases' = releases
           /\ KS!Flush(q) \/ KS!LockTimeout(q) \/ KS!WriteRedis(q) \/ KS!Abort(q)
  <2>1. UNCHANGED <<latest, op>> /\ redis' \in {redis, op[q]}
    BY <1>7 DEF KS!Flush, KS!LockTimeout, KS!WriteRedis, KS!Abort
  <2>2. wpc[q] # "idle"
    BY <1>7 DEF KS!Flush, KS!LockTimeout, KS!WriteRedis, KS!Abort
  <2>3. Releasing' \subseteq Releasing
    BY <1>3, <2>1, <2>2 DEF Releasing
  <2>4. Entitled(idle)' = Entitled(idle)
    BY <1>1, <2>1 DEF Entitled
  <2>5. ReleasesInv' /\ Room(idle)' \in Int /\ Room(idle) <= Room(idle)'
    BY <1>1, <1>7, <2>3, <2>4, FewerReleasing
  <2>6. SpentMeansTripped'
    <3>1. CASE q \in Releasing
      BY <1>7, <3>1, ReleaserCounted DEF SpentMeansTripped, BudgetType
    <3>2. CASE q \notin Releasing
      <4>1. op[q] = TRUE
        BY <2>2, <3>2 DEF Releasing, SwitchTyped
      <4>2. QED
        BY <1>1, <1>7, <2>1, <4>1 DEF SpentMeansTripped, budget
    <3>3. QED
      BY <3>1, <3>2
  <2>7. Charged(idle, most)'
    BY <1>1, <2>5, NothingCharged DEF budget, Parameters
  <2>8. QED
    BY <1>2, <1>4, <2>5, <2>6, <2>7
<1>8. CASE releases' = releases /\ KS!Commit(q)
  <2>1. /\ latest' = op[q] /\ UNCHANGED <<redis, op>>
        /\ wpc[q] # "idle" /\ wpc'[q] = "idle"
    BY <1>8 DEF KS!Commit, SwitchTyped
  <2>2. Releasing' \subseteq Releasing
    BY <1>3, <2>1 DEF Releasing
  <2>3. CASE ~op[q]
    <3>1. q \in Releasing /\ q \notin Releasing'
      BY <2>1, <2>3 DEF Releasing
    <3>2. ReleasesInv' /\ Room(idle)' \in Int /\ Room(idle) <= Room(idle)'
      BY <1>1, <1>8, <2>2, <3>1, FewerReleasing
    <3>3. SpentMeansTripped'
      BY <1>8, <3>1, ReleaserCounted DEF SpentMeansTripped, BudgetType
    <3>4. Charged(idle, most)'
      BY <1>1, <3>2, NothingCharged DEF budget, Parameters
    <3>5. QED
      BY <1>2, <1>4, <3>2, <3>3, <3>4
  <2>4. CASE op[q] = TRUE
    <3>1. Entitled(idle)' \subseteq Entitled(idle)
      BY <1>1, <2>1, <2>4 DEF Entitled
    <3>2. ReleasesInv' /\ Room(idle)' \in Int /\ Room(idle) <= Room(idle)'
      BY <1>1, <1>8, <2>2, <3>1, FewerReleasing
    <3>3. SpentMeansTripped'
      BY <2>1, <2>4 DEF SpentMeansTripped
    <3>4. Charged(idle, most)'
      BY <1>1, <3>2, NothingCharged DEF budget, Parameters
    <3>5. QED
      BY <1>2, <1>4, <3>2, <3>3, <3>4
  <2>5. QED
    BY <2>3, <2>4 DEF SwitchTyped
<1>9. QED
  BY <1>5, <1>6, <1>7, <1>8 DEF Operate

(* Redis restarts empty: the counters are zero, a spent budget is forgotten  *)
(* together with the charge that spent it.                                   *)
LEMMA RedisLossStep ==
  ASSUME NEW idle, NEW most, Parameters(idle, most), BudgetInv(idle, most), RedisLoss
  PROVE  BudgetInv(idle, most)'
<1> USE DEF BudgetInv
<1>1. /\ UNCHANGED <<latest, wpc, op, pc, period, bill, counters>>
      /\ spend' = [p \in Periods |-> 0] /\ losses' = losses + 1
  BY DEF RedisLoss, KS!RedisLoss, KS!writers
<1>2. BudgetType' /\ TripsInv'
  BY <1>1 DEF BudgetType, TripsInv, counters, Periods
<1>3. Releasing' = Releasing /\ Entitled(idle)' = Entitled(idle)
  BY <1>1 DEF Releasing, Entitled
<1>4. ReleasesInv' /\ Room(idle)' = Room(idle)
  BY <1>1, <1>3 DEF ReleasesInv, Room, counters
<1>5. SpentMeansTripped'
  BY <1>1, BudgetAssumption DEF SpentMeansTripped, BudgetAssumption
<1>6. Charged(idle, most)'
  BY <1>1, <1>4, DataLost DEF Parameters
<1>7. QED
  BY <1>2, <1>4, <1>5, <1>6

-----------------------------------------------------------------------------
(* What a pipeline gets when its steps are budget steps, in company, too: of *)
(* the switch a step needs no more than its types.                           *)
LEMMA BudgetInvInit ==
  ASSUME NEW idle, NEW most, Parameters(idle, most), NEW first \in idle,
         wpc = [q \in Operators \cup Trips |-> "idle"], WorkersReady(first)
  PROVE  BudgetInv(idle, most)
<1> USE DEF WorkersReady
<1>1. BudgetType /\ 0 \in Periods
  BY BudgetAssumption DEF BudgetAssumption, BudgetType, Periods, Parameters
<1>2. TripsInv
  BY Tripper DEF TripsInv, Parameters
<1>3. Releasing = {}
  BY DEF Releasing
<1>4. ReleasesInv /\ Cardinality(Releasing) = 0
  BY <1>3, FS_EmptySet DEF ReleasesInv
<1>5. SpentMeansTripped
  BY BudgetAssumption DEF BudgetAssumption, SpentMeansTripped
<1>6. Room(idle) \in Nat
  <2> DEFINE n == Cardinality(Workers)
  <2>1. n \in Nat /\ n * (1 + releases - Cardinality(Releasing)) = n
    BY <1>4, Counts
  <2>2. Room(idle) = n + 0 - Cardinality(Entitled(idle))
    BY <2>1 DEF Room
  <2>3. QED
    BY <2>1, <2>2, CountEntitled
<1>7. Charged(idle, most)
  <2>1. most * Room(idle) \in Nat
    BY <1>6 DEF Parameters
  <2>2. losses * (Limit - 1) = 0
    BY BudgetAssumption DEF BudgetAssumption
  <2>3. QED
    BY <2>1, <2>2, BudgetAssumption DEF BudgetAssumption, Charged, Counted
<1>8. QED
  BY <1>1, <1>2, <1>4, <1>5, <1>7 DEF BudgetInv

LEMMA BudgetInvStep ==
  ASSUME NEW idle, NEW most, Parameters(idle, most), SwitchTyped, BudgetInv(idle, most),
         BudgetStep(idle, most)
  PROVE  BudgetInv(idle, most)'
<1>1. ASSUME NextPeriod \/ UNCHANGED <<switch, pc, budget, counters>>
      PROVE  BudgetInv(idle, most)'
  <2>1. UNCHANGED <<redis, latest, wpc, op, pc, spend, bill, losses, refused, releases>>
    BY <1>1 DEF NextPeriod, switch, budget, counters
  <2>2. period' \in Periods /\ faults' \in Nat
    BY <1>1, BudgetAssumption
    DEF NextPeriod, budget, counters, BudgetInv, BudgetType, Periods, BudgetAssumption
  <2>3. QED
    BY <2>1, <2>2, NothingMoves
<1>2. ASSUME NEW w \in Workers,
             \/ Ask(w)
             \/ \E next \in Points \ {"trip"} : Hear(w, next)
             \/ \E cost \in 0 .. most, next \in idle : Charge(w, cost, next)
             \/ Tripping(w)
             \/ Fail(w)
             \/ \E first \in idle : Start(w, first)
             \/ Local(w, idle)
      PROVE  BudgetInv(idle, most)'
  BY <1>2, AskStep, HearStep, ChargeStep, TrippingStep, FailStep, StartStep, LocalStep
<1>3. ASSUME RedisLoss \/ \E q \in Operators : Operate(q)
      PROVE  BudgetInv(idle, most)'
  BY <1>3, RedisLossStep, OperateStep
<1>4. QED
  BY <1>1, <1>2, <1>3 DEF BudgetStep

(* With the invariant of the switch, for a pipeline on its own.              *)
WorkerInv(idle, most) == KSP!SwitchInv /\ BudgetInv(idle, most)

LEMMA WorkerInvInit ==
  ASSUME NEW idle, NEW most, Parameters(idle, most), NEW first \in idle,
         KS!Init, WorkersReady(first)
  PROVE  WorkerInv(idle, most)
<1>1. KSP!SwitchInv
  BY Sessions, SameInit, KSP!SwitchInvInit
<1>2. wpc = [q \in Operators \cup Trips |-> "idle"]
  BY DEF KS!Init
<1>3. QED
  BY <1>1, <1>2, BudgetInvInit DEF WorkerInv

LEMMA WorkerInvStep ==
  ASSUME NEW idle, NEW most, Parameters(idle, most), WorkerInv(idle, most),
         BudgetStep(idle, most), KS!Observe
  PROVE  WorkerInv(idle, most)'
<1>1. KSP!SwitchInv'
  BY SwitchStep DEF WorkerInv
<1>2. SwitchTyped
  BY DEF WorkerInv, KSP!SwitchInv, KSP!WriteInv, KSP!TypeOK, SwitchTyped
<1>3. BudgetInv(idle, most)'
  BY <1>2, BudgetInvStep DEF WorkerInv
<1>4. QED
  BY <1>1, <1>3 DEF WorkerInv

LEMMA Overspend ==
  ASSUME NEW idle, NEW most, Parameters(idle, most), BudgetInv(idle, most)
  PROVE  OverspendAtMost(most)
<1> DEFINE n == Cardinality(Workers)
           r == Cardinality(Releasing)
           bound == n * (1 + releases) + refused
           l == losses * (Limit - 1)
<1> USE DEF BudgetInv
<1>1. /\ n \in Nat /\ r \in Nat /\ releases \in Nat /\ refused \in Nat /\ most \in Nat
      /\ l \in Int /\ Limit \in Nat \ {0}
  BY Counts, BudgetAssumption DEF BudgetType, Parameters, BudgetAssumption
<1>2. n * (1 + releases - r) <= n * (1 + releases)
  BY <1>1, Monotone
<1>3. Room(idle) <= bound /\ Room(idle) \in Int /\ bound \in Int
  <2>1. n * (1 + releases - r) \in Int /\ n * (1 + releases) \in Int
    BY <1>1
  <2>2. Room(idle) = n * (1 + releases - r) + refused - Cardinality(Entitled(idle))
    BY DEF Room
  <2> HIDE DEF n, r
  <2>3. QED
    BY <1>1, <1>2, <2>1, <2>2, CountEntitled
<1>4. most * Room(idle) <= most * bound /\ most * Room(idle) \in Int /\ most * bound \in Int
  BY <1>1, <1>3, Monotone
<1>5. ASSUME NEW p \in Periods PROVE bill[p] < Limit + l + most * bound
  <2>1. /\ bill[p] <= l + most * Room(idle) + Counted(p)
        /\ Counted(p) <= Limit - 1 /\ Counted(p) \in Int /\ bill[p] \in Nat
    BY <1>1 DEF Charged, Counted, BudgetType
  <2> HIDE DEF bound, l
  <2>2. QED
    BY <1>1, <1>4, <2>1
<1>6. QED
  BY <1>5 DEF OverspendAtMost

LEMMA WorkerInvStutter ==
  ASSUME NEW idle, NEW most, Parameters(idle, most), WorkerInv(idle, most),
         UNCHANGED workerVars
  PROVE  WorkerInv(idle, most)'
<1>1. UNCHANGED KSP!vars
  BY DEF workerVars, switch, KSP!vars
<1>2. KSP!SwitchInv'
  BY <1>1, Sessions, KSP!SwitchInvStep DEF WorkerInv
<1>3. /\ UNCHANGED <<redis, latest, wpc, op, pc, spend, bill, losses, refused, releases>>
      /\ period' = period /\ faults' = faults
  BY DEF workerVars, switch, budget, counters
<1>4. BudgetInv(idle, most)'
  BY <1>3, NothingMoves DEF WorkerInv, BudgetInv, BudgetType
<1>5. QED
  BY <1>2, <1>4 DEF WorkerInv

(* A pipeline's steps are steps of the switch. *)
LEMMA WorkersKeepSwitch ==
  ASSUME NEW idle, NEW most, WorkerInv(idle, most),
         UNCHANGED workerVars \/ (BudgetStep(idle, most) /\ KS!Observe)
  PROVE  [KS!Next]_(KS!vars)
  BY StepOfSwitch DEF WorkerInv, workerVars, switch, KS!vars

(* Nobody takes the write lock from a worker, neither a request nor another  *)
(* worker.                                                                   *)
LEMMA LockStays ==
  ASSUME KSP!HolderWrites, NEW v \in Workers, lock = v,
         \/ \E w \in Workers : \/ Ask(w) \/ Tripping(w)
                               \/ \E next : Hear(w, next) \/ Start(w, next)
                               \/ \E cost, next : Charge(w, cost, next)
                               \/ Fail(w) /\ w # v
         \/ NextPeriod \/ RedisLoss
         \/ \E q \in Operators : Operate(q)
  PROVE  lock' = v
<1> USE DEF KS!shared, switch
<1>1. ASSUME NEW q \in Operators \cup Trips,
             \/ KS!Activate(q) \/ KS!Flush(q) \/ KS!LockTimeout(q)
             \/ KS!WriteRedis(q) \/ KS!Commit(q) \/ KS!Abort(q)
      PROVE  lock' = lock
  <2>1. lock # q
    BY BudgetAssumption DEF BudgetAssumption
  <2>2. wpc[q] \notin {"redis", "commit"}
    BY <2>1 DEF KSP!HolderWrites
  <2>3. lock # Free
    BY BudgetAssumption DEF BudgetAssumption
  <2>4. QED
    BY <1>1, <2>1, <2>2, <2>3 DEF KS!Activate, KS!Flush, KS!LockTimeout, KS!WriteRedis,
       KS!Commit, KS!Abort
<1>2. ASSUME NEW w \in Workers,
             Tripping(w) \/ \E cost, next : Charge(w, cost, next)
      PROVE  lock' = lock
  BY <1>1, <1>2, Tripper DEF Tripping, TripGoesOn, TripCommits, TripTimesOut, Charge
<1>3. ASSUME NEW w \in Workers, Ask(w) \/ \E next : Hear(w, next) \/ Start(w, next)
      PROVE  lock' = lock
  BY <1>3 DEF Ask, Hear, Start, KS!Call, KS!ReadEnv, KS!ReadRedis, KS!ReadLatest, KS!Restart
<1>4. ASSUME NEW w \in Workers, Fail(w), w # v PROVE lock' = lock
  BY <1>1, <1>4, Tripper DEF Fail, KS!Restart, EndSession
<1>5. ASSUME NEW q \in Operators, Operate(q) PROVE lock' = lock
  BY <1>1, <1>5 DEF Operate, KS!Deactivate
<1>6. QED
  BY <1>2, <1>3, <1>4, <1>5 DEF NextPeriod, RedisLoss, KS!RedisLoss

(* What an item may cost. *)
LEMMA Dearest == MaxCost \in Nat /\ \A c \in Costs : c \in 0 .. MaxCost
<1>1. MaxCost \in Costs /\ \A d \in Costs : d <= MaxCost
  BY BudgetAssumption DEF BudgetAssumption, MaxCost
<1>2. QED
  BY <1>1, BudgetAssumption DEF BudgetAssumption
=============================================================================
