---------------------------- MODULE IngestionProofs ----------------------------
(***************************************************************************)
(* The ingestion worker, for every number of workers, tweets and operators.*)
(*                                                                         *)
(* Its steps are budget steps, and what BudgetedWorkerProofs proves holds  *)
(* here.  What it promises to the LLM worker rests on the write lock: from *)
(* the flush of a row to its commit no other worker commits, so that a row *)
(* that is new at the flush is new at the commit, and has one worker to    *)
(* push it (HandsInv).                                                     *)
(***************************************************************************)
EXTENDS Ingestion, BudgetedWorkerProofs

Idle == {"stream", "check", "stopped", "down"}

LEMMA Chosen == Parameters(Idle, MaxCost)
  BY Dearest DEF Parameters, Idle, Points

Stays == <<hand, rows, pushes, stream>>

(* Every step of ingestion is a step that BudgetedWorkerProofs knows.        *)
LEMMA Budgeted == Step => BudgetStep(Idle, MaxCost)
<1> SUFFICES ASSUME Step PROVE BudgetStep(Idle, MaxCost)
  OBVIOUS
<1> USE DEF BudgetStep
<1>1. ASSUME NEW w \in Workers, Check(w) PROVE BudgetStep(Idle, MaxCost)
  <2>1. "insert" \in Points \ {"trip"}
    BY DEF Points
  <2>2. QED
    BY <1>1, <2>1 DEF Check
<1>2. ASSUME NEW w \in Workers, ChargeTweet(w) PROVE BudgetStep(Idle, MaxCost)
  <2>1. PICK cost \in Costs : Charge(w, cost, "stream")
    BY <1>2 DEF ChargeTweet
  <2>2. cost \in 0 .. MaxCost /\ "stream" \in Idle
    BY Dearest DEF Idle
  <2>3. QED
    BY <2>1, <2>2
<1>3. ASSUME NEW w \in Workers,
             NEW next \in {"check", "stream", "down", "commit", "push", "charge"},
             Goto(w, next), pc[w] # "trip", pc[w] \in Idle => next \in Idle,
             KS!TakeLock(w) \/ EndSession(w) \/ UNCHANGED switch,
             UNCHANGED <<budget, counters>>
      PROVE  BudgetStep(Idle, MaxCost)
  <2>1. next \in Points /\ next # "trip"
    BY DEF Points
  <2>2. Local(w, Idle)
    BY <1>3, <2>1 DEF Local
  <2>3. QED
    BY <2>2
<1>4. ASSUME NEW w \in Workers, NEW t \in Tweets, Yield(w, t) PROVE BudgetStep(Idle, MaxCost)
  <2>1. Goto(w, "check") /\ pc[w] = "stream" /\ UNCHANGED <<switch, budget, counters>>
    BY <1>4 DEF Yield
  <2>2. QED
    BY <1>3, <2>1 DEF Idle
<1>5. ASSUME NEW w \in Workers, Insert(w) \/ Duplicate(w) \/ InsertTimesOut(w)
      PROVE  BudgetStep(Idle, MaxCost)
  <2>1. /\ Goto(w, "commit") \/ Goto(w, "stream") \/ Goto(w, "down")
        /\ pc[w] = "insert"
        /\ KS!TakeLock(w) \/ UNCHANGED switch
        /\ UNCHANGED <<budget, counters>>
    BY <1>5 DEF Insert, Duplicate, InsertTimesOut
  <2>2. QED
    BY <1>3, <2>1 DEF Idle
<1>6. ASSUME NEW w \in Workers, Commit(w) \/ Push(w) PROVE BudgetStep(Idle, MaxCost)
  <2>1. /\ Goto(w, "push") \/ Goto(w, "charge")
        /\ pc[w] \in {"commit", "push"}
        /\ EndSession(w) \/ UNCHANGED switch
        /\ UNCHANGED <<budget, counters>>
    BY <1>6 DEF Commit, Push
  <2>2. QED
    BY <1>3, <2>1 DEF Idle
<1>7. ASSUME NEW w \in Workers, Tripping(w) \/ Crash(w) \/ Start(w, "stream")
      PROVE  BudgetStep(Idle, MaxCost)
  <2>1. "stream" \in Idle
    BY DEF Idle
  <2>2. QED
    BY <1>7, <2>1 DEF Crash
<1>8. CASE NextPeriod \/ RedisLoss \/ \E q \in Operators : Operate(q)
  BY <1>8
<1>9. QED
  BY <1>1, <1>2, <1>4, <1>5, <1>6, <1>7, <1>8 DEF Step, Handling

LEMMA WorkerInvariant == Spec => []WorkerInv(Idle, MaxCost)
<1>1. Init => WorkerInv(Idle, MaxCost)
  <2>1. "stream" \in Idle
    BY DEF Idle
  <2>2. QED
    BY <2>1, Chosen, WorkerInvInit DEF Init
<1>2. WorkerInv(Idle, MaxCost) /\ [Next]_vars => WorkerInv(Idle, MaxCost)'
  BY Chosen, Budgeted, WorkerInvStep, WorkerInvStutter DEF Next, vars
<1>3. QED
  BY <1>1, <1>2, PTL DEF Spec

-----------------------------------------------------------------------------
(* Types. *)
Control == {"stream", "insert", "commit", "push"}
             \cup {"check", "charge", "trip", "stopped", "down"}

ItemsType ==
  /\ pc \in [Workers -> Control]
  /\ hand \in [Workers -> Tweets \cup {NoTweet}]
  /\ \A w \in Workers : pc[w] \in {"check", "insert", "commit", "push"} => hand[w] \in Tweets
  /\ rows \subseteq Tweets
  /\ pushes \in [Tweets -> Nat]
  /\ received \subseteq Tweets
  /\ replays \in Nat

LEMMA ItemsTypeStep == ItemsType /\ [Next]_vars => ItemsType'
<1> SUFFICES ASSUME ItemsType, [Next]_vars PROVE ItemsType'
  OBVIOUS
<1> USE DEF ItemsType, stream, Goto, Control
<1>1. CASE UNCHANGED vars
  BY <1>1 DEF vars, workerVars
<1>2. ASSUME NEW w \in Workers, Check(w) PROVE ItemsType'
  BY <1>2 DEF Check, Ask, Hear
<1>3. ASSUME NEW w \in Workers, Insert(w) \/ Duplicate(w) \/ InsertTimesOut(w) PROVE ItemsType'
  BY <1>3 DEF Insert, Duplicate, InsertTimesOut
<1>4. ASSUME NEW w \in Workers, Commit(w) \/ Push(w) PROVE ItemsType'
  BY <1>4 DEF Commit, Push
<1>5. ASSUME NEW w \in Workers, ChargeTweet(w) PROVE ItemsType'
  BY <1>5 DEF ChargeTweet, Charge
<1>6. ASSUME NEW w \in Workers, Tripping(w), UNCHANGED Stays PROVE ItemsType'
  BY <1>6 DEF Tripping, TripGoesOn, TripCommits, TripTimesOut, Stays
<1>7. ASSUME NEW w \in Workers, Crash(w) PROVE ItemsType'
  BY <1>7 DEF Crash, Fail
<1>8. ASSUME NEW w \in Workers, NEW t \in Tweets, Yield(w, t) PROVE ItemsType'
  BY <1>8 DEF Yield
<1>9. ASSUME NEW w \in Workers, Start(w, "stream"), UNCHANGED Stays PROVE ItemsType'
  BY <1>9 DEF Start, Stays
<1>10. ASSUME NextPeriod \/ RedisLoss \/ \E q \in Operators : Operate(q), UNCHANGED Stays
       PROVE  ItemsType'
  BY <1>10 DEF NextPeriod, RedisLoss, Operate, Stays
<1>11. QED
  BY <1>1, <1>2, <1>3, <1>4, <1>5, <1>6, <1>7, <1>8, <1>9, <1>10 DEF Next, Step, Handling, Stays

LEMMA ItemsTypeInvariant == Spec => []ItemsType
<1>1. Init => ItemsType
  BY DEF Init, WorkersReady, ItemsType, Control
<1>2. QED
  BY <1>1, ItemsTypeStep, PTL DEF Spec

(* Type correctness of every state. *)
THEOREM TypeCorrect == Spec => []TypeOK
<1>1. WorkerInv(Idle, MaxCost) /\ ItemsType => TypeOK
  BY SameType DEF WorkerInv, KSP!SwitchInv, KSP!WriteInv, BudgetInv, BudgetType, ItemsType,
     Control, TypeOK, WorkerTypeOK
<1>2. QED
  BY <1>1, WorkerInvariant, ItemsTypeInvariant, PTL

-----------------------------------------------------------------------------
(* The worker that is about to commit a row holds the write lock, and the    *)
(* row is new; the one that is about to push an id is the only one, and the  *)
(* id has a row and was never pushed.                                        *)
HandsInv == \A w \in Workers :
  /\ pc[w] = "commit" => lock = w /\ hand[w] \notin rows
  /\ pc[w] = "push" =>
       /\ hand[w] \in rows /\ pushes[hand[w]] = 0
       /\ \A v \in Workers : pc[v] = "push" /\ hand[v] = hand[w] => v = w

PushedInv == \A t \in Tweets : pushes[t] > 0 => t \in rows

RelayInv == HandsInv /\ PushedInv

(* Steps that neither commit nor push, by what they do: some worker w moves, *)
(* not to a commit nor to a push, and the lock stays with who is committing. *)
LEMMA MovesKeepHands ==
  ASSUME ItemsType, RelayInv, NEW w \in Workers,
         UNCHANGED <<rows, pushes>>,
         \A v \in Workers \ {w} : pc'[v] = pc[v] /\ hand'[v] = hand[v],
         pc'[w] \notin {"commit", "push"} \/ (pc'[w] = pc[w] /\ hand'[w] = hand[w]),
         \A v \in Workers : lock = v /\ pc'[v] = "commit" => lock' = v
  PROVE  RelayInv'
  BY DEF ItemsType, RelayInv, HandsInv, PushedInv

LEMMA RelayInvStep ==
  KSP!HolderWrites /\ ItemsType /\ RelayInv /\ [Next]_vars => RelayInv'
<1> SUFFICES ASSUME KSP!HolderWrites, ItemsType, RelayInv, [Next]_vars PROVE RelayInv'
  OBVIOUS
<1> USE DEF Goto
<1>1. CASE UNCHANGED vars
  BY <1>1 DEF vars, workerVars, switch, RelayInv, HandsInv, PushedInv
<1>2. ASSUME NEW w \in Workers, Check(w) \/ ChargeTweet(w) PROVE RelayInv'
  <2>1. \A v \in Workers : lock = v => lock' = v
    BY <1>2, LockStays DEF Check, ChargeTweet
  <2>2. /\ UNCHANGED <<rows, pushes>>
        /\ \A v \in Workers \ {w} : pc'[v] = pc[v] /\ hand'[v] = hand[v]
        /\ pc'[w] \notin {"commit", "push"}
    BY <1>2 DEF Check, Ask, Hear, ChargeTweet, Charge, ItemsType
  <2>3. QED
    BY <2>1, <2>2, MovesKeepHands
<1>3. ASSUME NEW w \in Workers, Insert(w) PROVE RelayInv'
  <2>1. /\ UNCHANGED <<rows, pushes, hand>> /\ pc' = [pc EXCEPT ![w] = "commit"]
        /\ hand[w] \notin rows /\ lock = Free /\ lock' = w
    BY <1>3 DEF Insert, KS!TakeLock
  <2>2. \A v \in Workers : pc[v] # "commit"
    BY <2>1, BudgetAssumption DEF BudgetAssumption, RelayInv, HandsInv
  <2>3. QED
    BY <2>1, <2>2 DEF ItemsType, RelayInv, HandsInv, PushedInv
<1>4. ASSUME NEW w \in Workers, Duplicate(w) \/ InsertTimesOut(w) PROVE RelayInv'
  <2>1. /\ UNCHANGED <<rows, pushes, lock>>
        /\ \A v \in Workers \ {w} : pc'[v] = pc[v] /\ hand'[v] = hand[v]
        /\ pc'[w] \notin {"commit", "push"}
    BY <1>4 DEF Duplicate, InsertTimesOut, ItemsType, switch
  <2>2. QED
    BY <2>1, MovesKeepHands
<1>5. ASSUME NEW w \in Workers, Commit(w) PROVE RelayInv'
  <2>1. /\ pc[w] = "commit" /\ pc' = [pc EXCEPT ![w] = "push"]
        /\ rows' = rows \cup {hand[w]} /\ UNCHANGED <<hand, pushes>>
    BY <1>5 DEF Commit
  <2>2. lock = w /\ hand[w] \in Tweets /\ hand[w] \notin rows /\ pushes[hand[w]] = 0
    BY <2>1 DEF ItemsType, RelayInv, HandsInv, PushedInv
  <2>3. \A v \in Workers \ {w} : pc[v] # "commit" /\ (pc[v] = "push" => hand[v] # hand[w])
    BY <2>2 DEF RelayInv, HandsInv
  <2>4. QED
    BY <2>1, <2>2, <2>3 DEF ItemsType, RelayInv, HandsInv, PushedInv
<1>6. ASSUME NEW w \in Workers, Push(w) PROVE RelayInv'
  <2>1. /\ pc[w] = "push" /\ pc' = [pc EXCEPT ![w] = "charge"] /\ hand[w] \in Tweets
        /\ pushes' = [pushes EXCEPT ![hand[w]] = @ + 1] /\ UNCHANGED <<hand, rows, lock>>
    BY <1>6 DEF Push, switch, ItemsType
  <2>2. QED
    BY <2>1 DEF ItemsType, RelayInv, HandsInv, PushedInv
<1>7. ASSUME NEW w \in Workers, Tripping(w) \/ Start(w, "stream"), UNCHANGED Stays
      PROVE  RelayInv'
  <2>1. \A v \in Workers : lock = v => lock' = v
    BY <1>7, LockStays
  <2>2. /\ UNCHANGED <<rows, pushes, hand>>
        /\ \A v \in Workers \ {w} : pc'[v] = pc[v]
        /\ pc'[w] \notin {"commit", "push"}
    BY <1>7 DEF Tripping, TripGoesOn, TripCommits, TripTimesOut, Start, ItemsType, Stays
  <2>3. QED
    BY <2>1, <2>2, MovesKeepHands
<1>8. ASSUME NEW w \in Workers, Crash(w) PROVE RelayInv'
  <2>1. \A v \in Workers \ {w} : lock = v => lock' = v
    BY <1>8, LockStays DEF Crash
  <2>2. /\ UNCHANGED <<rows, pushes>>
        /\ \A v \in Workers \ {w} : pc'[v] = pc[v] /\ hand'[v] = hand[v]
        /\ pc'[w] = "down"
    BY <1>8 DEF Crash, Fail, ItemsType
  <2>3. QED
    BY <2>1, <2>2, MovesKeepHands
<1>9. ASSUME NEW w \in Workers, NEW t \in Tweets, Yield(w, t) PROVE RelayInv'
  <2>1. /\ UNCHANGED <<rows, pushes, lock>>
        /\ \A v \in Workers \ {w} : pc'[v] = pc[v] /\ hand'[v] = hand[v]
        /\ pc'[w] = "check"
    BY <1>9 DEF Yield, ItemsType, switch
  <2>2. QED
    BY <2>1, MovesKeepHands
<1>10. ASSUME NextPeriod \/ RedisLoss \/ \E q \in Operators : Operate(q), UNCHANGED Stays
       PROVE  RelayInv'
  <2>1. \A v \in Workers : lock = v => lock' = v
    BY <1>10, LockStays
  <2>2. UNCHANGED <<rows, pushes, hand, pc>>
    BY <1>10 DEF NextPeriod, RedisLoss, Operate, Stays
  <2>3. QED
    BY <2>1, <2>2 DEF RelayInv, HandsInv, PushedInv
<1>11. QED
  BY <1>1, <1>2, <1>3, <1>4, <1>5, <1>6, <1>7, <1>8, <1>9, <1>10 DEF Next, Step, Handling, Stays

(* Everything that is known of a state of ingestion. *)
IngestionInv == WorkerInv(Idle, MaxCost) /\ ItemsType /\ RelayInv

LEMMA IngestionInvariant == Spec => []IngestionInv
<1>1. Init => RelayInv
  BY DEF Init, WorkersReady, RelayInv, HandsInv, PushedInv
<1>2. WorkerInv(Idle, MaxCost) => KSP!HolderWrites
  BY DEF WorkerInv, KSP!SwitchInv, KSP!WriteInv
<1>3. WorkerInv(Idle, MaxCost) /\ ItemsType /\ RelayInv <=> IngestionInv
  BY DEF IngestionInv
<1>4. QED
  BY <1>1, <1>2, <1>3, RelayInvStep, WorkerInvariant, ItemsTypeInvariant, PTL DEF Spec

(* ingestion.py, _store_and_push: the IntegrityError of a duplicate comes    *)
(* from the flush; the commit never raises it.                               *)
THEOREM NewAtCommit == Spec => []RowIsNew
<1>1. IngestionInv => RowIsNew
  BY DEF IngestionInv, RelayInv, HandsInv, RowIsNew
<1>2. QED
  BY <1>1, IngestionInvariant, PTL

(* The month is over its budget by the tweets in flight and no more, however *)
(* many workers charge it and whenever the switch is released or not thrown. *)
THEOREM Overspent == Spec => []OverspendBounded
<1>1. IngestionInv => OverspendBounded
  BY Chosen, Overspend DEF IngestionInv, WorkerInv, OverspendBounded
<1>2. QED
  BY <1>1, IngestionInvariant, PTL

(* A month that is spent has thrown the switch, or somebody is about to.     *)
THEOREM SpentTrips == Spec => []SpentMeansTripped
<1>1. IngestionInv => SpentMeansTripped
  BY DEF IngestionInv, WorkerInv, BudgetInv
<1>2. QED
  BY <1>1, IngestionInvariant, PTL

(* The workers use the kill switch and the write lock as KillSwitch says, so *)
(* that what KillSwitchProofs proves holds beside them.                      *)
THEOREM KeepsSwitch == Spec => SwitchKept
<1>1. Init => KS!Init
  BY DEF Init
<1>2. WorkerInv(Idle, MaxCost) /\ [Next]_vars => [KS!Next]_(KS!vars)
  BY Budgeted, WorkersKeepSwitch DEF Next, vars
<1>3. QED
  BY <1>1, <1>2, WorkerInvariant, PTL DEF Spec, SwitchKept, KS!Spec

(* What a step does to the promise and to the stranded: only a commit stores,*)
(* only a push sends, and only a worker that fails at a push drops an id.    *)
LEMMA Effects ==
  ASSUME ItemsType, [Next]_vars
  PROVE  \/ \E w \in Workers : Commit(w)
         \/ \E w \in Workers : Push(w)
         \/ /\ UNCHANGED <<rows, pushes, faults>>
            /\ \A w \in Workers : pc[w] = "push" => pc'[w] = "push" /\ hand'[w] = hand[w]
         \/ \E w \in Workers :
              /\ UNCHANGED <<rows, pushes>> /\ faults' = faults + 1
              /\ \A v \in Workers \ {w} :
                   pc[v] = "push" => pc'[v] = "push" /\ hand'[v] = hand[v]
<1> DEFINE Calm == /\ UNCHANGED <<rows, pushes, faults>>
                   /\ \A w \in Workers : pc[w] = "push" => pc'[w] = "push" /\ hand'[w] = hand[w]
<1> USE DEF Goto, Stays, counters
<1>1. UNCHANGED vars => Calm
  BY DEF vars, workerVars, switch
<1>2. ASSUME NEW w \in Workers, Check(w) \/ ChargeTweet(w) PROVE Calm
  BY <1>2 DEF Check, Ask, Hear, ChargeTweet, Charge, ItemsType
<1>3. ASSUME NEW w \in Workers, Insert(w) \/ Duplicate(w) \/ InsertTimesOut(w) PROVE Calm
  BY <1>3 DEF Insert, Duplicate, InsertTimesOut, ItemsType
<1>4. ASSUME NEW w \in Workers, Tripping(w) \/ Start(w, "stream"), UNCHANGED Stays PROVE Calm
  BY <1>4 DEF Tripping, TripGoesOn, TripCommits, TripTimesOut, Start, ItemsType
<1>5. ASSUME NEW w \in Workers, NEW t \in Tweets, Yield(w, t) PROVE Calm
  BY <1>5 DEF Yield, ItemsType
<1>6. ASSUME NextPeriod \/ RedisLoss \/ \E q \in Operators : Operate(q), UNCHANGED Stays
      PROVE  Calm
  BY <1>6 DEF NextPeriod, RedisLoss, Operate
<1>7. ASSUME NEW w \in Workers, Crash(w)
      PROVE  /\ UNCHANGED <<rows, pushes>> /\ faults' = faults + 1
             /\ \A v \in Workers \ {w} : pc[v] = "push" => pc'[v] = "push" /\ hand'[v] = hand[v]
  BY <1>7 DEF Crash, Fail, ItemsType
<1>8. Calm \/ \E w \in Workers : Commit(w) \/ Push(w) \/ Crash(w)
  BY <1>1, <1>2, <1>3, <1>4, <1>5, <1>6 DEF Next, Step, Handling
<1>9. QED
  BY <1>7, <1>8

StrandedInv == IsFiniteSet(Stranded) /\ Cardinality(Stranded) <= faults

LEMMA StrandedInvStep ==
  IngestionInv /\ IngestionInv' /\ StrandedInv /\ [Next]_vars => StrandedInv'
<1> SUFFICES ASSUME IngestionInv, IngestionInv', StrandedInv, [Next]_vars PROVE StrandedInv'
  OBVIOUS
<1> USE DEF IngestionInv
<1>1. faults \in Nat
  BY DEF WorkerInv, BudgetInv, BudgetType
<1>2. ASSUME Stranded' \subseteq Stranded, faults' = faults PROVE StrandedInv'
  BY <1>1, <1>2, FS_Subset, FS_CardinalityType DEF StrandedInv
<1>3. ASSUME NEW w \in Workers, Commit(w) PROVE StrandedInv'
  <2>1. /\ rows' = rows \cup {hand[w]} /\ UNCHANGED <<pushes, hand, faults>>
        /\ pc' = [pc EXCEPT ![w] = "push"] /\ pc[w] = "commit"
    BY <1>3 DEF Commit, Goto, counters
  <2>2. Stranded' \subseteq Stranded
    BY <2>1 DEF Stranded, ItemsType
  <2>3. QED
    BY <1>2, <2>1, <2>2
<1>4. ASSUME NEW w \in Workers, Push(w) PROVE StrandedInv'
  <2>1. /\ pushes' = [pushes EXCEPT ![hand[w]] = @ + 1] /\ UNCHANGED <<rows, hand, faults>>
        /\ pc' = [pc EXCEPT ![w] = "charge"] /\ pc[w] = "push" /\ hand[w] \in Tweets
    BY <1>4 DEF Push, Goto, counters, ItemsType
  <2>2. pushes'[hand[w]] # 0
    BY <2>1 DEF ItemsType
  <2>3. Stranded' \subseteq Stranded
    BY <2>1, <2>2 DEF Stranded, ItemsType
  <2>4. QED
    BY <1>2, <2>1, <2>3
<1>5. ASSUME UNCHANGED <<rows, pushes, faults>>,
             \A w \in Workers : pc[w] = "push" => pc'[w] = "push" /\ hand'[w] = hand[w]
      PROVE  StrandedInv'
  <2>1. Stranded' \subseteq Stranded
    BY <1>5 DEF Stranded
  <2>2. QED
    BY <1>2, <1>5, <2>1
<1>6. ASSUME NEW w \in Workers, UNCHANGED <<rows, pushes>>, faults' = faults + 1,
             \A v \in Workers \ {w} : pc[v] = "push" => pc'[v] = "push" /\ hand'[v] = hand[v]
      PROVE  StrandedInv'
  <2>1. Stranded' \in SUBSET (Stranded \cup {hand[w]})
    BY <1>6 DEF Stranded
  <2>2. /\ IsFiniteSet(Stranded \cup {hand[w]})
        /\ Cardinality(Stranded \cup {hand[w]}) <= Cardinality(Stranded) + 1
        /\ Cardinality(Stranded) \in Nat
        /\ Cardinality(Stranded \cup {hand[w]}) \in Nat
    <3>1. IsFiniteSet(Stranded) /\ Cardinality(Stranded) \in Nat
      BY FS_CardinalityType DEF StrandedInv
    <3>2. /\ IsFiniteSet(Stranded \cup {hand[w]})
          /\ \/ Cardinality(Stranded \cup {hand[w]}) = Cardinality(Stranded)
             \/ Cardinality(Stranded \cup {hand[w]}) = Cardinality(Stranded) + 1
      BY <3>1, FS_AddElement
    <3>3. QED
      BY <3>1, <3>2
  <2>3. /\ IsFiniteSet(Stranded') /\ Cardinality(Stranded') \in Nat
        /\ Cardinality(Stranded') <= Cardinality(Stranded \cup {hand[w]})
    BY <2>1, <2>2, FS_Subset, FS_CardinalityType
  <2>4. QED
    BY <1>1, <1>6, <2>2, <2>3 DEF StrandedInv
<1>7. QED
  BY <1>3, <1>4, <1>5, <1>6, Effects

(* Between the commit of a row and the push of its id only a fault can come, *)
(* and it strands one tweet.                                                 *)
THEOREM FaultsStrand == Spec => []StrandedByFaults
<1>1. Init => StrandedInv
  <2> SUFFICES ASSUME Init PROVE StrandedInv
    OBVIOUS
  <2>1. Stranded = {}
    BY DEF Init, Stranded
  <2>2. QED
    BY <2>1, FS_EmptySet DEF Init, WorkersReady, StrandedInv
<1>2. StrandedInv => StrandedByFaults
  BY DEF StrandedInv, StrandedByFaults
<1>3. QED
  BY <1>1, <1>2, StrandedInvStep, IngestionInvariant, PTL DEF Spec

(* A tweet is pushed after its row is committed, and once: every step stores,*)
(* sends, or is hidden from the LLM worker.                                  *)
THEOREM Refinement == Spec => Relayed
<1>1. Init => Promise!Init
  BY DEF Init, Promise!Init
<1>2. IngestionInv /\ IngestionInv' /\ [Next]_vars => [Promise!Next]_<<rows, pushes>>
  <2> SUFFICES ASSUME IngestionInv, IngestionInv', [Next]_vars
               PROVE  Promise!Next \/ UNCHANGED <<rows, pushes>>
    OBVIOUS
  <2> USE DEF IngestionInv
  <2>1. ASSUME NEW w \in Workers, Commit(w) PROVE Promise!Next
    BY <2>1 DEF Commit, Promise!Next, Promise!Store, ItemsType
  <2>2. ASSUME NEW w \in Workers, Push(w) PROVE Promise!Next
    <3>1. /\ hand[w] \in Tweets /\ hand[w] \in rows /\ pushes[hand[w]] = 0
          /\ pushes' = [pushes EXCEPT ![hand[w]] = @ + 1] /\ UNCHANGED rows
      BY <2>2 DEF Push, ItemsType, RelayInv, HandsInv
    <3>2. Promise!Send(hand[w])
      BY <3>1 DEF Promise!Send
    <3>3. QED
      BY <3>1, <3>2 DEF Promise!Next
  <2>3. QED
    BY <2>1, <2>2, Effects
<1>3. QED
  BY <1>1, <1>2, IngestionInvariant, PTL DEF Spec, Relayed, Promise!Spec
=============================================================================
