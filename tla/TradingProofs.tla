----------------------------- MODULE TradingProofs -----------------------------
(***************************************************************************)
(* The LLM worker and the order worker together, for every number of       *)
(* analysts and executors, tweets, tickers, plans and limits.              *)
(*                                                                         *)
(* What is proved of each worker alone is stated of its steps and of the   *)
(* steps of somebody else that leave it alone.  Here those others are the  *)
(* workers of the other kind: a step of Trading is one of an analyst, and  *)
(* leaves the executors alone, or the reverse, or the push of an event,    *)
(* which is one of both (Kinds).  Neither kind takes the write lock from   *)
(* the other, or changes the switch while the other holds it (Beside).     *)
(* The invariants of the two then hold side by side: the analysts' budget  *)
(* and the events they strand (AnalystsInv), the executors' orders, cap    *)
(* and audit (ExecutorsInv).  One relates them: what was published was     *)
(* pushed, what was pushed has a row, and a row has its decision           *)
(* (IssueInv).                                                             *)
(***************************************************************************)
EXTENDS Trading, SequenceTheorems, TLAPS

LP == INSTANCE LlmPipelineProofs WITH
  Workers <- Analysts, Operators <- {}, Known <- Tweets, LastPeriod <- 0,
  MaxReleases <- 0, MaxReplays <- MaxTweetReplays,
  pc <- lpc, queue <- lqueue, replays <- lreplays

OP == INSTANCE OrderPipelineProofs WITH
  Workers <- Executors, Known <- Events, MaxReplays <- 0

KSP == INSTANCE KillSwitchProofs WITH
  Readers <- Processes, Others <- Processes

LEMMA Assumed ==
  /\ LP!BudgetAssumption /\ LP!TweetsAssumption
  /\ OP!PipelineAssumption /\ OP!LimitsAssumption
  /\ Analysts \cap Executors = {}
  BY TradingAssumption DEF TradingAssumption,
     L!BudgetAssumption, LP!BudgetAssumption, L!Trips, LP!Trips, L!Trip, LP!Trip,
     L!IsFiniteSet, LP!IsFiniteSet, O!IsFiniteSet, OP!IsFiniteSet,
     L!TweetsAssumption, LP!TweetsAssumption, O!PipelineAssumption, OP!PipelineAssumption,
     O!LimitsAssumption, OP!LimitsAssumption

LEMMA Sessions == KSP!SessionsAssumption
  BY TradingAssumption DEF TradingAssumption, KSP!SessionsAssumption, Processes, Requests,
     L!BudgetAssumption, O!PipelineAssumption

-----------------------------------------------------------------------------
(* The workers of Trading are those that the proofs are about. *)
LEMMA SameTrips == Requests = LP!Trips /\ \A a : L!Trip(a) = LP!Trip(a)
  BY DEF Requests, L!Trips, LP!Trips, L!Trip, LP!Trip

LEMMA SameEvents == Events = LP!Events
  BY DEF Events, L!Events, LP!Events

LEMMA SameNext == KS!Next <=> KSP!Next
  BY DEF KS!Next, KSP!Next, KS!Step, KSP!Step, KS!Observe, KSP!Observe, KS!Active, KSP!Active,
         KS!Writing, KSP!Writing, KS!Activate, KSP!Activate, KS!Deactivate, KSP!Deactivate,
         KS!Flush, KSP!Flush, KS!LockTimeout, KSP!LockTimeout, KS!WriteRedis, KSP!WriteRedis,
         KS!Commit, KSP!Commit, KS!Abort, KSP!Abort,
         KS!Reading, KSP!Reading, KS!Call, KSP!Call, KS!ReadEnv, KSP!ReadEnv,
         KS!ReadRedis, KSP!ReadRedis, KS!ReadLatest, KSP!ReadLatest, KS!ReadFails, KSP!ReadFails,
         KS!Restart, KSP!Restart, KS!Return, KSP!Return, KS!GoOn, KSP!GoOn,
         KS!TakeLock, KSP!TakeLock, KS!ReleaseLock, KSP!ReleaseLock, KS!RedisLoss, KSP!RedisLoss,
         KS!shared, KSP!shared, KS!writers, KSP!writers, KS!readers, KSP!readers

LEMMA SameInit == KS!Init <=> KSP!Init
  BY DEF KS!Init, KSP!Init

LEMMA SameAnalyst ==
  ASSUME NEW a
  PROVE  L!Handling(a) \/ L!LlmFails(a) \/ L!Crash(a) \/ L!Restarted(a)
           <=> LP!Handling(a) \/ LP!LlmFails(a) \/ LP!Crash(a) \/ LP!Restarted(a)
  BY DEF L!Handling, LP!Handling, L!Check, LP!Check, L!Ask, LP!Ask, L!Hear, LP!Hear,
         L!Pop, LP!Pop, L!PopNothing, LP!PopNothing, L!Load, LP!Load,
         L!Analyze, LP!Analyze, L!AnalyzeInvalid, LP!AnalyzeInvalid,
         L!Flush, LP!Flush, L!FlushTimesOut, LP!FlushTimesOut, L!Resolve, LP!Resolve,
         L!Commit, LP!Commit, L!Publish, LP!Publish, L!ChargeCalls, LP!ChargeCalls,
         L!Charge, LP!Charge, L!Tripping, LP!Tripping, L!TripGoesOn, LP!TripGoesOn,
         L!TripCommits, LP!TripCommits, L!TripTimesOut, LP!TripTimesOut,
         L!LlmFails, LP!LlmFails, L!Crash, LP!Crash, L!Fail, LP!Fail,
         L!Restarted, LP!Restarted, L!Start, LP!Start, L!EndSession, LP!EndSession,
         L!Goto, LP!Goto, L!Trip, LP!Trip, L!Nothing, LP!Nothing,
         L!switch, LP!switch, L!budget, LP!budget, L!counters, LP!counters,
         L!input, LP!input, L!database, LP!database,
         L!KS!Call, LP!KS!Call, L!KS!ReadEnv, LP!KS!ReadEnv, L!KS!ReadRedis, LP!KS!ReadRedis,
         L!KS!ReadLatest, LP!KS!ReadLatest, L!KS!Return, LP!KS!Return, L!KS!GoOn, LP!KS!GoOn,
         L!KS!Restart, LP!KS!Restart, L!KS!TakeLock, LP!KS!TakeLock,
         L!KS!ReleaseLock, LP!KS!ReleaseLock, L!KS!Activate, LP!KS!Activate,
         L!KS!Flush, LP!KS!Flush, L!KS!LockTimeout, LP!KS!LockTimeout,
         L!KS!WriteRedis, LP!KS!WriteRedis, L!KS!Commit, LP!KS!Commit, L!KS!Abort, LP!KS!Abort,
         L!KS!shared, LP!KS!shared, L!KS!writers, LP!KS!writers, L!KS!readers, LP!KS!readers

LEMMA SamePublish == \A a : L!Publish(a) <=> LP!Publish(a)
  BY DEF L!Publish, LP!Publish, L!Goto, LP!Goto, L!switch, LP!switch, L!budget, LP!budget,
         L!counters, LP!counters, L!input, LP!input, L!database, LP!database

LEMMA SameInput ==
  /\ \A t : L!Receive(t) \/ L!Replay(t) <=> LP!Receive(t) \/ LP!Replay(t)
  /\ L!RedisRestarts <=> LP!RedisRestarts
  BY DEF L!Receive, LP!Receive, L!Replay, LP!Replay, L!RedisRestarts, LP!RedisRestarts,
         L!RedisLoss, LP!RedisLoss, L!KS!RedisLoss, LP!KS!RedisLoss, L!Periods, LP!Periods,
         L!switch, LP!switch, L!budget, LP!budget, L!counters, LP!counters,
         L!database, LP!database,
         L!KS!shared, LP!KS!shared, L!KS!writers, LP!KS!writers, L!KS!readers, LP!KS!readers

LEMMA SameLoss == O!RedisLoss <=> OP!RedisLoss
  BY DEF O!RedisLoss, OP!RedisLoss, O!KS!RedisLoss, OP!KS!RedisLoss, O!database, OP!database,
         O!world, OP!world, O!KS!writers, OP!KS!writers, O!KS!readers, OP!KS!readers

LEMMA SameExecutor ==
  ASSUME NEW x
  PROVE  /\ O!Handling(x) <=> OP!Handling(x)
         /\ O!Fail(x) <=> OP!Fail(x)
         /\ O!Start(x) <=> OP!Start(x)
         /\ O!Fill(x) <=> OP!Fill(x)
  BY DEF O!Handling, OP!Handling, O!Ask, OP!Ask, O!Hear, OP!Hear, O!Pop, OP!Pop,
         O!PopNothing, OP!PopNothing, O!Skip, OP!Skip, O!Evaluate, OP!Evaluate,
         O!Record, OP!Record, O!ReadBroker, OP!ReadBroker, O!ReadOrders, OP!ReadOrders,
         O!LockTimeout, OP!LockTimeout, O!NotPermitted, OP!NotPermitted,
         O!Validate, OP!Validate, O!Reject, OP!Reject, O!Place, OP!Place, O!Insert, OP!Insert,
         O!Commit, OP!Commit, O!Unwind, OP!Unwind, O!Fail, OP!Fail, O!Start, OP!Start,
         O!Fill, OP!Fill,
         O!EndSession, OP!EndSession, O!Goto, OP!Goto, O!NoJob, OP!NoJob, O!NoPlan, OP!NoPlan,
         O!Abs, OP!Abs, O!InWindow, OP!InWindow, O!Day, OP!Day, O!AuditOf, OP!AuditOf,
         O!Accepted, OP!Accepted, O!Insertable, OP!Insertable,
         O!Validated, OP!Validated, O!Failures, OP!Failures, O!PositionSize, OP!PositionSize,
         O!TotalExposure, OP!TotalExposure, O!MaxTrades, OP!MaxTrades,
         O!DailyDrawdown, OP!DailyDrawdown, O!MarketHours, OP!MarketHours,
         O!Idempotency, OP!Idempotency, O!Cardinality, OP!Cardinality,
         O!switch, OP!switch, O!redisQueue, OP!redisQueue, O!database, OP!database,
         O!world, OP!world,
         O!KS!Call, OP!KS!Call, O!KS!ReadEnv, OP!KS!ReadEnv, O!KS!ReadRedis, OP!KS!ReadRedis,
         O!KS!ReadLatest, OP!KS!ReadLatest, O!KS!Return, OP!KS!Return, O!KS!GoOn, OP!KS!GoOn,
         O!KS!Restart, OP!KS!Restart, O!KS!TakeLock, OP!KS!TakeLock,
         O!KS!ReleaseLock, OP!KS!ReleaseLock,
         O!KS!shared, OP!KS!shared, O!KS!writers, OP!KS!writers, O!KS!readers, OP!KS!readers

-----------------------------------------------------------------------------
(* A step is one of an analyst, who may push an event, or one of an executor *)
(* or of the broker, or a restart of Redis.                                  *)
Pushes(a) ==
  \E e \in hand[a].new :
    /\ LP!Publish(a)
    /\ pushes'[e] # pushes[e]
    /\ queue' = Append(queue, e)
    /\ published' = published \cup {e}
    /\ UNCHANGED <<replays, pc, job, orders, audit, broker, position, clock>>

Executes ==
  /\ \/ \E x \in Executors : OP!Handling(x) \/ OP!Fail(x) \/ OP!Start(x)
     \/ \E i \in DOMAIN broker : OP!Fill(i)
  /\ UNCHANGED llm

LEMMA Kinds ==
  Step => \/ \E a \in Analysts : Pushes(a)
          \/ LP!Step /\ UNCHANGED execution
          \/ Executes
          \/ LP!RedisRestarts /\ OP!RedisLoss
<1> SUFFICES ASSUME Step
             PROVE  \/ \E a \in Analysts : Pushes(a)
                    \/ LP!Step /\ UNCHANGED execution
                    \/ Executes
                    \/ LP!RedisRestarts /\ OP!RedisLoss
  OBVIOUS
<1>1. ASSUME NEW a \in Analysts, Push(a) PROVE Pushes(a)
  BY <1>1, SamePublish DEF Push, Pushes
<1>2. ASSUME NEW a \in Analysts,
             \/ Analyzing(a)
             \/ (L!LlmFails(a) \/ L!Crash(a) \/ L!Restarted(a)) /\ UNCHANGED execution
      PROVE  LP!Step /\ UNCHANGED execution
  <2>1. LP!Handling(a) \/ LP!LlmFails(a) \/ LP!Crash(a) \/ LP!Restarted(a)
    BY <1>2, SameAnalyst DEF Analyzing
  <2>2. QED
    BY <1>2, <2>1 DEF Analyzing, LP!Step
<1>3. ASSUME NEW t \in Tweets, L!Receive(t) \/ L!Replay(t) PROVE LP!Step
  BY <1>3, SameInput DEF LP!Step
<1>4. ASSUME NEW x \in Executors,
             Executing(x) \/ ((O!Fail(x) \/ O!Start(x)) /\ UNCHANGED llm)
      PROVE  Executes
  BY <1>4, SameExecutor DEF Executing, Executes
<1>5. ASSUME NEW i \in DOMAIN broker, O!Fill(i), UNCHANGED llm PROVE Executes
  BY <1>5, SameExecutor DEF Executes
<1>6. RedisRestarts => LP!RedisRestarts /\ OP!RedisLoss
  BY SameInput, SameLoss DEF RedisRestarts
<1>7. QED
  BY <1>1, <1>2, <1>3, <1>4, <1>5, <1>6 DEF Step

-----------------------------------------------------------------------------
(* The switch and the write lock.  The workers of one kind use them as their *)
(* own proofs say, and that is a use of them by sessions of that kind.       *)
switch == <<env, redis, latest, lock, wpc, op, rpc, source, diverged>>

Side(S) ==
  \/ \E q \in Requests : KS!Writing(q)
  \/ \E r \in S : KS!Reading(r)
  \/ \E o \in S : KS!TakeLock(o) \/ KS!ReleaseLock(o)
  \/ KS!RedisLoss

LEMMA AnalystsSide == LP!KS!Step => Side(Analysts)
  BY SameTrips DEF LP!KS!Step, Side,
     KS!Writing, LP!KS!Writing, KS!Activate, LP!KS!Activate, KS!Deactivate, LP!KS!Deactivate,
     KS!Flush, LP!KS!Flush, KS!LockTimeout, LP!KS!LockTimeout, KS!WriteRedis, LP!KS!WriteRedis,
     KS!Commit, LP!KS!Commit, KS!Abort, LP!KS!Abort,
     KS!Reading, LP!KS!Reading, KS!Call, LP!KS!Call, KS!ReadEnv, LP!KS!ReadEnv,
     KS!ReadRedis, LP!KS!ReadRedis, KS!ReadLatest, LP!KS!ReadLatest,
     KS!ReadFails, LP!KS!ReadFails, KS!Restart, LP!KS!Restart,
     KS!Return, LP!KS!Return, KS!GoOn, LP!KS!GoOn,
     KS!TakeLock, LP!KS!TakeLock, KS!ReleaseLock, LP!KS!ReleaseLock,
     KS!RedisLoss, LP!KS!RedisLoss,
     KS!shared, LP!KS!shared, KS!writers, LP!KS!writers, KS!readers, LP!KS!readers

LEMMA ExecutorsSide == OP!KS!Step => Side(Executors)
  BY DEF OP!KS!Step, Side,
     KS!Writing, OP!KS!Writing, KS!Activate, OP!KS!Activate, KS!Deactivate, OP!KS!Deactivate,
     KS!Flush, OP!KS!Flush, KS!LockTimeout, OP!KS!LockTimeout, KS!WriteRedis, OP!KS!WriteRedis,
     KS!Commit, OP!KS!Commit, KS!Abort, OP!KS!Abort,
     KS!Reading, OP!KS!Reading, KS!Call, OP!KS!Call, KS!ReadEnv, OP!KS!ReadEnv,
     KS!ReadRedis, OP!KS!ReadRedis, KS!ReadLatest, OP!KS!ReadLatest,
     KS!ReadFails, OP!KS!ReadFails, KS!Restart, OP!KS!Restart,
     KS!Return, OP!KS!Return, KS!GoOn, OP!KS!GoOn,
     KS!TakeLock, OP!KS!TakeLock, KS!ReleaseLock, OP!KS!ReleaseLock,
     KS!RedisLoss, OP!KS!RedisLoss,
     KS!shared, OP!KS!shared, KS!writers, OP!KS!writers, KS!readers, OP!KS!readers

LEMMA AnalystsUse ==
  ASSUME KSP!SwitchInv, LP!ItemsType, LP!Step
  PROVE  Side(Analysts) \/ UNCHANGED switch
<1>1. \A a \in Analysts : env[a] \in BOOLEAN
  BY DEF KSP!SwitchInv, KSP!WriteInv, KSP!TypeOK, Processes
<1>2. LP!BudgetStep(LP!Idle, LP!Most)
  BY Assumed, LP!Budgeted
<1>3. LP!KS!Step \/ UNCHANGED LP!switch
  BY <1>1, <1>2, Assumed, LP!SwitchMoves
<1>4. QED
  BY <1>3, AnalystsSide DEF LP!switch, switch

LEMMA ExecutorsUse ==
  ASSUME KSP!SwitchInv, OP!Step
  PROVE  Side(Executors) \/ UNCHANGED switch
<1>1. \A x \in Executors : env[x] \in BOOLEAN
  BY DEF KSP!SwitchInv, KSP!WriteInv, KSP!TypeOK, Processes
<1>2. OP!KS!Step \/ UNCHANGED OP!switch
  BY <1>1, Assumed, OP!SwitchMoves
<1>3. QED
  BY <1>2, ExecutorsSide DEF OP!switch, switch

LEMMA ExecutesStep == Executes => OP!Step
  BY DEF Executes, OP!Step

(* A step of the switch, or one that leaves it alone. *)
LEMMA SwitchMoves ==
  ASSUME KSP!SwitchInv, LP!ItemsType, Step
  PROVE  KS!Step \/ UNCHANGED switch
<1>1. ASSUME NEW S \in SUBSET Processes, Side(S) PROVE KS!Step
  BY <1>1 DEF Side, KS!Step
<1>2. Analysts \in SUBSET Processes /\ Executors \in SUBSET Processes
  BY DEF Processes
<1>3. LP!Step \/ OP!Step
  BY Kinds, ExecutesStep DEF Pushes, LP!Step, LP!Handling
<1>4. QED
  BY <1>1, <1>2, <1>3, AnalystsUse, ExecutorsUse

LEMMA SwitchUntouched ==
  ASSUME KSP!SwitchInv, UNCHANGED switch, KS!Observe
  PROVE  UNCHANGED seen
<1>1. seen' = [r \in Processes |-> IF rpc[r] = "idle" THEN {}
                                                       ELSE seen[r] \cup {KS!Active(r)}]
  BY DEF KS!Observe, KS!Active, switch
<1>2. ASSUME NEW r \in Processes PROVE seen'[r] = seen[r]
  BY <1>1 DEF KSP!SwitchInv, KSP!CallsWatched, KSP!Active, KS!Active
<1>3. QED
  BY <1>1, <1>2 DEF KSP!SwitchInv, KSP!WriteInv, KSP!TypeOK

LEMMA StepOfSwitch == KSP!SwitchInv /\ LP!ItemsType /\ [Next]_vars => [KS!Next]_(KS!vars)
<1> SUFFICES ASSUME KSP!SwitchInv, LP!ItemsType, [Next]_vars
             PROVE  KS!Next \/ UNCHANGED KS!vars
  OBVIOUS
<1>1. CASE UNCHANGED vars
  BY <1>1 DEF vars, KS!vars
<1>2. CASE Next
  BY <1>2, SwitchMoves, SwitchUntouched DEF Next, KS!Next, KS!vars, switch
<1>3. QED
  BY <1>1, <1>2

-----------------------------------------------------------------------------
(* What a worker may take for granted of the switch and of the lock while    *)
(* the workers of the other kind use them, and requests throw the switch.    *)
LEMMA Beside ==
  ASSUME KSP!SwitchInv, NEW S \in SUBSET Processes, Side(S) \/ UNCHANGED switch,
         NEW v \in Processes \ S
  PROVE  /\ env'[v] = env[v] /\ rpc'[v] = rpc[v]
         /\ lock = v <=> lock' = v
         /\ lock = v => (redis' => redis) /\ (latest' => latest)
<1>1. /\ env \in [Processes -> BOOLEAN] /\ DOMAIN rpc = Processes
      /\ \A q \in Requests : wpc[q] \in {"redis", "commit"} <=> lock = q
  BY DEF KSP!SwitchInv, KSP!WriteInv, KSP!TypeOK, KSP!HolderWrites
<1>2. Free # v /\ \A q \in Requests : q # v
  BY Sessions DEF KSP!SessionsAssumption
<1> USE DEF KS!shared, KS!writers, KS!readers
<1>3. ASSUME NEW q \in Requests, KS!Writing(q)
      PROVE  /\ env'[v] = env[v] /\ rpc'[v] = rpc[v]
             /\ lock = v <=> lock' = v
             /\ lock = v => (redis' => redis) /\ (latest' => latest)
  BY <1>1, <1>2, <1>3 DEF KS!Writing, KS!Activate, KS!Deactivate, KS!Flush, KS!LockTimeout,
     KS!WriteRedis, KS!Commit, KS!Abort
<1>4. ASSUME NEW r \in S, KS!Reading(r)
      PROVE  UNCHANGED <<redis, latest, lock>> /\ env'[v] = env[v] /\ rpc'[v] = rpc[v]
  BY <1>1, <1>4 DEF KS!Reading, KS!Call, KS!ReadEnv, KS!ReadRedis, KS!ReadLatest, KS!ReadFails,
     KS!Restart, KS!Return, KS!GoOn
<1>5. ASSUME NEW o \in S, KS!TakeLock(o) \/ KS!ReleaseLock(o)
      PROVE  UNCHANGED <<redis, latest, env, rpc>> /\ (lock = v <=> lock' = v)
  BY <1>2, <1>5 DEF KS!TakeLock, KS!ReleaseLock
<1>6. CASE KS!RedisLoss
  BY <1>6 DEF KS!RedisLoss
<1>7. CASE UNCHANGED switch
  BY <1>7 DEF switch
<1>8. QED
  BY <1>3, <1>4, <1>5, <1>6, <1>7 DEF Side

LEMMA BesideExecutors ==
  ASSUME KSP!SwitchInv, Executes, NEW a \in Analysts
  PROVE  lock = a <=> lock' = a
<1>1. Executors \in SUBSET Processes /\ a \in Processes \ Executors
  BY Assumed DEF Processes
<1>2. Side(Executors) \/ UNCHANGED switch
  BY ExecutesStep, ExecutorsUse
<1>3. QED
  BY <1>1, <1>2, Beside

-----------------------------------------------------------------------------
(* The analysts, in company. *)
LEMMA SameHolder == KSP!HolderWrites => LP!KSP!HolderWrites
  BY SameTrips DEF KSP!HolderWrites, LP!KSP!HolderWrites, LP!Trips, Requests

AnalystsInv ==
  /\ KSP!SwitchInv
  /\ LP!ItemsType /\ LP!RelayInv /\ LP!StrandedInv
  /\ LP!BudgetInv(LP!Idle, LP!Most)

(* An executor writes nothing of the switch and charges nothing; it may meet *)
(* a fault, which the analysts count as one.                                 *)
LEMMA ExecutesAside ==
  ASSUME Executes
  PROVE  LP!Aside /\ UNCHANGED <<redis, latest, wpc, op>>
<1>1. UNCHANGED <<redis, latest, wpc, op>> /\ faults' \in {faults, faults + 1}
  BY DEF Executes, OP!Handling, OP!Ask, OP!Hear, OP!Pop, OP!PopNothing, OP!Skip, OP!Evaluate,
     OP!Record, OP!ReadBroker, OP!ReadOrders, OP!LockTimeout, OP!NotPermitted, OP!Validate,
     OP!Reject, OP!Place, OP!Insert, OP!Commit, OP!Unwind, OP!Fail, OP!Start, OP!Fill,
     OP!EndSession, OP!switch, OP!KS!Call, OP!KS!ReadEnv, OP!KS!ReadRedis, OP!KS!ReadLatest,
     OP!KS!Restart, OP!KS!TakeLock, OP!KS!ReleaseLock, OP!KS!shared, OP!KS!writers
<1>2. QED
  BY <1>1 DEF Executes, llm, LP!Aside, LP!items, LP!input, LP!database

LEMMA BudgetStep ==
  ASSUME AnalystsInv, [Next]_vars
  PROVE  LP!BudgetInv(LP!Idle, LP!Most)'
<1>1. LP!Parameters(LP!Idle, LP!Most)
  BY Assumed, LP!Chosen
<1>2. LP!BudgetInv(LP!Idle, LP!Most) /\ faults \in Nat /\ period \in LP!Periods
  BY DEF AnalystsInv, LP!BudgetInv, LP!BudgetType
<1>3. CASE LP!Step
  <2>1. LP!BudgetStep(LP!Idle, LP!Most)
    BY <1>3, Assumed, LP!Budgeted DEF AnalystsInv
  <2>2. LP!SwitchTyped
    BY SameTrips DEF AnalystsInv, KSP!SwitchInv, KSP!WriteInv, KSP!TypeOK, LP!SwitchTyped,
       Processes
  <2>3. QED
    BY <1>1, <1>2, <2>1, <2>2, Assumed, LP!BudgetInvStep
<1>4. CASE Executes \/ UNCHANGED vars
  <2>1. UNCHANGED <<redis, latest, wpc, op, llm>> /\ faults' \in {faults, faults + 1}
    BY <1>4, ExecutesAside DEF Executes, LP!Aside, vars
  <2>2. /\ UNCHANGED <<redis, latest, wpc, op, lpc, spend, bill, losses, refused, releases>>
        /\ period' \in LP!Periods /\ faults' \in Nat
    BY <1>2, <2>1 DEF llm, LP!Periods
  <2>3. QED
    BY <1>2, <2>2, Assumed, LP!NothingMoves
<1>5. QED
  BY <1>3, <1>4, Kinds DEF Next, Pushes, LP!Step, LP!Handling

LEMMA StillOfAnalysts ==
  ASSUME UNCHANGED vars
  PROVE  LP!Elsewhere
  BY DEF vars, llm, LP!Elsewhere, LP!items, LP!input, LP!database

LEMMA StepOfAnalysts ==
  ASSUME KSP!SwitchInv, Step
  PROVE  LP!Step \/ LP!Elsewhere
<1>1. ASSUME Executes PROVE LP!Elsewhere
  BY <1>1, BesideExecutors DEF Executes, llm, LP!Elsewhere, LP!items, LP!input, LP!database
<1>2. QED
  BY <1>1, Kinds DEF Pushes, LP!Step, LP!Handling

LEMMA AnalystsInvStep == AnalystsInv /\ [Next]_vars => AnalystsInv'
<1> SUFFICES ASSUME AnalystsInv, [Next]_vars PROVE AnalystsInv'
  OBVIOUS
<1>1. KSP!SwitchInv'
  <2>1. [KS!Next]_(KS!vars) => [KSP!Next]_(KSP!vars)
    BY SameNext DEF KS!vars, KSP!vars
  <2>2. QED
    BY <2>1, Sessions, StepOfSwitch, KSP!SwitchInvStep DEF AnalystsInv
<1>2. LP!Step \/ LP!Elsewhere
  BY StepOfAnalysts, StillOfAnalysts DEF AnalystsInv, Next
<1>3. LP!ItemsType'
  <2>1. [LP!Step]_(LP!items)
    BY <1>2 DEF LP!Elsewhere
  <2>2. QED
    BY <2>1, Assumed, LP!ItemsTypeStep DEF AnalystsInv
<1>4. LP!RelayInv'
  BY <1>2, Assumed, SameHolder, LP!RelayInvStep DEF AnalystsInv, KSP!SwitchInv, KSP!WriteInv
<1>5. LP!StrandedInv'
  <2>1. LP!Step \/ LP!Aside
    <3>1. UNCHANGED vars => LP!Aside
      BY DEF vars, llm, LP!Aside, LP!items, LP!input, LP!database
    <3>2. QED
      BY <3>1, Kinds, ExecutesAside DEF Next, Pushes, LP!Step, LP!Handling
  <2>2. faults \in Nat
    BY DEF AnalystsInv, LP!BudgetInv, LP!BudgetType
  <2>3. QED
    BY <2>1, <2>2, Assumed, LP!StrandedInvStep DEF AnalystsInv
<1>6. QED
  BY <1>1, <1>3, <1>4, <1>5, BudgetStep DEF AnalystsInv

LEMMA AnalystsInvInit == Init => AnalystsInv
<1> SUFFICES ASSUME Init PROVE AnalystsInv
  OBVIOUS
<1>1. KSP!SwitchInv
  BY Sessions, SameInit, KSP!SwitchInvInit DEF Init
<1>2. LP!Ready
  BY DEF Init, L!Ready, LP!Ready, L!WorkersReady, LP!WorkersReady, L!Nothing, LP!Nothing,
     L!Events, LP!Events, L!Periods, LP!Periods
<1>3. LP!ItemsType
  BY <1>2, Assumed, LP!ItemsTypeInit
<1>4. LP!RelayInv
  BY <1>2, Assumed, LP!RelayInvInit
<1>5. LP!StrandedInv
  BY <1>2, Assumed, LP!StrandedInit
<1>6. LP!BudgetInv(LP!Idle, LP!Most)
  <2>1. LP!Parameters(LP!Idle, LP!Most) /\ "check" \in LP!Idle
    BY Assumed, LP!Chosen DEF LP!Idle
  <2>2. wpc = [q \in {} \cup LP!Trips |-> "idle"]
    BY SameTrips DEF Init, KS!Init
  <2>3. LP!WorkersReady("check")
    BY <1>2 DEF LP!Ready
  <2>4. QED
    BY <2>1, <2>2, <2>3, Assumed, LP!BudgetInvInit
<1>7. QED
  BY <1>1, <1>3, <1>4, <1>5, <1>6 DEF AnalystsInv

LEMMA AnalystsInvariant == Spec => []AnalystsInv
  BY AnalystsInvInit, AnalystsInvStep, PTL DEF Spec

(* The workers of both kinds use the kill switch and the write lock as       *)
(* KillSwitch says: what is proved of it holds beside them all.              *)
THEOREM KeepsSwitch == Spec => SwitchKept
<1>1. Init => KS!Init
  BY DEF Init
<1>2. AnalystsInv /\ [Next]_vars => [KS!Next]_(KS!vars)
  BY StepOfSwitch DEF AnalystsInv
<1>3. QED
  BY <1>1, <1>2, AnalystsInvariant, PTL DEF Spec, SwitchKept, KS!Spec

-----------------------------------------------------------------------------
(* The events between the two workers.  What was published was pushed, which *)
(* is why no analyst, who pushes only what has no push, publishes it again;  *)
(* what was pushed has a row; and a row has its decision.                    *)
IssueInv ==
  /\ published \subseteq Events
  /\ \A e \in published : pushes[e] > 0
  /\ \A e \in events : e[1] \in decisions

LEMMA PushPublishes ==
  ASSUME AnalystsInv, IssueInv, NEW a \in Analysts, Pushes(a)
  PROVE  \E e \in Events : /\ OP!Publish(e) /\ published' = published \cup {e}
                           /\ pushes' = [pushes EXCEPT ![e] = @ + 1]
<1>1. PICK e \in hand[a].new :
        /\ LP!Publish(a)
        /\ pushes'[e] # pushes[e]
        /\ queue' = Append(queue, e)
        /\ published' = published \cup {e}
        /\ UNCHANGED <<replays, pc, job, orders, audit, broker, position, clock>>
  BY DEF Pushes
<1>2. /\ pushes \in [Events -> Nat] /\ hand[a].new \subseteq Events
      /\ \A f \in hand[a].new : pushes[f] = 0
  <2>1. lpc[a] = "publish"
    BY <1>1 DEF LP!Publish
  <2>2. \A f \in hand[a].new : pushes[f] = 0
    BY <2>1 DEF AnalystsInv, LP!RelayInv, LP!HandsInv
  <2>3. hand[a] \in LP!Hands
    BY DEF AnalystsInv, LP!ItemsType
  <2>4. QED
    BY <2>2, <2>3, SameEvents DEF AnalystsInv, LP!ItemsType, LP!Hands
<1>3. PICK f \in hand[a].new : pushes' = [pushes EXCEPT ![f] = @ + 1]
  BY <1>1 DEF LP!Publish
<1>4. f = e
  BY <1>1, <1>2, <1>3
<1>5. e \notin published
  BY <1>2 DEF IssueInv
<1>6. UNCHANGED <<OP!switch, faults>>
  BY <1>1 DEF LP!Publish, LP!switch, LP!counters, OP!switch
<1>7. OP!Publish(e)
  BY <1>1, <1>5, <1>6 DEF OP!Publish, OP!database, OP!world
<1>8. QED
  BY <1>1, <1>2, <1>3, <1>4, <1>7

LEMMA ExecutesPublishesNothing == Executes => UNCHANGED published
  BY DEF Executes, OP!Handling, OP!Ask, OP!Hear, OP!Pop, OP!PopNothing, OP!Skip, OP!Evaluate,
     OP!Record, OP!ReadBroker, OP!ReadOrders, OP!LockTimeout, OP!NotPermitted, OP!Validate,
     OP!Reject, OP!Place, OP!Insert, OP!Commit, OP!Unwind, OP!Fail, OP!Start, OP!Fill,
     OP!redisQueue

LEMMA IssueInvStep == AnalystsInv /\ IssueInv /\ [Next]_vars => IssueInv'
<1> SUFFICES ASSUME AnalystsInv, IssueInv, [Next]_vars PROVE IssueInv'
  OBVIOUS
<1>1. published \subseteq Events
  BY DEF IssueInv
<1>2. CASE Executes \/ UNCHANGED vars
  BY <1>2, ExecutesPublishesNothing DEF Executes, llm, vars, execution, IssueInv
<1>3. ASSUME NEW a \in Analysts, Pushes(a) PROVE IssueInv'
  <2>1. PICK e \in Events : /\ published' = published \cup {e}
                           /\ pushes' = [pushes EXCEPT ![e] = @ + 1]
    BY <1>3, PushPublishes
  <2>2. pushes \in [Events -> Nat]
    BY SameEvents DEF AnalystsInv, LP!ItemsType
  <2>3. UNCHANGED <<events, decisions>>
    BY <1>3 DEF Pushes, LP!Publish, LP!database
  <2>4. QED
    BY <1>1, <2>1, <2>2, <2>3 DEF IssueInv
<1>4. ASSUME LP!Step, UNCHANGED published PROVE IssueInv'
  <2>1. ASSUME NEW a \in Analysts, LP!Commit(a) PROVE IssueInv'
    <3>1. \A e \in hand[a].new : e[1] = hand[a].tweet
      BY <2>1 DEF LP!Commit, AnalystsInv, LP!RelayInv, LP!HandsInv
    <3>2. QED
      BY <1>4, <2>1, <3>1 DEF LP!Commit, IssueInv
  <2>2. ASSUME NEW a \in Analysts, LP!Publish(a) PROVE IssueInv'
    <3>1. PICK e \in hand[a].new : pushes' = [pushes EXCEPT ![e] = @ + 1]
      BY <2>2 DEF LP!Publish
    <3>2. pushes \in [Events -> Nat]
      BY SameEvents DEF AnalystsInv, LP!ItemsType
    <3>3. QED
      BY <1>1, <1>4, <2>2, <3>1, <3>2 DEF LP!Publish, LP!database, IssueInv
  <2>3. CASE UNCHANGED <<LP!database, pushes>>
    BY <1>4, <2>3 DEF LP!database, IssueInv
  <2>4. QED
    BY <1>4, <2>1, <2>2, <2>3, Assumed, LP!Effects DEF AnalystsInv
<1>5. QED
  BY <1>2, <1>3, <1>4, Kinds DEF Next, execution, LP!Step, OP!RedisLoss

-----------------------------------------------------------------------------
(* The executors, in company. *)
ExecutorsInv == OP!ItemsType /\ OP!InHandOK /\ OP!GateInv /\ OP!BookInv /\ OP!OnceInv

LEMMA StepOfExecutors ==
  ASSUME AnalystsInv, IssueInv, ExecutorsInv, [Next]_vars
  PROVE  OP!Step \/ (OP!Elsewhere /\ OP!Outside)
<1>1. faults \in Nat
  BY DEF ExecutorsInv, OP!ItemsType
<1>2. ASSUME UNCHANGED execution, faults' \in Nat,
             Side(Analysts) \/ UNCHANGED switch
      PROVE  OP!Elsewhere /\ OP!Outside
  <2>1. ASSUME NEW x \in Executors
        PROVE  /\ env'[x] = env[x] /\ rpc'[x] = rpc[x]
               /\ lock = x <=> lock' = x
               /\ lock = x => (redis' => redis) /\ (latest' => latest)
    <3>1. Analysts \in SUBSET Processes /\ x \in Processes \ Analysts
      BY Assumed DEF Processes
    <3>2. QED
      BY <1>2, <3>1, Beside DEF AnalystsInv
  <2>2. OP!Outside
    BY <1>2, <2>1 DEF OP!Outside, execution
  <2>3. OP!Elsewhere
    BY <1>2 DEF OP!Elsewhere, execution, OP!redisQueue, OP!database, OP!world
  <2>4. QED
    BY <2>2, <2>3
<1>3. CASE UNCHANGED vars
  <2>1. UNCHANGED switch /\ UNCHANGED execution /\ faults' \in Nat
    BY <1>1, <1>3 DEF vars, switch
  <2>2. QED
    BY <1>2, <2>1
<1>4. ASSUME NEW a \in Analysts, Pushes(a) PROVE OP!Step
  <2>1. PICK e \in Events : OP!Publish(e)
    BY <1>4, PushPublishes
  <2>2. QED
    BY <2>1 DEF OP!Step
<1>5. ASSUME LP!Step, UNCHANGED execution PROVE OP!Elsewhere /\ OP!Outside
  <2>1. faults' \in Nat
    <3>1. faults' \in {faults, faults + 1}
      BY <1>5, Assumed, LP!Effects DEF AnalystsInv, LP!Commit, LP!Publish, LP!counters
    <3>2. QED
      BY <1>1, <3>1
  <2>2. Side(Analysts) \/ UNCHANGED switch
    BY <1>5, AnalystsUse DEF AnalystsInv
  <2>3. QED
    BY <1>2, <1>5, <2>1, <2>2
<1>6. CASE Executes
  BY <1>6, ExecutesStep
<1>7. OP!RedisLoss => OP!Step
  BY DEF OP!Step
<1>8. QED
  BY <1>3, <1>4, <1>5, <1>6, <1>7, Kinds DEF Next

LEMMA SwitchWatched == KSP!SwitchInv => OP!Watched
  BY DEF KSP!SwitchInv, KSP!WriteInv, KSP!TypeOK, KSP!CallsWatched, KSP!HolderWrites, Processes,
     OP!Watched, OP!KSP!HolderWrites

LEMMA ExecutorsInvStep ==
  AnalystsInv /\ IssueInv /\ ExecutorsInv /\ [Next]_vars => ExecutorsInv'
<1> SUFFICES ASSUME AnalystsInv, IssueInv, ExecutorsInv, [Next]_vars PROVE ExecutorsInv'
  OBVIOUS
<1>1. OP!Step \/ (OP!Elsewhere /\ OP!Outside)
  BY StepOfExecutors
<1>2. OP!ItemsType' /\ OP!InHandOK'
  BY <1>1, Assumed, OP!TypeStep DEF ExecutorsInv
<1>3. OP!GateInv'
  <2>1. pc \in [Executors -> OP!Control]
    BY DEF ExecutorsInv, OP!ItemsType
  <2>2. QED
    BY <1>1, <2>1, Assumed, SwitchWatched, OP!GateStep DEF ExecutorsInv, AnalystsInv
<1>4. OP!OnceInv'
  BY <1>1, <1>2, Assumed, OP!OnceStep DEF ExecutorsInv
<1>5. OP!BookInv'
  BY <1>1, Assumed, OP!BookStep DEF ExecutorsInv
<1>6. QED
  BY <1>2, <1>3, <1>4, <1>5 DEF ExecutorsInv

(* Everything that is known of a state of the two. *)
WorkersInv == AnalystsInv /\ IssueInv /\ ExecutorsInv

LEMMA WorkersInvInit == Init => WorkersInv
<1> SUFFICES ASSUME Init PROVE WorkersInv
  OBVIOUS
<1>1. OP!Ready
  BY DEF Init, O!Ready, OP!Ready, O!NoJob, OP!NoJob, O!NoPlan, OP!NoPlan
<1>2. lock = Free /\ \A x \in Executors : rpc[x] = "idle"
  BY DEF Init, KS!Init, Processes
<1>3. ExecutorsInv
  BY <1>1, <1>2, Assumed, OP!ItemsInit, OP!GateInit, OP!BookInit,
     OP!OnceInit DEF ExecutorsInv
<1>4. IssueInv
  BY <1>1 DEF OP!Ready, Init, L!Ready, IssueInv
<1>5. QED
  BY <1>3, <1>4, AnalystsInvInit DEF WorkersInv

LEMMA WorkersInvariant == Spec => []WorkersInv
<1>1. WorkersInv /\ [Next]_vars => WorkersInv'
  BY AnalystsInvStep, IssueInvStep, ExecutorsInvStep DEF WorkersInv
<1>2. QED
  BY <1>1, WorkersInvInit, PTL DEF Spec

-----------------------------------------------------------------------------
(* INV-2, with both kinds of workers on one switch: while an order is        *)
(* validated, placed and recorded the switch is off, whoever throws it, an   *)
(* analyst whose budget is spent among them.                                 *)
THEOREM Gate == Spec => []NoOrderWhileActive
<1>1. WorkersInv => NoOrderWhileActive
  BY DEF WorkersInv, ExecutorsInv, OP!GateInv, OP!GateOK, NoOrderWhileActive,
     O!NoOrderWhileActive, O!KS!Active, OP!KS!Active
<1>2. QED
  BY <1>1, WorkersInvariant, PTL

(* A tweet trades once, although analysts rerun it, executors die between    *)
(* the broker's answer and their commit, and Redis forgets: an id is pushed  *)
(* once, and is in one place from then on.                                   *)
THEOREM OneOrder == Spec => []OneBrokerOrder
<1>1. WorkersInv => OneBrokerOrder
  BY DEF WorkersInv, ExecutorsInv, OP!OnceInv, OP!OnePlace, OP!NeverSecondOrder, OneBrokerOrder
<1>2. QED
  BY <1>1, WorkersInvariant, PTL

(* INV-4 across the workers: an id on the list, and an order, is of an event *)
(* that has its row, and an event has its decision.                          *)
THEOREM JournalComplete == Spec => []Journaled
<1>1. WorkersInv => Journaled
  <2> SUFFICES ASSUME WorkersInv PROVE Journaled
    OBVIOUS
  <2>1. \A e \in published : e \in events
    BY SameEvents DEF WorkersInv, IssueInv, AnalystsInv, LP!RelayInv, LP!PushedInv
  <2>2. QED
    BY <2>1 DEF WorkersInv, IssueInv, ExecutorsInv, OP!OnceInv, OP!IssuedInv, Journaled
<1>2. QED
  BY <1>1, WorkersInvariant, PTL
-----------------------------------------------------------------------------
(* What else is proved of each kind of worker holds in company.              *)

(* The orders table: one row of an event (INV-6), each with the audit rows   *)
(* that justify it (INV-4), and, after the first second of a day, the cap on *)
(* the orders validated on that day and on those validated before it,        *)
(* although the executors read the table, ask the broker and commit while    *)
(* analysts write beside them.                                               *)
THEOREM OrdersKept == Spec => [](O!OneOrderPerEvent /\ O!OrdersAudited /\ O!CapAfterFirstSecond)
<1>1. WorkersInv => OP!OneOrderPerEvent /\ OP!OrdersAudited /\ OP!CapAfterFirstSecond
  BY Assumed, OP!CappedInv
     DEF WorkersInv, ExecutorsInv, OP!BookInv, OP!OrderInv, OP!AuditInv
<1>2. OP!OneOrderPerEvent => O!OneOrderPerEvent
  BY DEF OP!OneOrderPerEvent, O!OneOrderPerEvent
<1>3. OP!OrdersAudited => O!OrdersAudited
  BY DEF OP!OrdersAudited, O!OrdersAudited
<1>4. OP!CapAfterFirstSecond => O!CapAfterFirstSecond
  BY DEF OP!CapAfterFirstSecond, O!CapAfterFirstSecond, OP!TradesOf, O!TradesOf,
     OP!FirstSecond, O!FirstSecond, OP!Day, O!Day, OP!Cardinality, O!Cardinality
<1>5. QED
  BY <1>1, <1>2, <1>3, <1>4, WorkersInvariant, PTL

(* The LLM's budget, with executors who contend for the lock that an analyst *)
(* needs to throw the switch, and may make it time out: the overspend stays  *)
(* within what is in flight and what such failures cost.                     *)
THEOREM Overspent == Spec => []L!OverspendBounded
<1>1. WorkersInv => LP!OverspendAtMost(LP!Most)
  <2>1. LP!Parameters(LP!Idle, LP!Most)
    BY Assumed, LP!Chosen
  <2>2. QED
    BY <2>1, Assumed, LP!Overspend DEF WorkersInv, AnalystsInv
<1>2. LP!OverspendAtMost(LP!Most) => L!OverspendBounded
  BY DEF LP!OverspendAtMost, L!OverspendBounded, L!OverspendAtMost, LP!Most, LP!MaxCost,
     L!MaxCost, LP!Periods, L!Periods, LP!Cardinality, L!Cardinality
<1>3. QED
  BY <1>1, <1>2, WorkersInvariant, PTL

(* A day that is spent has thrown the switch for the executors, too, or an   *)
(* analyst is about to, unless an attempt failed.                            *)
THEOREM SpentTrips == Spec => []L!SpentMeansTripped
<1>1. WorkersInv => L!SpentMeansTripped
  BY DEF WorkersInv, AnalystsInv, LP!BudgetInv, LP!SpentMeansTripped, L!SpentMeansTripped,
     LP!Periods, L!Periods
<1>2. QED
  BY <1>1, WorkersInvariant, PTL

(* An event that an analyst did not find is missing at its commit; and what  *)
(* was committed and is not pushed, and nobody will push, is of as many      *)
(* tweets as there were faults, whichever worker met them.                   *)
THEOREM EventsKept == Spec => [](L!EventsAreNew /\ L!StrandedByFaults)
<1>1. WorkersInv => L!EventsAreNew
  BY DEF WorkersInv, AnalystsInv, LP!RelayInv, LP!HandsInv, L!EventsAreNew
<1>2. WorkersInv => L!StrandedByFaults
  <2>1. LP!Stranded = L!Stranded
    BY DEF LP!Stranded, L!Stranded
  <2>2. LP!Cardinality(LP!StrandedTweets) = L!Cardinality({e[1] : e \in L!Stranded})
    BY <2>1 DEF LP!StrandedTweets, LP!Cardinality, L!Cardinality
  <2>3. QED
    BY <2>2 DEF WorkersInv, AnalystsInv, LP!StrandedInv, L!StrandedByFaults
<1>3. QED
  BY <1>1, <1>2, WorkersInvariant, PTL

(* The analysts keep the promise of Relay beside the executors: an event is  *)
(* pushed after its row is committed, and once.                              *)
THEOREM Relays == Spec => L!Relayed
<1>1. Init => L!Promise!Init
  BY DEF Init, L!Ready, L!Promise!Init
<1>2. WorkersInv /\ [Next]_vars => [L!Promise!Next]_<<events, pushes>>
  <2> SUFFICES ASSUME WorkersInv, [Next]_vars
               PROVE  [L!Promise!Next]_<<events, pushes>>
    OBVIOUS
  <2>1. LP!Step \/ UNCHANGED LP!items
    BY StepOfAnalysts, StillOfAnalysts DEF WorkersInv, AnalystsInv, Next, LP!Elsewhere
  <2>2. [LP!Promise!Next]_<<events, pushes>>
    BY <2>1, Assumed, LP!RelayKept DEF WorkersInv, AnalystsInv
  <2>3. QED
    BY <2>2, SameEvents DEF LP!Promise!Next, L!Promise!Next, LP!Promise!Store, L!Promise!Store,
       LP!Promise!Send, L!Promise!Send, LP!Events, L!Events
<1>3. QED
  BY <1>1, <1>2, WorkersInvariant, PTL DEF Spec, L!Relayed, L!Promise!Spec
=============================================================================
