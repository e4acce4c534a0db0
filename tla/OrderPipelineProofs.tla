-------------------------- MODULE OrderPipelineProofs --------------------------
(***************************************************************************)
(* The order pipeline, for every number of workers, requests, events,      *)
(* plans and limits.                                                       *)
(*                                                                         *)
(* First, its workers keep the discipline of the kill switch, so that what *)
(* KillSwitchProofs proves holds here too.  Then one inductive invariant,  *)
(* PipelineInv, a conjunct per theme: types, the gate (INV-2), and of the  *)
(* orders (BookInv) the rows of an event (INV-6), lost orders, the cap on  *)
(* trades, the audit (INV-4).                                              *)
(* Every theme but the types and the audit rests on the same fact, GateOK: *)
(* from the moment a worker reads the orders to its commit it holds the    *)
(* write lock, and only a holder changes the switch or the orders.         *)
(***************************************************************************)
EXTENDS OrderPipeline, FiniteSetTheorems, SequenceTheorems, TLAPS

KSP == INSTANCE KillSwitchProofs WITH Readers <- Workers, Others <- Workers

LEMMA Sessions == KSP!SessionsAssumption
  BY PipelineAssumption DEF KSP!SessionsAssumption

(* The switch that the proofs are about is the switch of the pipeline.       *)
LEMMA SameNext == KS!Next <=> KSP!Next
  BY DEF KS!Next, KSP!Next, KS!Step, KSP!Step, KS!Observe, KSP!Observe, KS!Active, KSP!Active,
         KS!Writing, KSP!Writing, KS!Activate, KSP!Activate, KS!Deactivate, KSP!Deactivate,
         KS!Flush, KSP!Flush, KS!LockTimeout, KSP!LockTimeout, KS!WriteRedis, KSP!WriteRedis,
         KS!Commit, KSP!Commit, KS!Abort, KSP!Abort,
         KS!Reading, KSP!Reading, KS!Call, KSP!Call, KS!ReadEnv, KSP!ReadEnv,
         KS!ReadRedis, KSP!ReadRedis, KS!ReadLatest, KSP!ReadLatest, KS!ReadFails, KSP!ReadFails,
         KS!Restart, KSP!Restart, KS!Return, KSP!Return, KS!GoOn, KSP!GoOn,
         KS!TakeLock, KSP!TakeLock, KS!ReleaseLock, KSP!ReleaseLock, KS!RedisLoss, KSP!RedisLoss,
         KS!shared, KSP!shared, KS!writers, KSP!writers, KS!readers, KSP!readers

LEMMA SameInit == KS!Init <=> KSP!Init
  BY DEF KS!Init, KSP!Init

LEMMA SameType == KS!TypeOK <=> KSP!TypeOK
  BY DEF KS!TypeOK, KSP!TypeOK

LEMMA SameSpec == KS!Spec <=> KSP!Spec
<1>1. [KS!Next]_(KS!vars) <=> [KSP!Next]_(KSP!vars)
  BY SameNext DEF KS!vars, KSP!vars
<1>2. QED
  BY <1>1, SameInit, PTL DEF KS!Spec, KSP!Spec

(* A step that leaves the switch alone leaves its history alone: a call in   *)
(* progress has already seen the value that the switch has.                  *)
LEMMA SwitchUntouched ==
  ASSUME KSP!SwitchInv, UNCHANGED switch, KS!Observe
  PROVE  UNCHANGED seen
<1>1. seen' = [r \in Workers |-> IF rpc[r] = "idle" THEN {}
                                                     ELSE seen[r] \cup {KS!Active(r)}]
  BY DEF KS!Observe, KS!Active, switch
<1>2. ASSUME NEW r \in Workers PROVE seen'[r] = seen[r]
  BY <1>1 DEF KSP!SwitchInv, KSP!CallsWatched, KSP!Active, KS!Active
<1>3. QED
  BY <1>1, <1>2 DEF KSP!SwitchInv, KSP!WriteInv, KSP!TypeOK

(* Every step of the pipeline is a step of the switch or leaves it alone.    *)
LEMMA SwitchMoves ==
  (\A w \in Workers : env[w] \in BOOLEAN) /\ Step => KS!Step \/ UNCHANGED switch
<1> SUFFICES ASSUME \A w \in Workers : env[w] \in BOOLEAN, Step
             PROVE  KS!Step \/ UNCHANGED switch
  OBVIOUS
<1>1. ASSUME NEW w \in Workers, Handling(w) PROVE KS!Step \/ UNCHANGED switch
  <2>1. EndSession(w) => KS!Step \/ UNCHANGED switch
    BY DEF EndSession, KS!Step
  <2>2. QED
    BY <1>1, <2>1 DEF Handling, Ask, Hear, Pop, PopNothing, Skip, Evaluate, Record,
          ReadBroker, ReadOrders, LockTimeout, NotPermitted, Validate, Reject, Place,
          Insert, Commit, Unwind, KS!Step, KS!Reading
<1>2. ASSUME NEW w \in Workers, Fail(w) \/ Start(w) PROVE KS!Step
  <2>1. PICK on : KS!Restart(w, on) /\ on \in BOOLEAN
    BY <1>2 DEF Fail, Start
  <2>2. QED
    BY <2>1 DEF KS!Step, KS!Reading
<1>3. ASSUME NEW e \in Events, Publish(e) \/ Replay(e) PROVE UNCHANGED switch
  BY <1>3 DEF Publish, Replay
<1>4. ASSUME NEW i \in DOMAIN broker, Fill(i) PROVE UNCHANGED switch
  BY <1>4 DEF Fill
<1>5. CASE Tick
  BY <1>5 DEF Tick
<1>6. CASE Switching \/ RedisLoss
  BY <1>6 DEF Switching, RedisLoss, KS!Step
<1>7. QED
  BY <1>1, <1>2, <1>3, <1>4, <1>5, <1>6 DEF Step

LEMMA StepOfSwitch == KSP!SwitchInv /\ [Next]_vars => [KS!Next]_(KS!vars)
<1> SUFFICES ASSUME KSP!SwitchInv, [Next]_vars
             PROVE  KS!Next \/ UNCHANGED KS!vars
  OBVIOUS
<1>1. CASE UNCHANGED vars
  BY <1>1 DEF vars, switch, KS!vars
<1>2. CASE Next
  <2>1. \A w \in Workers : env[w] \in BOOLEAN
    BY DEF KSP!SwitchInv, KSP!WriteInv, KSP!TypeOK
  <2>2. KS!Observe /\ Step
    BY <1>2 DEF Next
  <2>3. QED
    BY <2>1, <2>2, SwitchMoves, SwitchUntouched DEF KS!Next, KS!vars, switch
<1>3. QED
  BY <1>1, <1>2

(* The workers keep the discipline of the kill switch, and with it what is   *)
(* proved of the kill switch holds in the pipeline: requests are serialised, *)
(* answers are values the switch had, acknowledgements stand.                *)
LEMMA SwitchInvariant == Spec => []KSP!SwitchInv
<1>1. Init => KSP!SwitchInv
  BY Sessions, SameInit, KSP!SwitchInvInit DEF Init
<1>2. KSP!SwitchInv /\ [Next]_vars => KSP!SwitchInv'
  <2>1. [KS!Next]_(KS!vars) => [KSP!Next]_(KSP!vars)
    BY SameNext DEF KS!vars, KSP!vars
  <2>2. QED
    BY <2>1, Sessions, StepOfSwitch, KSP!SwitchInvStep
<1>3. QED
  BY <1>1, <1>2, PTL DEF Spec

THEOREM KeepsSwitch == Spec => SwitchKept
<1>1. Init => KS!Init
  BY DEF Init
<1>2. QED
  BY <1>1, SwitchInvariant, StepOfSwitch, PTL DEF Spec, SwitchKept, KS!Spec

THEOREM KeepsPromise == Spec => KSP!Promised
  BY KeepsSwitch, SameSpec, Sessions, KSP!Refinement DEF SwitchKept

-----------------------------------------------------------------------------
(* Types.  Counting the orders of a day needs that there are finitely many.  *)
ItemsType ==
  /\ queue \in Seq(Events)
  /\ published \subseteq Events
  /\ replays \in Nat
  /\ pc \in [Workers -> Control]
  /\ job \in [Workers -> Jobs]
  /\ faults \in Nat
  /\ orders \subseteq Rows
  /\ audit \subseteq Events \X {"engine", "risk"}
  /\ broker \in Seq([event : Events, plan : Plans, filled : BOOLEAN])
  /\ position \in Int
  /\ clock \in Nat
  /\ IsFiniteSet(orders)

Planned == {"broker", "lock", "gate", "validate", "reject", "place", "insert", "commit"}

(* A worker past the pop has an event in hand, past the rules also a plan.   *)
InHandOK == \A w \in Workers :
  /\ pc[w] \in {"evaluate", "record"} \cup Planned => job[w].event \in Events
  /\ pc[w] \in Planned => job[w].plan \in Plans

LEMMA CountOrders ==
  ASSUME IsFiniteSet(orders), NEW now
  PROVE  Cardinality({o \in orders : InWindow(o.stamp, now)}) \in Nat
<1>1. IsFiniteSet({o \in orders : InWindow(o.stamp, now)})
  BY FS_Subset
<1>2. QED
  BY <1>1, FS_CardinalityType

(* What the worker knows of the event in hand, field by field.  k is j, at a  *)
(* later step of the same event.                                             *)
Later(k, j) == k \in Jobs /\ k.event = j.event /\ k.plan = j.plan

LEMMA JobTypes ==
  /\ NoJob \in Jobs
  /\ \A j \in Jobs : /\ j.event \in Events \cup {NoEvent} /\ j.plan \in Plans \cup {NoPlan}
                     /\ j.receipt \in Nat /\ j.stamp \in Nat /\ j.now \in Nat
  /\ \A j \in Jobs, e \in Events : [j EXCEPT !.event = e] \in Jobs
  /\ \A j \in Jobs, p \in Plans \cup {NoPlan} : [j EXCEPT !.plan = p] \in Jobs
  /\ \A j \in Jobs : Later([j EXCEPT !.checked = TRUE], j)
  /\ \A j \in Jobs, n \in Nat : Later([j EXCEPT !.receipt = n], j)
  /\ \A j \in Jobs, n \in Nat : Later([j EXCEPT !.stamp = n], j)
  BY DEF Jobs, NoJob, Later

LEMMA BrokerRead ==
  ASSUME NEW j \in Jobs, NEW n \in Nat, NEW x \in Nat
  PROVE  Later([j EXCEPT !.now = n, !.exposure = x], j)
  BY DEF Jobs, Later

LEMMA OrdersRead ==
  ASSUME NEW j \in Jobs, NEW n \in Nat, NEW b \in BOOLEAN
  PROVE  Later([j EXCEPT !.trades = n, !.seen = b], j)
  BY DEF Jobs, Later

(* A step of somebody else, who may only have met a fault. *)
Elsewhere == UNCHANGED <<redisQueue, pc, job, database, world>> /\ faults' \in Nat

(* Stated of Step alone: it holds of an executor in company, too, whose calls*)
(* to is_active are watched with those of others (TradingProofs).            *)
LEMMA TypeStep ==
  ItemsType /\ InHandOK /\ (Step \/ Elsewhere) => ItemsType' /\ InHandOK'
<1> SUFFICES ASSUME ItemsType, InHandOK, Step \/ Elsewhere
             PROVE  ItemsType' /\ InHandOK'
  OBVIOUS
<1>1. CASE Elsewhere
  BY <1>1 DEF ItemsType, InHandOK, Elsewhere, redisQueue, database, world
<1>2. CASE Step
  <2> DEFINE OutsideOK == /\ queue' \in Seq(Events)
                          /\ published' \subseteq Events
                          /\ replays' \in Nat
                          /\ faults' \in Nat
                          /\ broker' \in Seq([event : Events, plan : Plans, filled : BOOLEAN])
                          /\ position' \in Int
                          /\ clock' \in Nat
             WorkersOK == /\ pc' \in [Workers -> Control]
                          /\ job' \in [Workers -> Jobs]
                          /\ InHandOK'
             TablesOK == /\ orders' \subseteq Rows
                         /\ audit' \subseteq Events \X {"engine", "risk"}
                         /\ IsFiniteSet(orders)'
  <2> USE DEF ItemsType, InHandOK, Planned, redisQueue, database, world, Goto, Control
  <2>1. ASSUME NEW w \in Workers, Ask(w) PROVE OutsideOK /\ WorkersOK /\ TablesOK
    BY <2>1 DEF Ask
  <2>2. ASSUME NEW w \in Workers, Hear(w) PROVE OutsideOK /\ WorkersOK /\ TablesOK
    BY <2>2 DEF Hear
  <2>3. ASSUME NEW w \in Workers, PopNothing(w) \/ LockTimeout(w) \/ NotPermitted(w)
        PROVE  OutsideOK /\ WorkersOK /\ TablesOK
    BY <2>3 DEF PopNothing, LockTimeout, NotPermitted
  <2>4. ASSUME NEW w \in Workers, Start(w) PROVE OutsideOK /\ WorkersOK /\ TablesOK
    BY <2>4 DEF Start
  <2>5. ASSUME NEW w \in Workers, Pop(w) PROVE OutsideOK /\ WorkersOK /\ TablesOK
    <3>1. Head(queue) \in Events
      BY <2>5 DEF Pop
    <3>2. WorkersOK
      BY <2>5, <3>1, JobTypes DEF Pop, NoJob
    <3>3. QED
      BY <2>5, <3>2 DEF Pop
  <2>6. ASSUME NEW w \in Workers, Skip(w) \/ Unwind(w)
        PROVE OutsideOK /\ WorkersOK /\ TablesOK
    BY <2>6, JobTypes DEF Skip, Unwind
  <2>7. ASSUME NEW w \in Workers, Evaluate(w) PROVE OutsideOK /\ WorkersOK /\ TablesOK
    <3>1. PICK plan \in Plans \cup {NoPlan} :
            /\ job' = [job EXCEPT ![w] = [job[w] EXCEPT !.plan = plan]]
            /\ Goto(w, IF plan = NoPlan THEN "record" ELSE "broker")
      BY <2>7 DEF Evaluate
    <3>2. [job[w] EXCEPT !.plan = plan] \in Jobs
      BY JobTypes
    <3>3. /\ [job[w] EXCEPT !.plan = plan].plan = plan
          /\ [job[w] EXCEPT !.plan = plan].event = job[w].event
      BY DEF Jobs
    <3>4. WorkersOK
      BY <2>7, <3>1, <3>2, <3>3 DEF Evaluate
    <3>5. QED
      BY <2>7, <3>4 DEF Evaluate
  <2>8. ASSUME NEW w \in Workers, ReadBroker(w) PROVE OutsideOK /\ WorkersOK /\ TablesOK
    <3> DEFINE j == [job[w] EXCEPT !.now = clock, !.exposure = Abs(position)]
    <3>1. Abs(position) \in Nat
      BY DEF Abs
    <3>2. j \in Jobs /\ j.event = job[w].event /\ j.plan = job[w].plan
      <4>1. job[w] \in Jobs /\ clock \in Nat
        OBVIOUS
      <4> HIDE DEF ItemsType, InHandOK, Abs
      <4>2. Later(j, job[w])
        BY <3>1, <4>1, BrokerRead
      <4>3. QED
        BY <4>2 DEF Later
    <3>3. job' = [job EXCEPT ![w] = j]
      BY <2>8 DEF ReadBroker
    <3> HIDE DEF j
    <3>4. QED
      BY <2>8, <3>2, <3>3 DEF ReadBroker
  <2>9. ASSUME NEW w \in Workers, ReadOrders(w) PROVE OutsideOK /\ WorkersOK /\ TablesOK
    <3> DEFINE n == Cardinality({o \in orders : InWindow(o.stamp, job[w].now)})
               b == \E o \in orders : o.event = job[w].event
               j == [job[w] EXCEPT !.trades = n, !.seen = b]
    <3>1. n \in Nat /\ b \in BOOLEAN
      BY CountOrders
    <3>2. j \in Jobs /\ j.event = job[w].event /\ j.plan = job[w].plan
      <4>1. job[w] \in Jobs
        OBVIOUS
      <4> HIDE DEF ItemsType, InHandOK, n, b
      <4>2. Later(j, job[w])
        BY <3>1, <4>1, OrdersRead
      <4>3. QED
        BY <4>2 DEF Later
    <3>3. job' = [job EXCEPT ![w] = j]
      BY <2>9 DEF ReadOrders
    <3> HIDE DEF j
    <3>4. QED
      BY <2>9, <3>2, <3>3 DEF ReadOrders
  <2>10. ASSUME NEW w \in Workers, Validate(w) PROVE OutsideOK /\ WorkersOK /\ TablesOK
    <3> DEFINE j == [job[w] EXCEPT !.checked = TRUE]
    <3>1. j \in Jobs /\ j.event = job[w].event /\ j.plan = job[w].plan
      BY JobTypes DEF Later
    <3>2. job' = [job EXCEPT ![w] = j]
      BY <2>10 DEF Validate
    <3> HIDE DEF j
    <3>3. QED
      BY <2>10, <3>1, <3>2 DEF Validate
  <2>11. ASSUME NEW w \in Workers, Record(w) \/ Reject(w)
         PROVE  OutsideOK /\ WorkersOK /\ TablesOK
    <3>1. job[w].event \in Events
      BY <2>11 DEF Record, Reject
    <3>2. TablesOK
      BY <2>11, <3>1 DEF Record, Reject, AuditOf
    <3>3. WorkersOK
      BY <2>11, JobTypes DEF Record, Reject
    <3>4. OutsideOK
      BY <2>11 DEF Record, Reject
    <3>5. QED
      BY <3>2, <3>3, <3>4
  <2>12. ASSUME NEW w \in Workers, Place(w) PROVE OutsideOK /\ WorkersOK /\ TablesOK
    <3> DEFINE j == [job[w] EXCEPT !.receipt = Len(broker) + 1]
    <3>1. j \in Jobs /\ j.event = job[w].event /\ j.plan = job[w].plan
      <4>1. job[w] \in Jobs /\ Len(broker) + 1 \in Nat
        OBVIOUS
      <4> HIDE DEF ItemsType, InHandOK
      <4>2. QED
        BY <4>1, JobTypes DEF Later
    <3>2. job' = [job EXCEPT ![w] = j]
      BY <2>12 DEF Place
    <3> HIDE DEF j
    <3>3. WorkersOK /\ TablesOK
      BY <2>12, <3>1, <3>2 DEF Place
    <3>4. OutsideOK
      BY <2>12 DEF Place, Accepted
    <3>5. QED
      BY <3>3, <3>4
  <2>13. ASSUME NEW w \in Workers, Fail(w) PROVE OutsideOK /\ WorkersOK /\ TablesOK
    <3>1. CASE broker' = broker
      BY <2>13, <3>1 DEF Fail
    <3>2. CASE pc[w] = "place" /\ broker' = Accepted(w)
      <4>1. broker' \in Seq([event : Events, plan : Plans, filled : BOOLEAN])
        BY <3>2 DEF Accepted
      <4>2. QED
        BY <2>13, <4>1 DEF Fail
    <3>3. QED
      BY <2>13, <3>1, <3>2 DEF Fail
  <2>14. ASSUME NEW w \in Workers, Insert(w) PROVE OutsideOK /\ WorkersOK /\ TablesOK
    <3> DEFINE j == [job[w] EXCEPT !.stamp = clock]
    <3>1. j \in Jobs /\ j.event = job[w].event /\ j.plan = job[w].plan
      BY JobTypes DEF Later
    <3>2. CASE Insertable(w)
      <4>1. job' = [job EXCEPT ![w] = j]
        BY <2>14, <3>2 DEF Insert
      <4> HIDE DEF j
      <4>2. QED
        BY <2>14, <3>1, <3>2, <4>1 DEF Insert
    <3>3. CASE ~Insertable(w)
      BY <2>14, <3>3 DEF Insert
    <3>4. QED
      BY <3>2, <3>3
  <2>15. ASSUME NEW w \in Workers, Commit(w) PROVE OutsideOK /\ WorkersOK /\ TablesOK
    <3> DEFINE row == [event |-> job[w].event, strategy |-> job[w].plan.strategy,
                       externalId |-> job[w].receipt, stamp |-> job[w].stamp,
                       now |-> job[w].now]
    <3>1. /\ job[w] \in Jobs /\ job[w].event \in Events /\ job[w].plan \in Plans
          /\ orders' = orders \cup {row}
      BY <2>15 DEF Commit
    <3>2. job[w].plan.strategy \in STRING
      BY <3>1, PipelineAssumption
    <3>3. row \in Rows
      BY <3>1, <3>2, JobTypes DEF Rows
    <3>4. IsFiniteSet(orders)'
      BY <3>1, FS_AddElement
    <3> HIDE DEF row
    <3>5. TablesOK
      BY <2>15, <3>1, <3>3, <3>4 DEF Commit, AuditOf
    <3>6. OutsideOK /\ WorkersOK
      BY <2>15, JobTypes DEF Commit
    <3>7. QED
      BY <3>5, <3>6
  <2>16. ASSUME NEW e \in Events, Publish(e) PROVE OutsideOK /\ WorkersOK /\ TablesOK
    BY <2>16 DEF Publish
  <2>17. ASSUME NEW e \in Events, Replay(e) PROVE OutsideOK /\ WorkersOK /\ TablesOK
    BY <2>17 DEF Replay
  <2>18. ASSUME NEW i \in DOMAIN broker, Fill(i) PROVE OutsideOK /\ WorkersOK /\ TablesOK
    <3>1. broker[i] \in [event : Events, plan : Plans, filled : BOOLEAN]
      <4>1. broker \in Seq([event : Events, plan : Plans, filled : BOOLEAN]) /\ i \in DOMAIN broker
        OBVIOUS
      <4> HIDE DEF ItemsType, InHandOK
      <4>2. QED
        BY <4>1, ElementOfSeq, LenProperties
    <3>2. broker[i].plan.notional \in Nat
      BY <3>1, PipelineAssumption
    <3>3. OutsideOK
      <4>1. position' \in Int
        BY <2>18, <3>2 DEF Fill
      <4>2. broker' = [broker EXCEPT ![i] = [broker[i] EXCEPT !.filled = TRUE]]
        BY <2>18 DEF Fill
      <4>3. [broker[i] EXCEPT !.filled = TRUE] \in [event : Events, plan : Plans, filled : BOOLEAN]
        BY <3>1
      <4>4. broker' \in Seq([event : Events, plan : Plans, filled : BOOLEAN])
        BY <4>2, <4>3
      <4>5. QED
        BY <2>18, <4>1, <4>4 DEF Fill
    <3>4. QED
      BY <2>18, <3>3 DEF Fill
  <2>19. ASSUME Tick PROVE OutsideOK /\ WorkersOK /\ TablesOK
    BY <2>19 DEF Tick
  <2>20. ASSUME Switching \/ RedisLoss PROVE OutsideOK /\ WorkersOK /\ TablesOK
    <3>1. queue' \in Seq(Events)
      BY <2>20, EmptySeq DEF Switching, RedisLoss
    <3>2. QED
      BY <2>20, <3>1 DEF Switching, RedisLoss
  <2>21. OutsideOK /\ WorkersOK /\ TablesOK
    BY <1>2, <2>1, <2>2, <2>3, <2>4, <2>5, <2>6, <2>7, <2>8, <2>9, <2>10, <2>11, <2>12, <2>13,
       <2>14, <2>15, <2>16, <2>17, <2>18, <2>19, <2>20
       DEF Step, Handling
  <2>22. QED
    BY <2>21
<1>3. QED
  BY <1>1, <1>2

PipelineType == TypeOK /\ IsFiniteSet(orders)

LEMMA TypeParts == PipelineType <=> ItemsType /\ KS!TypeOK
  BY DEF PipelineType, TypeOK, ItemsType

-----------------------------------------------------------------------------
(* INV-2.  Asking and acting are many steps apart; what keeps the switch off *)
(* in between is the write lock, which a worker holds from the moment it     *)
(* reads the orders to its commit, and without which no request changes the  *)
(* switch.                                                                   *)
Inside == {"gate", "validate", "reject", "place", "insert", "commit"}

GateOK(v) ==
  /\ pc[v] \in Inside => lock = v
  /\ lock = v => pc[v] \in Inside \cup {"unwind"}
  /\ rpc[v] # "idle" => pc[v] \in {"precheck", "gate"}
  /\ pc[v] = "gate" /\ rpc[v] = "db" => ~redis
  /\ pc[v] \in {"validate", "place", "insert", "commit"} => ~KS!Active(v)

GateInv == \A v \in Workers : GateOK(v)

(* What the gate needs to know of the switch, whoever else reads it.         *)
Watched ==
  /\ KSP!HolderWrites
  /\ redis \in BOOLEAN /\ latest \in BOOLEAN
  /\ \A v \in Workers : /\ v \in DOMAIN env /\ v \in DOMAIN rpc /\ v \in DOMAIN source
                        /\ env[v] \in BOOLEAN
                        /\ rpc[v] \in {"redis", "db"} => ~env[v]

(* A step of somebody else, who does not write while a worker has the lock.  *)
Outside ==
  /\ UNCHANGED pc
  /\ \A v \in Workers : /\ env'[v] = env[v] /\ rpc'[v] = rpc[v]
                        /\ lock = v <=> lock' = v
                        /\ lock = v => (redis' => redis) /\ (latest' => latest)

LEMMA GateStep ==
  pc \in [Workers -> Control] /\ GateInv /\ Watched /\ (Step \/ Outside) => GateInv'
<1> SUFFICES ASSUME pc \in [Workers -> Control], GateInv, Watched, Step \/ Outside,
                    NEW v \in Workers
             PROVE  GateOK(v)'
  BY DEF GateInv
<1>1. /\ GateOK(v)
      /\ \A u \in Workers : GateOK(u)
      /\ \A q \in Requests : wpc[q] \in {"redis", "commit"} <=> lock = q
  BY DEF GateInv, Watched, KSP!HolderWrites
<1> USE <1>1, PipelineAssumption DEF Watched, GateOK, KS!Active, Inside, Control, switch, Goto,
        KS!shared, KS!writers, KS!readers
<1>2. CASE Outside
  BY <1>2 DEF Outside
<1>3. ASSUME NEW w \in Workers, Ask(w) PROVE GateOK(v)'
  BY <1>3 DEF Ask, KS!Call
<1>4. ASSUME NEW w \in Workers, Hear(w) PROVE GateOK(v)'
  <2>1. ASSUME KS!ReadEnv(w) \/ KS!ReadRedis(w), rpc'[w] = "idle" PROVE GateOK(v)'
    <3>1. source'[w] # "inactive"
      BY <2>1 DEF KS!ReadEnv, KS!ReadRedis, KS!Return, KS!GoOn
    <3>2. pc' = [pc EXCEPT ![w] = IF pc[w] = "precheck" THEN "stopped" ELSE "reject"]
      BY <1>4, <2>1, <3>1 DEF Hear
    <3>3. QED
      BY <1>4, <2>1, <3>2 DEF Hear, KS!ReadEnv, KS!ReadRedis, KS!Return, KS!GoOn
  <2>2. ASSUME KS!ReadEnv(w) \/ KS!ReadRedis(w), rpc'[w] # "idle" PROVE GateOK(v)'
    <3>1. pc' = pc
      BY <1>4, <2>2 DEF Hear
    <3>2. QED
      BY <1>4, <2>2, <3>1 DEF Hear, KS!ReadEnv, KS!ReadRedis, KS!Return, KS!GoOn
  <2>3. CASE KS!ReadLatest(w)
    BY <1>4, <2>3 DEF Hear, KS!ReadLatest, KS!Return
  <2>4. QED
    BY <1>4, <2>1, <2>2, <2>3 DEF Hear
<1>5. ASSUME NEW w \in Workers,
             Pop(w) \/ PopNothing(w) \/ Skip(w) \/ Evaluate(w) \/ Record(w) \/ ReadBroker(w)
             \/ LockTimeout(w)
      PROVE  GateOK(v)'
  BY <1>5 DEF Pop, PopNothing, Skip, Evaluate, Record, ReadBroker, LockTimeout
<1>6. ASSUME NEW w \in Workers, ReadOrders(w) PROVE GateOK(v)'
  BY <1>6 DEF ReadOrders, KS!TakeLock
<1>7. ASSUME NEW w \in Workers, NotPermitted(w) \/ Validate(w) \/ Place(w) \/ Insert(w)
      PROVE  GateOK(v)'
  BY <1>7 DEF NotPermitted, Validate, Place, Insert
<1>8. ASSUME NEW w \in Workers, Reject(w) \/ Commit(w) \/ Unwind(w) PROVE GateOK(v)'
  BY <1>8 DEF Reject, Commit, Unwind, EndSession, KS!ReleaseLock
<1>9. ASSUME NEW w \in Workers, Fail(w) PROVE GateOK(v)'
  BY <1>9 DEF Fail, KS!Restart
<1>10. ASSUME NEW w \in Workers, Start(w) PROVE GateOK(v)'
  BY <1>10 DEF Start, KS!Restart
<1>11. ASSUME NEW e \in Events, Publish(e) \/ Replay(e) PROVE GateOK(v)'
  BY <1>11 DEF Publish, Replay
<1>12. ASSUME NEW i \in DOMAIN broker, Fill(i) PROVE GateOK(v)'
  BY <1>12 DEF Fill
<1>13. CASE Tick
  BY <1>13 DEF Tick
<1>14. ASSUME NEW q \in Requests, KS!Writing(q), pc' = pc PROVE GateOK(v)'
  <2>1. lock = v => lock # q
    OBVIOUS
  <2>2. CASE KS!Activate(q) \/ KS!LockTimeout(q)
    BY <1>14, <2>2 DEF KS!Activate, KS!LockTimeout
  <2>3. ASSUME NEW confirm, NEW reason, KS!Deactivate(q, confirm, reason) PROVE GateOK(v)'
    BY <1>14, <2>3 DEF KS!Deactivate
  <2>4. CASE KS!Flush(q)
    BY <1>14, <2>4 DEF KS!Flush
  <2>5. CASE KS!WriteRedis(q)
    BY <1>14, <2>1, <2>5 DEF KS!WriteRedis
  <2>6. CASE KS!Commit(q)
    BY <1>14, <2>1, <2>6 DEF KS!Commit
  <2>7. CASE KS!Abort(q)
    BY <1>14, <2>1, <2>7 DEF KS!Abort
  <2>8. QED
    BY <1>14, <2>2, <2>3, <2>4, <2>5, <2>6, <2>7 DEF KS!Writing
<1>15. CASE KS!RedisLoss /\ pc' = pc
  BY <1>15 DEF KS!RedisLoss
<1>16. CASE Step
  BY <1>3, <1>4, <1>5, <1>6, <1>7, <1>8, <1>9, <1>10, <1>11, <1>12, <1>13, <1>14, <1>15, <1>16
     DEF Step, Handling, Switching, RedisLoss
<1>17. QED
  BY <1>2, <1>16

-----------------------------------------------------------------------------
(* INV-6.  What the worker found in the orders table is still true when it   *)
(* commits, because nobody else commits an order while it holds the lock.    *)
Fresh(v) == \A o \in orders : o.event # job[v].event

SeenOK(v) ==
  /\ pc[v] \in {"gate", "validate"} /\ ~job[v].seen => Fresh(v)
  /\ pc[v] \in {"place", "insert", "commit"} => Fresh(v)

OrderInv == OneOrderPerEvent /\ \A v \in Workers : SeenOK(v)

LEMMA OrderStep ==
  ItemsType /\ GateInv /\ OrderInv /\ (Step \/ Elsewhere) => OrderInv'
<1> SUFFICES ASSUME ItemsType, GateInv, OrderInv, Step \/ Elsewhere
             PROVE  OrderInv'
  OBVIOUS
<1>1. /\ pc \in [Workers -> Control]
      /\ job \in [Workers -> Jobs]
      /\ \A u \in Workers : pc[u] \in Inside => lock = u
  BY DEF ItemsType, GateInv, GateOK
<1> USE <1>1 DEF OrderInv, SeenOK, Fresh, Goto, Inside, database
<1>2. CASE orders' = orders /\ job' = job /\ pc' = pc
  BY <1>2 DEF OneOrderPerEvent
<1>3. ASSUME NEW w \in Workers, Commit(w) PROVE OrderInv'
  <2> DEFINE row == [event |-> job[w].event, strategy |-> job[w].plan.strategy,
                     externalId |-> job[w].receipt, stamp |-> job[w].stamp,
                     now |-> job[w].now]
  <2>1. orders' = orders \cup {row} /\ pc' = [pc EXCEPT ![w] = "precheck"]
        /\ job' = [job EXCEPT ![w] = NoJob]
    BY <1>3 DEF Commit
  <2>2. \A o \in orders : o.event # row.event
    BY <1>3 DEF Commit
  <2>3. \A v \in Workers : v # w => pc[v] \notin Inside
    BY <1>3 DEF Commit
  <2>4. OneOrderPerEvent'
    BY <2>1, <2>2 DEF OneOrderPerEvent
  <2>5. QED
    BY <2>1, <2>3, <2>4
<1>4. ASSUME NEW w \in Workers, orders' = orders,
             \A v \in Workers : v # w => pc'[v] = pc[v] /\ job'[v] = job[v],
             SeenOK(w)'
      PROVE  OrderInv'
  BY <1>4 DEF OneOrderPerEvent
<1>5. ASSUME NEW w \in Workers,
             Pop(w) \/ PopNothing(w) \/ Skip(w) \/ Record(w) \/ ReadBroker(w) \/ LockTimeout(w)
             \/ Reject(w) \/ Unwind(w) \/ Fail(w) \/ Start(w)
      PROVE  OrderInv'
  BY <1>4, <1>5 DEF Pop, PopNothing, Skip, Record, ReadBroker, LockTimeout, Reject, Unwind,
                    Fail, Start
<1>6. ASSUME NEW w \in Workers, Hear(w) \/ NotPermitted(w)
      PROVE  OrderInv'
  BY <1>4, <1>6 DEF Hear, NotPermitted
<1>7. ASSUME NEW w \in Workers, Evaluate(w) PROVE OrderInv'
  BY <1>4, <1>7 DEF Evaluate
<1>8. ASSUME NEW w \in Workers, ReadOrders(w) PROVE OrderInv'
  <2>1. /\ job'[w].seen = \E o \in orders : o.event = job[w].event
        /\ job'[w].event = job[w].event
        /\ pc'[w] = "gate"
    BY <1>8 DEF ReadOrders, Jobs
  <2>2. orders' = orders /\ \A v \in Workers : v # w => pc'[v] = pc[v] /\ job'[v] = job[v]
    BY <1>8 DEF ReadOrders
  <2>3. SeenOK(w)'
    BY <2>1, <2>2
  <2>4. QED
    BY <1>4, <2>2, <2>3
<1>9. ASSUME NEW w \in Workers, Validate(w) PROVE OrderInv'
  <2>1. job'[w].event = job[w].event
    BY <1>9 DEF Validate, Jobs
  <2>2. pc'[w] = "place" => ~job[w].seen
    BY <1>9 DEF Validate, Validated, Failures, Idempotency
  <2>3. QED
    BY <1>4, <1>9, <2>1, <2>2 DEF Validate
<1>10. ASSUME NEW w \in Workers, Place(w) \/ Insert(w) PROVE OrderInv'
  <2>1. job'[w].event = job[w].event
    BY <1>10 DEF Place, Insert, Jobs
  <2>2. QED
    BY <1>4, <1>10, <2>1 DEF Place, Insert
<1>11. CASE Step
  <2>1. ASSUME NEW w \in Workers, Ask(w) PROVE OrderInv'
    BY <1>2, <2>1 DEF Ask
  <2>2. ASSUME NEW e \in Events, Publish(e) \/ Replay(e) PROVE OrderInv'
    BY <1>2, <2>2 DEF Publish, Replay
  <2>3. ASSUME NEW i \in DOMAIN broker, Fill(i) PROVE OrderInv'
    BY <1>2, <2>3 DEF Fill
  <2>4. CASE Tick \/ Switching \/ RedisLoss
    BY <1>2, <2>4 DEF Tick, Switching, RedisLoss
  <2>5. QED
    BY <1>3, <1>5, <1>6, <1>7, <1>8, <1>9, <1>10, <1>11, <2>1, <2>2, <2>3, <2>4
       DEF Step, Handling
<1>12. QED
  BY <1>2, <1>11 DEF Elsewhere

-----------------------------------------------------------------------------
(* A second order at the broker.  The receipt of a worker and the external   *)
(* id of a row point to an order of their own event.                         *)
ReceiptOK(v) ==
  pc[v] \in {"insert", "commit"} =>
    job[v].receipt \in DOMAIN broker /\ broker[job[v].receipt].event = job[v].event

LossInv ==
  /\ SecondOnlyAfterLoss
  /\ \A v \in Workers : ReceiptOK(v)
  /\ \A o \in orders : o.externalId \in DOMAIN broker /\ broker[o.externalId].event = o.event

(* A step that appends an order for the event of w, which has no row, and     *)
(* lets nobody else hold a receipt.                                          *)
LEMMA AppendKeeps ==
  ASSUME ItemsType, LossInv, NEW w \in Workers, Fresh(w), broker' = Accepted(w), orders' = orders,
         \A v \in Workers : v # w => pc'[v] \notin {"insert", "commit"},
         pc'[w] = "insert" => /\ job'[w].receipt = Len(broker) + 1
                              /\ job'[w].event = job[w].event,
         pc'[w] # "commit", pc[w] # "insert", pc[w] # "commit",
         \A v \in Workers : v # w => pc[v] \notin {"insert", "commit"}
  PROVE  LossInv'
<1>1. /\ DOMAIN broker = 1 .. Len(broker) /\ Len(broker) \in Nat
      /\ DOMAIN broker' = 1 .. Len(broker) + 1
      /\ \A i \in DOMAIN broker : broker'[i] = broker[i]
      /\ broker'[Len(broker) + 1].event = job[w].event
  BY DEF ItemsType, Accepted
<1>2. \A o \in orders : o.externalId \in DOMAIN broker' /\ broker'[o.externalId].event = o.event
  BY <1>1 DEF LossInv
<1>3. \A v \in Workers : ReceiptOK(v)'
  BY <1>1 DEF ReceiptOK
<1>4. SecondOnlyAfterLoss'
  <2> SUFFICES ASSUME NEW i \in DOMAIN broker', NEW j \in DOMAIN broker', i < j,
                      broker'[i].event = broker'[j].event
               PROVE  ~Recorded(i)' /\ ~InHand(i)'
    BY DEF SecondOnlyAfterLoss
  <2>1. i \in DOMAIN broker
    BY <1>1
  <2>2. ~InHand(i)'
    BY <1>1, <2>1 DEF InHand
  <2>3. CASE j \in DOMAIN broker
    BY <1>1, <2>1, <2>2, <2>3 DEF LossInv, SecondOnlyAfterLoss, Recorded
  <2>4. CASE j = Len(broker) + 1
    <3>1. broker[i].event = job[w].event
      BY <1>1, <2>1, <2>4
    <3>2. QED
      BY <2>2, <3>1 DEF LossInv, Recorded, Fresh
  <2>5. QED
    BY <1>1, <2>3, <2>4
<1>5. QED
  BY <1>2, <1>3, <1>4 DEF LossInv

(* A step that leaves the order book alone, up to fills, and gives nobody a  *)
(* receipt or a row that was not there.                                      *)
LEMMA BookKeeps ==
  ASSUME LossInv, DOMAIN broker' = DOMAIN broker,
         \A i \in DOMAIN broker : broker'[i].event = broker[i].event,
         \A v \in Workers : pc'[v] \in {"insert", "commit"} =>
            /\ pc[v] \in {"insert", "commit"}
            /\ job'[v].receipt = job[v].receipt /\ job'[v].event = job[v].event,
         \A o \in orders' : o \in orders \/ \E v \in Workers :
            pc[v] = "commit" /\ o.externalId = job[v].receipt /\ o.event = job[v].event
  PROVE  LossInv'
<1>1. \A v \in Workers : ReceiptOK(v)'
  BY DEF LossInv, ReceiptOK
<1>2. \A o \in orders' : o.externalId \in DOMAIN broker' /\ broker'[o.externalId].event = o.event
  BY DEF LossInv, ReceiptOK
<1>3. ASSUME NEW i, Recorded(i)' \/ InHand(i)' PROVE Recorded(i) \/ InHand(i)
  BY <1>3 DEF Recorded, InHand
<1>4. SecondOnlyAfterLoss'
  BY <1>3 DEF LossInv, SecondOnlyAfterLoss
<1>5. QED
  BY <1>1, <1>2, <1>4 DEF LossInv

LEMMA LossStep ==
  ItemsType /\ GateInv /\ OrderInv /\ LossInv /\ (Step \/ Elsewhere) => LossInv'
<1> SUFFICES ASSUME ItemsType, GateInv, OrderInv, LossInv, Step \/ Elsewhere
             PROVE  LossInv'
  OBVIOUS
<1>1. /\ pc \in [Workers -> Control]
      /\ job \in [Workers -> Jobs]
      /\ \A u \in Workers : pc[u] \in Inside => lock = u
  BY DEF ItemsType, GateInv, GateOK
<1> USE <1>1 DEF Goto, Inside, database, world
<1>2. CASE UNCHANGED <<broker, orders, job, pc>>
  BY <1>2, BookKeeps
<1>3. ASSUME NEW w \in Workers,
             Pop(w) \/ PopNothing(w) \/ Skip(w) \/ Evaluate(w) \/ Record(w) \/ ReadBroker(w)
             \/ ReadOrders(w)
      PROVE  LossInv'
  BY <1>3, BookKeeps DEF Pop, PopNothing, Skip, Evaluate, Record, ReadBroker, ReadOrders
<1>4. ASSUME NEW w \in Workers,
             Hear(w) \/ LockTimeout(w) \/ NotPermitted(w) \/ Validate(w) \/ Reject(w) \/ Unwind(w)
             \/ Start(w)
      PROVE  LossInv'
  BY <1>4, BookKeeps DEF Hear, LockTimeout, NotPermitted, Validate, Reject, Unwind, Start
<1>5. ASSUME NEW w \in Workers, pc[w] = "place" PROVE Fresh(w)
  BY <1>5 DEF OrderInv, SeenOK
<1>6. ASSUME NEW w \in Workers, Place(w) PROVE LossInv'
  <2>1. job'[w].receipt = Len(broker) + 1 /\ job'[w].event = job[w].event
    BY <1>6 DEF Place, Jobs
  <2>2. \A v \in Workers : v # w => pc[v] \notin Inside /\ pc'[v] = pc[v]
    BY <1>6 DEF Place
  <2>3. pc[w] = "place" /\ pc'[w] = "insert" /\ broker' = Accepted(w) /\ orders' = orders
    BY <1>6 DEF Place
  <2>4. QED
    BY <1>5, <2>1, <2>2, <2>3, AppendKeeps
<1>7. ASSUME NEW w \in Workers, Fail(w) PROVE LossInv'
  <2>1. pc' = [pc EXCEPT ![w] = "unwind"] /\ job' = job /\ orders' = orders
    BY <1>7 DEF Fail
  <2>2. CASE broker' = broker
    BY <2>1, <2>2, BookKeeps
  <2>3. CASE pc[w] = "place" /\ broker' = Accepted(w)
    <3>1. \A v \in Workers : v # w => pc[v] \notin Inside /\ pc'[v] = pc[v]
      BY <2>1, <2>3
    <3>2. QED
      BY <1>5, <2>1, <2>3, <3>1, AppendKeeps
  <2>4. QED
    BY <1>7, <2>2, <2>3 DEF Fail
<1>8. ASSUME NEW w \in Workers, Insert(w) PROVE LossInv'
  <2>1. job'[w].receipt = job[w].receipt /\ job'[w].event = job[w].event
    BY <1>8 DEF Insert, Jobs
  <2>2. QED
    BY <1>8, <2>1, BookKeeps DEF Insert
<1>9. ASSUME NEW w \in Workers, Commit(w) PROVE LossInv'
  BY <1>9, BookKeeps DEF Commit
<1>10. ASSUME NEW i \in DOMAIN broker, Fill(i) PROVE LossInv'
  <2>1. /\ DOMAIN broker' = DOMAIN broker
        /\ \A k \in DOMAIN broker : broker'[k].event = broker[k].event
    BY <1>10 DEF Fill, ItemsType
  <2>2. QED
    BY <1>10, <2>1, BookKeeps DEF Fill
<1>11. CASE Step
  <2>1. ASSUME NEW w \in Workers, Ask(w) PROVE LossInv'
    BY <1>2, <2>1 DEF Ask
  <2>2. ASSUME NEW e \in Events, Publish(e) \/ Replay(e) PROVE LossInv'
    BY <1>2, <2>2 DEF Publish, Replay
  <2>3. CASE Tick \/ Switching \/ RedisLoss
    BY <1>2, <2>3 DEF Tick, Switching, RedisLoss
  <2>4. QED
    BY <1>3, <1>4, <1>6, <1>7, <1>8, <1>9, <1>10, <1>11, <2>1, <2>2, <2>3 DEF Step, Handling
<1>12. QED
  BY <1>2, <1>11 DEF Elsewhere

-----------------------------------------------------------------------------
(* The cap on trades, for an order validated on the day of its row.  The     *)
(* count of the orders table that the risk rule compared with the cap is     *)
(* still exact when the order is committed, and the external id of the new   *)
(* row is larger than those of the table.                                    *)
Counted(now) == {o \in orders : InWindow(o.stamp, now)}

CapOK(v) ==
  /\ pc[v] \in {"gate", "validate", "place", "insert", "commit"} =>
        job[v].trades = Cardinality(Counted(job[v].now))
  /\ pc[v] \in {"place", "insert", "commit"} => job[v].trades < MaxTradesPerDay

UpTo(o) == {p \in TradesOf(Day(o.stamp)) : p.externalId <= o.externalId}

InCap(o) ==
  ~FirstSecond(o.stamp) /\ Day(o.now) = Day(o.stamp) => Cardinality(UpTo(o)) <= MaxTradesPerDay

CapInv == (\A o \in orders : InCap(o)) /\ \A v \in Workers : CapOK(v)

Latest(v) == pc[v] \in {"insert", "commit"} => \A o \in orders : o.externalId < job[v].receipt

LatestInv == \A v \in Workers : Latest(v)

LEMMA LatestStep ==
  ItemsType /\ GateInv /\ LossInv /\ LatestInv /\ (Step \/ Elsewhere) => LatestInv'
<1> SUFFICES ASSUME ItemsType, GateInv, LossInv, LatestInv, Step \/ Elsewhere
             PROVE  LatestInv'
  OBVIOUS
<1>1. /\ pc \in [Workers -> Control]
      /\ job \in [Workers -> Jobs]
      /\ \A u \in Workers : pc[u] \in Inside => lock = u
  BY DEF ItemsType, GateInv, GateOK
<1> USE <1>1 DEF LatestInv, Latest, Goto, Inside, database
<1>2. CASE orders' = orders /\ job' = job /\ pc' = pc
  BY <1>2
<1>3. ASSUME NEW w \in Workers,
             Hear(w) \/ Pop(w) \/ PopNothing(w) \/ Skip(w) \/ Evaluate(w) \/ Record(w)
             \/ ReadBroker(w) \/ ReadOrders(w) \/ LockTimeout(w) \/ NotPermitted(w)
             \/ Validate(w) \/ Reject(w) \/ Unwind(w) \/ Fail(w) \/ Start(w)
      PROVE  LatestInv'
  <2>1. orders' = orders /\ \A v \in Workers : v # w => pc'[v] = pc[v] /\ job'[v] = job[v]
    BY <1>3 DEF Hear, Pop, PopNothing, Skip, Evaluate, Record, ReadBroker, ReadOrders,
                LockTimeout, NotPermitted, Validate, Reject, Unwind, Fail, Start
  <2>2. pc'[w] \in {"insert", "commit"} => pc[w] = pc'[w] /\ job'[w] = job[w]
    BY <1>3 DEF Hear, Pop, PopNothing, Skip, Evaluate, Record, ReadBroker, ReadOrders,
                LockTimeout, NotPermitted, Validate, Reject, Unwind, Fail, Start
  <2>3. QED
    BY <2>1, <2>2
<1>4. ASSUME NEW w \in Workers, Place(w) PROVE LatestInv'
  <2>1. /\ job'[w].receipt = Len(broker) + 1
        /\ orders' = orders /\ \A v \in Workers : v # w => pc'[v] = pc[v] /\ job'[v] = job[v]
    BY <1>4 DEF Place, Jobs
  <2>2. Len(broker) \in Nat /\ DOMAIN broker = 1 .. Len(broker)
    BY DEF ItemsType
  <2>3. \A o \in orders : o.externalId \in DOMAIN broker
    BY DEF LossInv
  <2>4. QED
    BY <2>1, <2>2, <2>3
<1>5. ASSUME NEW w \in Workers, Insert(w) PROVE LatestInv'
  <2>1. pc[w] = "insert" /\ job'[w].receipt = job[w].receipt
    BY <1>5 DEF Insert, Jobs
  <2>2. orders' = orders /\ \A v \in Workers : v # w => pc'[v] = pc[v] /\ job'[v] = job[v]
    BY <1>5 DEF Insert
  <2>3. QED
    BY <2>1, <2>2
<1>6. ASSUME NEW w \in Workers, Commit(w) PROVE LatestInv'
  <2>1. \A v \in Workers : pc'[v] \notin {"insert", "commit"}
    BY <1>6 DEF Commit
  <2>2. QED
    BY <2>1
<1>7. CASE Step
  <2>1. ASSUME NEW w \in Workers, Ask(w) PROVE LatestInv'
    BY <1>2, <2>1 DEF Ask
  <2>2. ASSUME NEW e \in Events, Publish(e) \/ Replay(e) PROVE LatestInv'
    BY <1>2, <2>2 DEF Publish, Replay
  <2>3. ASSUME NEW i \in DOMAIN broker, Fill(i) PROVE LatestInv'
    BY <1>2, <2>3 DEF Fill
  <2>4. CASE Tick \/ Switching \/ RedisLoss
    BY <1>2, <2>4 DEF Tick, Switching, RedisLoss
  <2>5. QED
    BY <1>3, <1>4, <1>5, <1>6, <1>7, <2>1, <2>2, <2>3, <2>4 DEF Step, Handling
<1>8. QED
  BY <1>2, <1>7 DEF Elsewhere

(* A day has two instants.  Every order of a day after its first second is   *)
(* in the window in which a worker counts on that day.                       *)
LEMMA DayOfStamp ==
  ASSUME NEW t \in Nat
  PROVE  /\ Day(t) \in Nat
         /\ t = 2 * Day(t) \/ t = 2 * Day(t) + 1
  BY DEF Day

LEMMA TradesCounted ==
  ASSUME ItemsType, NEW now \in Nat
  PROVE  TradesOf(Day(now)) \subseteq Counted(now)
<1>1. \A o \in orders : o.stamp \in Nat
  BY DEF ItemsType, Rows
<1>2. QED
  BY <1>1, DayOfStamp DEF TradesOf, Counted, InWindow, FirstSecond

LEMMA TradesFinite ==
  ASSUME ItemsType, NEW d
  PROVE  IsFiniteSet(TradesOf(d)) /\ Cardinality(TradesOf(d)) \in Nat
<1>1. IsFiniteSet(TradesOf(d))
  BY FS_Subset DEF ItemsType, TradesOf
<1>2. QED
  BY <1>1, FS_CardinalityType

(* One more element. *)
LEMMA OneMore ==
  ASSUME NEW S, IsFiniteSet(S), NEW x, NEW T, T = S \cup {x}
  PROVE  /\ IsFiniteSet(T)
         /\ Cardinality(S) \in Nat /\ Cardinality(T) \in Nat
         /\ Cardinality(T) <= Cardinality(S) + 1
<1>1. /\ IsFiniteSet(T) /\ Cardinality(S) \in Nat
      /\ Cardinality(T) = IF x \in S THEN Cardinality(S) ELSE Cardinality(S) + 1
  BY FS_AddElement, FS_CardinalityType
<1>2. QED
  BY <1>1

(* While the table stands still, so do its counts. *)
LEMMA CapStill ==
  ASSUME CapInv, orders' = orders,
         \A v \in Workers : \/ pc'[v] \notin {"gate", "validate", "place", "insert", "commit"}
                            \/ /\ pc[v] \in {"gate", "validate", "place", "insert", "commit"}
                               /\ job'[v].trades = job[v].trades
                               /\ job'[v].now = job[v].now
                               /\ pc'[v] \in {"place", "insert", "commit"} =>
                                    job[v].trades < MaxTradesPerDay
                            \/ /\ pc'[v] = "gate"
                               /\ job'[v].trades = Cardinality(Counted(job'[v].now))
  PROVE  CapInv'
<1>1. \A o \in orders' : InCap(o)'
  BY DEF CapInv, InCap, UpTo, TradesOf
<1>2. ASSUME NEW v \in Workers PROVE CapOK(v)'
  <2>1. Counted(job[v].now)' = Counted(job'[v].now)
    BY DEF Counted
  <2>2. job'[v].now = job[v].now => Counted(job'[v].now) = Counted(job[v].now)
    OBVIOUS
  <2>3. QED
    BY <2>1, <2>2 DEF CapInv, CapOK
<1>3. QED
  BY <1>1, <1>2 DEF CapInv

(* A commit adds one row to a table whose count is below the cap.            *)
Row(w) == [event |-> job[w].event, strategy |-> job[w].plan.strategy,
           externalId |-> job[w].receipt, stamp |-> job[w].stamp, now |-> job[w].now]

LEMMA BelowCap ==
  ASSUME ItemsType, CapInv, NEW w \in Workers, pc[w] = "commit"
  PROVE  /\ IsFiniteSet(Counted(job[w].now))
         /\ Cardinality(Counted(job[w].now)) \in Nat
         /\ Cardinality(Counted(job[w].now)) < MaxTradesPerDay
<1>1. Cardinality(Counted(job[w].now)) < MaxTradesPerDay
  BY DEF CapInv, CapOK
<1>2. IsFiniteSet(Counted(job[w].now))
  BY FS_Subset DEF Counted, ItemsType
<1>3. QED
  BY <1>1, <1>2, FS_CardinalityType

LEMMA CapCommit ==
  ASSUME ItemsType, GateInv, LatestInv, CapInv, NEW w \in Workers, Commit(w)
  PROVE  CapInv'
<1>1. PICK row : /\ pc[w] = "commit" /\ orders' = orders \cup {row}
                 /\ row.now = job[w].now /\ row.stamp = job[w].stamp
                 /\ row.externalId = job[w].receipt
  <2>1. /\ pc[w] = "commit" /\ orders' = orders \cup {Row(w)}
        /\ Row(w).now = job[w].now /\ Row(w).stamp = job[w].stamp
        /\ Row(w).externalId = job[w].receipt
    BY DEF Commit, Row
  <2>2. QED
    BY <2>1
<1>2. \A v \in Workers : pc'[v] \notin Inside
  BY DEF Commit, Goto, GateInv, GateOK, Inside, ItemsType
<1>3. /\ row.now \in Nat /\ row.stamp \in Nat /\ row.externalId \in Nat
      /\ \A p \in orders : p.externalId \in Nat /\ p.externalId < row.externalId
  BY <1>1, JobTypes DEF ItemsType, LatestInv, Latest, Rows
<1>4. ASSUME NEW o \in orders PROVE InCap(o)'
  <2>1. UpTo(o)' = UpTo(o)
    BY <1>1, <1>3 DEF UpTo, TradesOf
  <2>2. QED
    BY <2>1 DEF CapInv, InCap
<1>5. InCap(row)'
  <2> SUFFICES ASSUME Day(row.now) = Day(row.stamp)
               PROVE  Cardinality(UpTo(row))' <= MaxTradesPerDay
    BY DEF InCap
  <2> DEFINE S == UpTo(row)'
             T == Counted(row.now) \cup {row}
  <2>1. S \subseteq T
    <3>1. TradesOf(Day(row.now)) \subseteq Counted(row.now)
      BY <1>3, TradesCounted
    <3>2. QED
      BY <1>1, <3>1 DEF UpTo, TradesOf
  <2>2. /\ IsFiniteSet(T) /\ Cardinality(T) \in Nat
        /\ Cardinality(T) <= Cardinality(Counted(row.now)) + 1
    BY <1>1, BelowCap, OneMore
  <2>3. Cardinality(S) <= Cardinality(T) /\ Cardinality(S) \in Nat
    BY <2>1, <2>2, FS_Subset, FS_CardinalityType
  <2> HIDE DEF S, T
  <2>4. Cardinality(S) <= MaxTradesPerDay
    BY <1>1, <2>2, <2>3, BelowCap, LimitsAssumption DEF LimitsAssumption
  <2>5. QED
    BY <2>4 DEF S
<1>6. QED
  BY <1>1, <1>2, <1>4, <1>5 DEF CapInv, CapOK, Inside

LEMMA CapStep ==
  ItemsType /\ GateInv /\ LatestInv /\ CapInv /\ (Step \/ Elsewhere) => CapInv'
<1> SUFFICES ASSUME ItemsType, GateInv, LatestInv, CapInv, Step \/ Elsewhere
             PROVE  CapInv'
  OBVIOUS
<1>1. pc \in [Workers -> Control] /\ job \in [Workers -> Jobs]
  BY DEF ItemsType
<1> USE <1>1 DEF Goto, database
<1>2. ASSUME orders' = orders, job' = job, pc' = pc PROVE CapInv'
  BY <1>2, CapStill DEF CapInv, CapOK
<1>3. ASSUME NEW w \in Workers,
             Pop(w) \/ PopNothing(w) \/ Skip(w) \/ Evaluate(w) \/ Record(w) \/ ReadBroker(w)
             \/ LockTimeout(w) \/ NotPermitted(w) \/ Reject(w) \/ Unwind(w) \/ Fail(w) \/ Start(w)
      PROVE  CapInv'
  <2>1. orders' = orders /\ \A v \in Workers : v # w => pc'[v] = pc[v] /\ job'[v] = job[v]
    BY <1>3 DEF Pop, PopNothing, Skip, Evaluate, Record, ReadBroker, LockTimeout, NotPermitted,
                Reject, Unwind, Fail, Start
  <2>2. pc'[w] \notin {"gate", "validate", "place", "insert", "commit"}
    BY <1>3 DEF Pop, PopNothing, Skip, Evaluate, Record, ReadBroker, LockTimeout, NotPermitted,
                Reject, Unwind, Fail, Start
  <2>3. QED
    BY <2>1, <2>2, CapStill DEF CapInv, CapOK
<1>4. ASSUME NEW w \in Workers, Hear(w) PROVE CapInv'
  <2>1. orders' = orders /\ job' = job /\ \A v \in Workers : v # w => pc'[v] = pc[v]
    BY <1>4 DEF Hear
  <2>2. pc'[w] \in {"gate", "validate"} => pc[w] = "gate"
    BY <1>4 DEF Hear
  <2>3. pc'[w] \notin {"place", "insert", "commit"}
    BY <1>4 DEF Hear
  <2>4. QED
    BY <2>1, <2>2, <2>3, CapStill DEF CapInv, CapOK
<1>5. ASSUME NEW w \in Workers, ReadOrders(w) PROVE CapInv'
  <2>1. orders' = orders /\ \A v \in Workers : v # w => pc'[v] = pc[v] /\ job'[v] = job[v]
    BY <1>5 DEF ReadOrders
  <2>2. /\ pc'[w] = "gate"
        /\ job'[w].trades = Cardinality({o \in orders : InWindow(o.stamp, job[w].now)})
        /\ job'[w].now = job[w].now
    BY <1>5 DEF ReadOrders, Jobs
  <2>3. job'[w].trades = Cardinality(Counted(job'[w].now))
    BY <2>2 DEF Counted
  <2>4. QED
    BY <2>1, <2>2, <2>3, CapStill DEF CapInv, CapOK
<1>6. ASSUME NEW w \in Workers, Validate(w) PROVE CapInv'
  <2>1. orders' = orders /\ \A v \in Workers : v # w => pc'[v] = pc[v] /\ job'[v] = job[v]
    BY <1>6 DEF Validate
  <2>2. /\ pc[w] = "validate" /\ pc'[w] \in {"place", "reject"}
        /\ job'[w].trades = job[w].trades /\ job'[w].now = job[w].now
    BY <1>6 DEF Validate, Jobs
  <2>3. pc'[w] = "place" => job[w].trades < MaxTradesPerDay
    BY <1>6 DEF Validate, Validated, Failures, MaxTrades
  <2>4. QED
    BY <2>1, <2>2, <2>3, CapStill DEF CapInv, CapOK
<1>7. ASSUME NEW w \in Workers, Place(w) \/ Insert(w) PROVE CapInv'
  <2>1. orders' = orders /\ \A v \in Workers : v # w => pc'[v] = pc[v] /\ job'[v] = job[v]
    BY <1>7 DEF Place, Insert
  <2>2. /\ pc[w] \in {"place", "insert"} /\ pc'[w] \in {"insert", "commit", "unwind"}
        /\ job'[w].trades = job[w].trades /\ job'[w].now = job[w].now
    BY <1>7 DEF Place, Insert, Jobs
  <2>3. QED
    BY <2>1, <2>2, CapStill DEF CapInv, CapOK
<1>8. CASE Step
  <2>1. ASSUME NEW w \in Workers, Ask(w) PROVE CapInv'
    BY <1>2, <2>1 DEF Ask
  <2>2. ASSUME NEW e \in Events, Publish(e) \/ Replay(e) PROVE CapInv'
    BY <1>2, <2>2 DEF Publish, Replay
  <2>3. ASSUME NEW i \in DOMAIN broker, Fill(i) PROVE CapInv'
    BY <1>2, <2>3 DEF Fill
  <2>4. CASE Tick \/ Switching \/ RedisLoss
    BY <1>2, <2>4 DEF Tick, Switching, RedisLoss
  <2>5. QED
    BY <1>3, <1>4, <1>5, <1>6, <1>7, <1>8, <2>1, <2>2, <2>3, <2>4, CapCommit
       DEF Step, Handling
<1>9. QED
  BY <1>2, <1>8 DEF Elsewhere

-----------------------------------------------------------------------------
(* The cap on trades, for all the orders of a day.  A worker whose clock was *)
(* read before day d is stale for d: the count that it saw was that of an    *)
(* earlier day.  Once d has an order, no worker becomes stale for d any more,*)
(* and one that commits an order on d is stale for d no longer: the orders of*)
(* d beyond the cap use the stale workers up.                                *)
Dated == {"lock", "gate", "validate", "place", "insert", "commit"}

Stale(d) == {v \in Workers : pc[v] \in Dated /\ Day(job[v].now) < d}

Room(d) ==
  TradesOf(d) # {} =>
    Cardinality(TradesOf(d)) + Cardinality(Stale(d)) <= MaxTradesPerDay + Cardinality(Workers) - 1

Timed ==
  /\ \A o \in orders : o.stamp <= clock
  /\ \A v \in Workers :
       /\ pc[v] \in Dated => job[v].now <= clock
       /\ pc[v] = "commit" => job[v].now <= job[v].stamp /\ job[v].stamp <= clock

DayInv == Timed /\ \A d \in Nat : Room(d)

LEMMA StaleFinite ==
  ASSUME NEW d
  PROVE  /\ IsFiniteSet(Workers) /\ Cardinality(Workers) \in Nat
         /\ IsFiniteSet(Stale(d)) /\ Cardinality(Stale(d)) \in Nat
<1>1. IsFiniteSet(Workers)
  BY PipelineAssumption
<1>2. IsFiniteSet(Stale(d))
  BY <1>1, FS_Subset DEF Stale
<1>3. QED
  BY <1>1, <1>2, FS_CardinalityType

(* While the table stands still, the clock goes on, a worker keeps the times *)
(* that it has or takes that of the clock.                                   *)
LEMMA DayStill ==
  ASSUME ItemsType, DayInv, orders' = orders, clock' \in Nat, clock <= clock',
         \A v \in Workers : pc'[v] \in Dated =>
            \/ pc[v] \in Dated /\ job'[v].now = job[v].now
            \/ job'[v].now = clock,
         \A v \in Workers : pc'[v] = "commit" =>
            /\ job'[v].now = job[v].now
            /\ \/ pc[v] = "commit" /\ job'[v].stamp = job[v].stamp
               \/ pc[v] \in Dated /\ job'[v].stamp = clock
  PROVE  DayInv'
<1>1. /\ clock \in Nat
      /\ \A o \in orders : o.stamp \in Nat
      /\ \A v \in Workers : job[v].now \in Nat /\ job[v].stamp \in Nat
  BY JobTypes DEF ItemsType, Rows
<1>2. Timed'
  BY <1>1 DEF DayInv, Timed, Dated
<1>3. ASSUME NEW d \in Nat PROVE Room(d)'
  <2>1. TradesOf(d)' = TradesOf(d)
    BY DEF TradesOf
  <2> SUFFICES ASSUME TradesOf(d) # {}
               PROVE  Cardinality(TradesOf(d)) + Cardinality(Stale(d)')
                        <= MaxTradesPerDay + Cardinality(Workers) - 1
    BY <2>1 DEF Room
  <2>2. Day(clock) >= d
    <3>1. PICK o \in orders : Day(o.stamp) = d
      BY DEF TradesOf
    <3>2. o.stamp \in Nat /\ o.stamp <= clock
      BY <1>1 DEF DayInv, Timed
    <3>3. QED
      BY <1>1, <3>1, <3>2 DEF Day
  <2>3. Stale(d)' \subseteq Stale(d)
    BY <1>1, <2>2, DayOfStamp DEF Stale
  <2>4. Cardinality(Stale(d)') <= Cardinality(Stale(d)) /\ Cardinality(Stale(d)') \in Nat
    BY <2>3, StaleFinite, FS_Subset, FS_CardinalityType
  <2>5. Cardinality(TradesOf(d)) + Cardinality(Stale(d))
          <= MaxTradesPerDay + Cardinality(Workers) - 1
    BY DEF DayInv, Room
  <2>6. QED
    BY <2>4, <2>5, StaleFinite, TradesFinite, LimitsAssumption DEF LimitsAssumption
<1>4. QED
  BY <1>2, <1>3 DEF DayInv

LEMMA DayCommit ==
  ASSUME ItemsType, CapInv, DayInv, NEW w \in Workers, Commit(w)
  PROVE  DayInv'
<1> DEFINE row == Row(w)
<1>1. /\ pc[w] = "commit" /\ orders' = orders \cup {row} /\ clock' = clock
      /\ row.now = job[w].now /\ row.stamp = job[w].stamp
      /\ pc'[w] \notin Dated
      /\ \A v \in Workers : v # w => pc'[v] = pc[v] /\ job'[v] = job[v]
  BY DEF Commit, Row, Goto, Dated, ItemsType, world
<1>2. /\ row.now \in Nat /\ row.stamp \in Nat
      /\ row.now <= row.stamp /\ row.stamp <= clock
  BY <1>1, JobTypes DEF ItemsType, DayInv, Timed
<1> HIDE DEF row
<1>3. Timed'
  BY <1>1, <1>2 DEF DayInv, Timed, Dated
<1>4. ASSUME NEW d \in Nat PROVE Room(d)'
  <2> DEFINE cap == MaxTradesPerDay
             all == Cardinality(Workers)
             n == Cardinality(TradesOf(d))
             m == Cardinality(TradesOf(d)')
             s == Cardinality(Stale(d))
             r == Cardinality(Stale(d)')
  <2>1. Stale(d)' = Stale(d) \ {w}
    BY <1>1 DEF Stale
  <2>2. all \in Nat /\ s \in Nat /\ r \in Nat /\ r <= s /\ (w \in Stale(d) => r = s - 1)
    BY <2>1, StaleFinite, FS_RemoveElement, FS_Subset, FS_CardinalityType
  <2>3. r <= all - 1
    <3>1. IsFiniteSet(Workers \ {w}) /\ Cardinality(Workers \ {w}) = all - 1
      BY StaleFinite, FS_RemoveElement
    <3>2. Stale(d)' \subseteq Workers \ {w}
      BY <2>1 DEF Stale
    <3>3. QED
      BY <3>1, <3>2, FS_Subset
  <2>4. TradesOf(d) = {} \/ n + s <= cap + all - 1
    BY DEF DayInv, Room
  <2>5. n \in Nat /\ cap \in Nat /\ cap >= 1
    BY <1>1, BelowCap, TradesFinite, LimitsAssumption DEF LimitsAssumption
  <2>6. CASE Day(row.stamp) # d \/ FirstSecond(row.stamp)
    <3>1. TradesOf(d)' = TradesOf(d)
      BY <1>1, <2>6 DEF TradesOf
    <3> HIDE DEF cap, all, n, s, r
    <3>2. TradesOf(d) = {} \/ n + r <= cap + all - 1
      BY <2>2, <2>4, <2>5
    <3>3. QED
      BY <3>1, <3>2 DEF Room, cap, all, n, r
  <2>7. CASE Day(row.stamp) = d /\ ~FirstSecond(row.stamp)
    <3>1. TradesOf(d)' = TradesOf(d) \cup {row}
      BY <1>1, <2>7 DEF TradesOf
    <3>2. m \in Nat /\ m <= n + 1
      BY <3>1, TradesFinite, OneMore
    <3>3. TradesOf(d) = {} => n = 0
      BY FS_EmptySet
    <3>4. CASE Day(row.now) = d
      <4>1. TradesOf(d) \subseteq Counted(job[w].now)
        BY <1>1, <1>2, <3>4, TradesCounted
      <4>2. n < cap
        BY <1>1, <4>1, BelowCap, FS_Subset, <2>5
      <4> HIDE DEF cap, all, n, m, r
      <4>3. m + r <= cap + all - 1
        BY <2>2, <2>3, <2>5, <3>2, <4>2
      <4>4. QED
        BY <4>3 DEF Room, cap, all, m, r
    <3>5. CASE Day(row.now) # d
      <4>1. w \in Stale(d)
        <5>1. Day(row.now) < d
          BY <1>2, <2>7, <3>5 DEF Day
        <5>2. QED
          BY <1>1, <5>1 DEF Stale, Dated
      <4> HIDE DEF cap, all, n, m, s, r
      <4>2. m + r <= cap + all - 1
        BY <2>2, <2>3, <2>4, <2>5, <3>2, <3>3, <4>1
      <4>3. QED
        BY <4>2 DEF Room, cap, all, m, r
    <3>6. QED
      BY <3>4, <3>5
  <2>8. QED
    BY <2>6, <2>7
<1>5. QED
  BY <1>3, <1>4 DEF DayInv

LEMMA DayStep ==
  ItemsType /\ CapInv /\ DayInv /\ (Step \/ Elsewhere) => DayInv'
<1> SUFFICES ASSUME ItemsType, CapInv, DayInv, Step \/ Elsewhere
             PROVE  DayInv'
  OBVIOUS
<1>1. pc \in [Workers -> Control] /\ job \in [Workers -> Jobs] /\ clock \in Nat
  BY DEF ItemsType
<1> USE <1>1 DEF Goto, database, world
<1>2. ASSUME orders' = orders, job' = job, pc' = pc, clock' = clock \/ clock' = clock + 1
      PROVE  DayInv'
  BY <1>2, DayStill DEF Dated
<1>3. ASSUME NEW w \in Workers,
             Hear(w) \/ Pop(w) \/ PopNothing(w) \/ Skip(w) \/ Evaluate(w) \/ Record(w)
             \/ LockTimeout(w) \/ NotPermitted(w) \/ Reject(w) \/ Unwind(w) \/ Fail(w)
             \/ Start(w)
      PROVE  DayInv'
  <2>1. /\ orders' = orders /\ clock' = clock
        /\ \A v \in Workers : v # w => pc'[v] = pc[v] /\ job'[v] = job[v]
    BY <1>3 DEF Hear, Pop, PopNothing, Skip, Evaluate, Record, LockTimeout, NotPermitted,
                Reject, Unwind, Fail, Start
  <2>2. /\ pc'[w] \in Dated => pc[w] \in Dated /\ job'[w] = job[w]
        /\ pc'[w] # "commit"
    BY <1>3 DEF Hear, Pop, PopNothing, Skip, Evaluate, Record, LockTimeout, NotPermitted,
                Reject, Unwind, Fail, Start, Dated
  <2>3. QED
    BY <2>1, <2>2, DayStill
<1>4. ASSUME NEW w \in Workers, ReadBroker(w) PROVE DayInv'
  <2>1. /\ orders' = orders /\ clock' = clock
        /\ \A v \in Workers : v # w => pc'[v] = pc[v] /\ job'[v] = job[v]
    BY <1>4 DEF ReadBroker
  <2>2. pc'[w] = "lock" /\ job'[w].now = clock
    BY <1>4 DEF ReadBroker, Jobs
  <2>3. QED
    BY <2>1, <2>2, DayStill
<1>5. ASSUME NEW w \in Workers, ReadOrders(w) \/ Validate(w) \/ Place(w) PROVE DayInv'
  <2>1. /\ orders' = orders /\ clock' = clock
        /\ \A v \in Workers : v # w => pc'[v] = pc[v] /\ job'[v] = job[v]
    BY <1>5 DEF ReadOrders, Validate, Place
  <2>2. pc[w] \in Dated /\ pc'[w] # "commit" /\ job'[w].now = job[w].now
    BY <1>5 DEF ReadOrders, Validate, Place, Jobs, Dated
  <2>3. QED
    BY <2>1, <2>2, DayStill
<1>6. ASSUME NEW w \in Workers, Insert(w) PROVE DayInv'
  <2>1. /\ orders' = orders /\ clock' = clock
        /\ \A v \in Workers : v # w => pc'[v] = pc[v] /\ job'[v] = job[v]
    BY <1>6 DEF Insert
  <2>2. /\ pc[w] \in Dated /\ job'[w].now = job[w].now
        /\ pc'[w] = "commit" => job'[w].stamp = clock
    BY <1>6 DEF Insert, Jobs, Dated
  <2>3. QED
    BY <2>1, <2>2, DayStill
<1>7. CASE Step
  <2>1. ASSUME NEW w \in Workers, Ask(w) PROVE DayInv'
    BY <1>2, <2>1 DEF Ask
  <2>2. ASSUME NEW e \in Events, Publish(e) \/ Replay(e) PROVE DayInv'
    BY <1>2, <2>2 DEF Publish, Replay
  <2>3. ASSUME NEW i \in DOMAIN broker, Fill(i) PROVE DayInv'
    BY <1>2, <2>3 DEF Fill
  <2>4. CASE Tick \/ Switching \/ RedisLoss
    BY <1>2, <2>4 DEF Tick, Switching, RedisLoss
  <2>5. QED
    BY <1>3, <1>4, <1>5, <1>6, <1>7, <2>1, <2>2, <2>3, <2>4, DayCommit DEF Step, Handling
<1>8. QED
  BY <1>2, <1>7 DEF Elsewhere

LEMMA CappedInv == ItemsType /\ CapInv /\ DayInv => CapAfterFirstSecond
<1> SUFFICES ASSUME ItemsType, CapInv, DayInv, NEW o \in orders, ~FirstSecond(o.stamp)
             PROVE  /\ Day(o.now) = Day(o.stamp) => Cardinality(UpTo(o)) <= MaxTradesPerDay
                    /\ Cardinality(TradesOf(Day(o.stamp)))
                         <= MaxTradesPerDay + Cardinality(Workers) - 1
  BY DEF CapAfterFirstSecond, UpTo
<1> DEFINE d == Day(o.stamp)
<1>1. d \in Nat /\ o \in TradesOf(d)
  BY DayOfStamp DEF ItemsType, Rows, TradesOf
<1> HIDE DEF d
<1>2. Cardinality(TradesOf(d)) + Cardinality(Stale(d))
        <= MaxTradesPerDay + Cardinality(Workers) - 1
  BY <1>1 DEF DayInv, Room
<1>3. Cardinality(TradesOf(d)) <= MaxTradesPerDay + Cardinality(Workers) - 1
  BY <1>2, StaleFinite, TradesFinite, LimitsAssumption DEF LimitsAssumption
<1>4. QED
  BY <1>3 DEF d, CapInv, InCap

-----------------------------------------------------------------------------
(* INV-4.  A worker past the risk rules has their rows pending. *)
AuditInv ==
  /\ OrdersAudited
  /\ \A v \in Workers : pc[v] \in {"place", "insert", "commit"} => job[v].checked

LEMMA AuditStep ==
  ItemsType /\ AuditInv /\ (Step \/ Elsewhere) => AuditInv'
<1> SUFFICES ASSUME ItemsType, AuditInv, Step \/ Elsewhere
             PROVE  AuditInv'
  OBVIOUS
<1>1. pc \in [Workers -> Control] /\ job \in [Workers -> Jobs]
  BY DEF ItemsType
<1> USE <1>1 DEF AuditInv, OrdersAudited, Goto, database
<1>2. ASSUME orders' = orders, audit' = audit, job' = job, pc' = pc PROVE AuditInv'
  BY <1>2
<1>3. ASSUME NEW w \in Workers,
             Hear(w) \/ Pop(w) \/ PopNothing(w) \/ Skip(w) \/ Evaluate(w) \/ ReadBroker(w)
             \/ LockTimeout(w) \/ NotPermitted(w) \/ Unwind(w) \/ Fail(w) \/ Start(w)
      PROVE  AuditInv'
  BY <1>3 DEF Hear, Pop, PopNothing, Skip, Evaluate, ReadBroker, LockTimeout, NotPermitted,
              Unwind, Fail, Start
<1>4. ASSUME NEW w \in Workers, ReadOrders(w) PROVE AuditInv'
  <2>1. /\ orders' = orders /\ audit' = audit /\ pc' = [pc EXCEPT ![w] = "gate"]
        /\ \A v \in Workers : v # w => job'[v] = job[v]
    BY <1>4 DEF ReadOrders
  <2>2. QED
    BY <2>1
<1>5. ASSUME NEW w \in Workers, Validate(w) PROVE AuditInv'
  <2>1. job'[w].checked
    BY <1>5 DEF Validate, Jobs
  <2>2. QED
    BY <1>5, <2>1 DEF Validate
<1>6. ASSUME NEW w \in Workers, Place(w) \/ Insert(w) PROVE AuditInv'
  <2>1. job'[w].checked = job[w].checked /\ pc[w] \in {"place", "insert"}
    BY <1>6 DEF Place, Insert, Jobs
  <2>2. QED
    BY <1>6, <2>1 DEF Place, Insert
<1>7. ASSUME NEW w \in Workers, Record(w) \/ Reject(w) PROVE AuditInv'
  BY <1>7 DEF Record, Reject, AuditOf
<1>8. ASSUME NEW w \in Workers, Commit(w) PROVE AuditInv'
  <2>1. /\ audit' = audit \cup {<<job[w].event, "engine">>, <<job[w].event, "risk">>}
        /\ \A o \in orders' : o \in orders \/ o.event = job[w].event
        /\ pc' = [pc EXCEPT ![w] = "precheck"]
        /\ \A v \in Workers : v # w => job'[v] = job[v]
    BY <1>8 DEF Commit, AuditOf
  <2>2. QED
    BY <2>1
<1>9. CASE Step
  <2>1. ASSUME NEW w \in Workers, Ask(w) PROVE AuditInv'
    BY <1>2, <2>1 DEF Ask
  <2>2. ASSUME NEW e \in Events, Publish(e) \/ Replay(e) PROVE AuditInv'
    BY <1>2, <2>2 DEF Publish, Replay
  <2>3. ASSUME NEW i \in DOMAIN broker, Fill(i) PROVE AuditInv'
    BY <1>2, <2>3 DEF Fill
  <2>4. CASE Tick \/ Switching \/ RedisLoss
    BY <1>2, <2>4 DEF Tick, Switching, RedisLoss
  <2>5. QED
    BY <1>3, <1>4, <1>5, <1>6, <1>7, <1>8, <1>9, <2>1, <2>2, <2>3, <2>4 DEF Step, Handling
<1>10. QED
  BY <1>2, <1>9 DEF Elsewhere

-----------------------------------------------------------------------------
(* The theorems, from one inductive invariant. *)
BookInv == OrderInv /\ LossInv /\ LatestInv /\ CapInv /\ DayInv /\ AuditInv

PipelineInv == PipelineType /\ InHandOK /\ GateInv /\ BookInv

LEMMA BookStep == ItemsType /\ GateInv /\ BookInv /\ (Step \/ Elsewhere) => BookInv'
  BY OrderStep, LossStep, LatestStep, CapStep, DayStep, AuditStep DEF BookInv

LEMMA BookInit == Ready => BookInv
<1> SUFFICES ASSUME Ready PROVE BookInv
  OBVIOUS
<1>1. OrderInv
  BY DEF Ready, OrderInv, OneOrderPerEvent, SeenOK
<1>2. LossInv
  BY DEF Ready, LossInv, SecondOnlyAfterLoss, ReceiptOK
<1>3. LatestInv /\ CapInv
  BY DEF Ready, LatestInv, Latest, CapInv, CapOK
<1>4. AuditInv
  <2>1. audit = {} /\ orders = {} /\ \A v \in Workers : pc[v] = "precheck"
    BY DEF Ready
  <2>2. QED
    BY <2>1 DEF AuditInv, OrdersAudited
<1>5. DayInv
  BY DEF Ready, DayInv, Timed, Dated, Room, TradesOf
<1>6. QED
  BY <1>1, <1>2, <1>3, <1>4, <1>5 DEF BookInv

LEMMA ItemsInit == Ready => ItemsType /\ InHandOK
<1>1. Ready => \A w \in Workers : job[w] \in Jobs
  BY JobTypes DEF Ready
<1>2. QED
  BY <1>1, FS_EmptySet DEF Ready, ItemsType, Control, InHandOK, Planned

LEMMA GateInit == Ready /\ lock = Free /\ (\A w \in Workers : rpc[w] = "idle") => GateInv
  BY PipelineAssumption DEF Ready, GateInv, GateOK, Inside

LEMMA PipelineInvInit == Init => PipelineInv
<1> SUFFICES ASSUME Init PROVE PipelineInv
  OBVIOUS
<1>1. PipelineType /\ InHandOK
  <2>1. KS!TypeOK
    BY PipelineAssumption DEF Init, KS!Init, KS!TypeOK
  <2>2. QED
    BY <2>1, ItemsInit, TypeParts DEF Init
<1>2. GateInv
  BY GateInit DEF Init, KS!Init
<1>3. QED
  BY <1>1, <1>2, BookInit DEF Init, PipelineInv

LEMMA PipelineInvariant == Spec => []PipelineInv
<1>1. KSP!SwitchInv => Watched /\ KS!TypeOK
  BY SameType DEF KSP!SwitchInv, KSP!WriteInv, KSP!CallsWatched, KSP!TypeOK, Watched
<1>2. ItemsType /\ [Next]_vars => (Step \/ Elsewhere) /\ (Step \/ Outside)
  BY DEF Next, vars, switch, ItemsType, Elsewhere, Outside
<1>3. PipelineType => pc \in [Workers -> Control]
  BY DEF PipelineType, TypeOK
<1>4. PipelineInv /\ KSP!SwitchInv /\ KSP!SwitchInv' /\ [Next]_vars => PipelineInv'
  <2>1. KSP!SwitchInv' => KS!TypeOK'
    BY SameType DEF KSP!SwitchInv, KSP!WriteInv, KSP!TypeOK, KS!TypeOK
  <2>2. ItemsType' /\ KS!TypeOK' => PipelineType'
    BY DEF PipelineType, TypeOK, ItemsType
  <2>3. QED
    BY <1>1, <1>2, <1>3, <2>1, <2>2, TypeParts, TypeStep, GateStep, BookStep
       DEF PipelineInv, PipelineType
<1>5. QED
  BY <1>4, PipelineInvInit, SwitchInvariant, PTL DEF Spec

(* Type correctness of every state of the pipeline. *)
THEOREM TypeCorrect == Spec => []TypeOK
<1>1. PipelineInv => TypeOK
  BY DEF PipelineInv, PipelineType
<1>2. QED
  BY <1>1, PipelineInvariant, PTL

(* INV-2: while a worker validates or places an order, the kill switch is    *)
(* off, whatever requests, restarts and losses of Redis happen meanwhile.    *)
THEOREM Gate == Spec => []NoOrderWhileActive
<1>1. PipelineInv => NoOrderWhileActive
  BY DEF PipelineInv, GateInv, GateOK, NoOrderWhileActive
<1>2. QED
  BY <1>1, PipelineInvariant, PTL

(* INV-6: an event has one orders row at most, across rules, strategies,     *)
(* replays and workers.                                                      *)
THEOREM OneOrder == Spec => []OneOrderPerEvent
<1>1. PipelineInv => OneOrderPerEvent
  BY DEF PipelineInv, BookInv, OrderInv
<1>2. QED
  BY <1>1, PipelineInvariant, PTL

(* The broker gets a second order for an event only when a crash or an error *)
(* between broker.place_order and the commit lost the first.                 *)
THEOREM OnlyLossRepeats == Spec => []SecondOnlyAfterLoss
<1>1. PipelineInv => SecondOnlyAfterLoss
  BY DEF PipelineInv, BookInv, LossInv
<1>2. QED
  BY <1>1, PipelineInvariant, PTL

(* risk/rules.py, MaxTradesPerDayRule: after the first second of a day, an   *)
(* order validated on the day of its row is one of the first of the day, as  *)
(* many as the cap, and the day has no more orders than the cap and one for  *)
(* each worker but one.                                                      *)
THEOREM Capped == Spec => []CapAfterFirstSecond
<1>1. PipelineInv => CapAfterFirstSecond
  BY TypeParts, CappedInv DEF PipelineInv, BookInv
<1>2. QED
  BY <1>1, PipelineInvariant, PTL

(* INV-4: no orders row without the audit rows of the rule engine and of the *)
(* risk manager, which are committed with it.                                *)
THEOREM Audited == Spec => []OrdersAudited
<1>1. PipelineInv => OrdersAudited
  BY DEF PipelineInv, BookInv, AuditInv
<1>2. QED
  BY <1>1, PipelineInvariant, PTL

-----------------------------------------------------------------------------
(* The events at the broker.  Everything that the pipeline knows of was      *)
(* published; and as long as nobody publishes an event again, it is in one   *)
(* place: on the list, in the hands of one worker, or at the broker, in      *)
(* which case the worker that placed it may not have let go of it yet.       *)
IssuedInv ==
  /\ \A i \in DOMAIN queue : queue[i] \in published
  /\ \A w \in Workers : job[w].event \in published \cup {NoEvent}
  /\ \A k \in DOMAIN broker : broker[k].event \in published
  /\ \A o \in orders : o.event \in published

Placed == {"insert", "commit", "unwind"}

OnePlace ==
  /\ \A i, j \in DOMAIN queue : queue[i] = queue[j] => i = j
  /\ \A v \in Workers, i \in DOMAIN queue : job[v].event # queue[i]
  /\ \A v, w \in Workers : job[v].event = job[w].event => v = w \/ job[v].event = NoEvent
  /\ \A k \in DOMAIN broker, i \in DOMAIN queue : broker[k].event # queue[i]
  /\ \A k \in DOMAIN broker, v \in Workers :
       broker[k].event = job[v].event => pc[v] \in Placed
  /\ NeverSecondOrder

OnceInv == IssuedInv /\ OnePlace

(* A worker goes on with its event, or lets go of it. *)
GoesOn(v) ==
  \/ job'[v].event = NoEvent
  \/ job'[v].event = job[v].event /\ (pc[v] \in Placed => pc'[v] \in Placed)

LEMMA OnlyHands ==
  ASSUME ItemsType, OnceInv, ItemsType', UNCHANGED <<queue, published, broker>>,
         \A v \in Workers : GoesOn(v),
         \A o \in orders' : o \in orders \/ \E v \in Workers : o.event = job[v].event
  PROVE  OnceInv'
<1>1. \A k \in DOMAIN broker : broker[k].event # NoEvent
  BY PipelineAssumption DEF ItemsType, OnceInv, IssuedInv
<1>2. IssuedInv'
  <2>1. \A o \in orders' : o.event # NoEvent
    BY PipelineAssumption DEF ItemsType, Rows
  <2>2. QED
    BY <2>1 DEF OnceInv, IssuedInv, GoesOn
<1>3. \A i \in DOMAIN queue : queue[i] # NoEvent
  BY PipelineAssumption DEF ItemsType, OnceInv, IssuedInv
<1>4. OnePlace'
  BY <1>1, <1>3 DEF OnceInv, OnePlace, GoesOn, NeverSecondOrder
<1>5. QED
  BY <1>2, <1>4 DEF OnceInv

(* The broker accepts the order of the event in hand. *)
LEMMA OneMoreOrder ==
  ASSUME ItemsType, InHandOK, OnceInv, NEW w \in Workers, pc[w] = "place",
         broker' = Accepted(w), UNCHANGED <<queue, published, orders>>,
         pc'[w] \in Placed, job'[w].event = job[w].event,
         \A v \in Workers \ {w} : pc'[v] = pc[v] /\ job'[v] = job[v]
  PROVE  OnceInv'
<1> DEFINE n == Len(broker) + 1
<1>1. job[w].event \in Events /\ job[w].event # NoEvent
  BY PipelineAssumption DEF InHandOK, Planned
<1>2. /\ DOMAIN broker = 1 .. Len(broker) /\ Len(broker) \in Nat
      /\ DOMAIN broker' = DOMAIN broker \cup {n} /\ n \notin DOMAIN broker
      /\ broker'[n].event = job[w].event
      /\ \A k \in DOMAIN broker : broker'[k] = broker[k]
  <2>1. broker \in Seq([event : Events, plan : Plans, filled : BOOLEAN])
    BY DEF ItemsType
  <2>2. QED
    BY <2>1 DEF Accepted
<1>3. \A k \in DOMAIN broker : broker[k].event # job[w].event
  BY DEF OnceInv, OnePlace, Placed
<1> HIDE DEF n
<1>4. IssuedInv'
  BY <1>1, <1>2 DEF OnceInv, IssuedInv
<1>5. OnePlace'
  <2>1. NeverSecondOrder'
    BY <1>2, <1>3 DEF OnceInv, OnePlace, NeverSecondOrder
  <2>2. \A k \in DOMAIN broker', i \in DOMAIN queue : broker'[k].event # queue[i]
    BY <1>2 DEF OnceInv, OnePlace
  <2>3. \A k \in DOMAIN broker', v \in Workers :
          broker'[k].event = job'[v].event => pc'[v] \in Placed
    BY <1>1, <1>2 DEF OnceInv, OnePlace
  <2>4. /\ \A v \in Workers, i \in DOMAIN queue : job'[v].event # queue[i]
        /\ \A u, v \in Workers : job'[u].event = job'[v].event => u = v \/ job'[u].event = NoEvent
    BY DEF OnceInv, OnePlace
  <2>5. QED
    BY <2>1, <2>2, <2>3, <2>4 DEF OnceInv, OnePlace
<1>6. QED
  BY <1>4, <1>5 DEF OnceInv

LEMMA OnceStep ==
  /\ MaxReplays = 0
  /\ ItemsType /\ InHandOK /\ OnceInv /\ ItemsType'
  /\ Step \/ Elsewhere
  => OnceInv'
<1> SUFFICES ASSUME MaxReplays = 0, ItemsType, InHandOK, OnceInv, ItemsType', Step \/ Elsewhere
             PROVE  OnceInv'
  OBVIOUS
<1> USE DEF Goto, redisQueue, database, world
<1>1. pc \in [Workers -> Control] /\ job \in [Workers -> Jobs]
  BY DEF ItemsType
<1>2. NoJob.event = NoEvent
  BY DEF NoJob
<1>3. ASSUME UNCHANGED <<queue, published, broker, orders>>, \A v \in Workers : GoesOn(v)
      PROVE  OnceInv'
  BY <1>3, OnlyHands
<1>4. CASE Elsewhere \/ Tick \/ Switching
  BY <1>3, <1>4 DEF Elsewhere, Tick, Switching, GoesOn
<1>5. ASSUME NEW w \in Workers,
             \/ Ask(w) \/ Hear(w) \/ PopNothing(w) \/ LockTimeout(w) \/ NotPermitted(w)
             \/ Start(w)
      PROVE  OnceInv'
  BY <1>1, <1>3, <1>5 DEF Ask, Hear, PopNothing, LockTimeout, NotPermitted, Start, GoesOn, Placed
<1>6. ASSUME NEW w \in Workers, Skip(w) \/ Record(w) \/ Reject(w) \/ Unwind(w)
      PROVE  OnceInv'
  BY <1>1, <1>2, <1>3, <1>6 DEF Skip, Record, Reject, Unwind, GoesOn
<1>7. ASSUME NEW w \in Workers,
             Evaluate(w) \/ ReadBroker(w) \/ ReadOrders(w) \/ Validate(w) \/ Insert(w)
      PROVE  OnceInv'
  <2>1. /\ UNCHANGED <<queue, published, broker, orders>>
        /\ \A v \in Workers \ {w} : pc'[v] = pc[v] /\ job'[v] = job[v]
        /\ pc[w] \in Placed => pc'[w] \in Placed
    BY <1>1, <1>7 DEF Evaluate, ReadBroker, ReadOrders, Validate, Insert, Placed
  <2>2. job'[w].event = job[w].event
    BY <1>1, <1>7 DEF Evaluate, ReadBroker, ReadOrders, Validate, Insert, Jobs
  <2>3. QED
    BY <1>3, <2>1, <2>2 DEF GoesOn
<1>8. ASSUME NEW w \in Workers, Commit(w) PROVE OnceInv'
  <2>1. /\ UNCHANGED <<queue, published, broker>>
        /\ \A v \in Workers : GoesOn(v)
    BY <1>1, <1>2, <1>8 DEF Commit, GoesOn
  <2>2. \A o \in orders' : o \in orders \/ o.event = job[w].event
    BY <1>8 DEF Commit
  <2>3. QED
    BY <2>1, <2>2, OnlyHands
<1>9. ASSUME NEW w \in Workers, Place(w) PROVE OnceInv'
  <2>1. job'[w].event = job[w].event
    BY <1>1, <1>9 DEF Place, Jobs
  <2>2. /\ pc[w] = "place" /\ broker' = Accepted(w) /\ UNCHANGED <<queue, published, orders>>
        /\ pc'[w] \in Placed
        /\ \A v \in Workers \ {w} : pc'[v] = pc[v] /\ job'[v] = job[v]
    BY <1>1, <1>9 DEF Place, Placed
  <2>3. QED
    BY <2>1, <2>2, OneMoreOrder
<1>10. ASSUME NEW w \in Workers, Fail(w) PROVE OnceInv'
  <2>1. /\ UNCHANGED <<queue, published, orders, job>>
        /\ pc'[w] \in Placed
        /\ \A v \in Workers \ {w} : pc'[v] = pc[v]
    BY <1>1, <1>10 DEF Fail, Placed
  <2>2. CASE broker' = broker
    BY <1>3, <2>1, <2>2 DEF GoesOn
  <2>3. CASE pc[w] = "place" /\ broker' = Accepted(w)
    BY <2>1, <2>3, OneMoreOrder
  <2>4. QED
    BY <1>10, <2>2, <2>3 DEF Fail
<1>11. ASSUME NEW w \in Workers, Pop(w) PROVE OnceInv'
  <2>1. /\ queue # <<>> /\ queue \in Seq(Events) /\ queue' = Tail(queue)
        /\ job' = [job EXCEPT ![w] = [NoJob EXCEPT !.event = Head(queue)]]
        /\ UNCHANGED <<published, broker, orders>>
        /\ pc[w] = "pop" /\ pc' = [pc EXCEPT ![w] = "evaluate"]
    BY <1>11 DEF Pop, ItemsType
  <2>2. /\ 1 \in DOMAIN queue /\ Head(queue) = queue[1]
        /\ \A i \in DOMAIN queue' : i + 1 \in DOMAIN queue /\ queue'[i] = queue[i + 1] /\ i + 1 # 1
        /\ \A i, j \in DOMAIN queue' : i + 1 = j + 1 => i = j
    BY <2>1
  <2>3. /\ job'[w].event = queue[1]
        /\ \A v \in Workers \ {w} : job'[v] = job[v] /\ pc'[v] = pc[v]
    BY <1>1, <2>1, <2>2 DEF NoJob
  <2>4. IssuedInv'
    BY <2>1, <2>2, <2>3 DEF OnceInv, IssuedInv
  <2>5. OnePlace'
    <3>1. \A i, j \in DOMAIN queue' : queue'[i] = queue'[j] => i = j
      BY <2>2 DEF OnceInv, OnePlace
    <3>2. \A v \in Workers, i \in DOMAIN queue' : job'[v].event # queue'[i]
      BY <2>2, <2>3 DEF OnceInv, OnePlace
    <3>3. \A u, v \in Workers : job'[u].event = job'[v].event => u = v \/ job'[u].event = NoEvent
      BY <2>2, <2>3 DEF OnceInv, OnePlace
    <3>4. \A k \in DOMAIN broker, i \in DOMAIN queue' : broker[k].event # queue'[i]
      BY <2>2 DEF OnceInv, OnePlace
    <3>5. \A k \in DOMAIN broker, v \in Workers :
            broker[k].event = job'[v].event => pc'[v] \in Placed
      BY <2>2, <2>3 DEF OnceInv, OnePlace
    <3>6. NeverSecondOrder'
      BY <2>1 DEF OnceInv, OnePlace, NeverSecondOrder
    <3>7. QED
      BY <2>1, <3>1, <3>2, <3>3, <3>4, <3>5, <3>6 DEF OnePlace
  <2>6. QED
    BY <2>4, <2>5 DEF OnceInv
<1>12. ASSUME NEW e \in Events, Publish(e) PROVE OnceInv'
  <2> DEFINE n == Len(queue) + 1
  <2>1. /\ e \notin published /\ published' = published \cup {e} /\ queue' = Append(queue, e)
        /\ queue \in Seq(Events) /\ UNCHANGED <<pc, job, broker, orders>>
    BY <1>12 DEF Publish, ItemsType
  <2>2. /\ DOMAIN queue' = DOMAIN queue \cup {n} /\ n \notin DOMAIN queue
        /\ queue'[n] = e
        /\ \A i \in DOMAIN queue : queue'[i] = queue[i]
    BY <2>1
  <2> HIDE DEF n
  <2>3. IssuedInv'
    BY <2>1, <2>2 DEF OnceInv, IssuedInv
  <2>4. /\ \A i \in DOMAIN queue : queue[i] # e
        /\ \A v \in Workers : job[v].event # e
        /\ \A k \in DOMAIN broker : broker[k].event # e
    BY <2>1, PipelineAssumption DEF OnceInv, IssuedInv
  <2>5. OnePlace'
    BY <2>1, <2>2, <2>4 DEF OnceInv, OnePlace, NeverSecondOrder
  <2>6. QED
    BY <2>3, <2>5 DEF OnceInv
<1>13. ASSUME NEW e \in Events, Replay(e) PROVE FALSE
  BY <1>13 DEF Replay, ItemsType
<1>14. ASSUME NEW i \in DOMAIN broker, Fill(i) PROVE OnceInv'
  <2>1. /\ DOMAIN broker' = DOMAIN broker
        /\ UNCHANGED <<queue, published, pc, job, orders>>
    BY <1>14 DEF Fill
  <2>2. \A k \in DOMAIN broker : broker'[k].event = broker[k].event
    <3>1. broker \in Seq([event : Events, plan : Plans, filled : BOOLEAN])
      BY DEF ItemsType
    <3>2. broker[i] \in [event : Events, plan : Plans, filled : BOOLEAN]
      BY <3>1, ElementOfSeq, LenProperties
    <3>3. QED
      BY <1>14, <3>2 DEF Fill
  <2>3. QED
    BY <2>1, <2>2 DEF OnceInv, IssuedInv, OnePlace, NeverSecondOrder
<1>15. CASE RedisLoss
  <2>1. queue' = <<>> /\ UNCHANGED <<published, pc, job, broker, orders>>
    BY <1>15 DEF RedisLoss
  <2>2. DOMAIN queue' = {}
    BY <2>1
  <2>3. QED
    BY <2>1, <2>2 DEF OnceInv, IssuedInv, OnePlace, NeverSecondOrder
<1>16. QED
  BY <1>4, <1>5, <1>6, <1>7, <1>8, <1>9, <1>10, <1>11, <1>12, <1>13, <1>14, <1>15
     DEF Step, Handling

LEMMA OnceInit == Ready => OnceInv
<1>1. NoJob.event = NoEvent
  BY DEF NoJob
<1>2. QED
  BY <1>1 DEF Ready, OnceInv, IssuedInv, OnePlace, NeverSecondOrder

(* risk/rules.py, IdempotencyRule: an event never produces a second order,   *)
(* whatever workers, crashes and losses of Redis there are, as long as its   *)
(* id is not pushed again: a replay is the one way to a second order.        *)
THEOREM OnceWithoutReplays == MaxReplays = 0 => (Spec => []NeverSecondOrder)
<1> SUFFICES ASSUME MaxReplays = 0 PROVE Spec => []NeverSecondOrder
  OBVIOUS
<1>1. Init => OnceInv
  BY OnceInit DEF Init
<1>2. PipelineInv /\ PipelineInv' /\ OnceInv /\ [Next]_vars => OnceInv'
  <2>1. PipelineInv => ItemsType /\ InHandOK
    BY TypeParts DEF PipelineInv
  <2>2. PipelineInv' => ItemsType'
    BY DEF PipelineInv, PipelineType, TypeOK, ItemsType
  <2>3. PipelineInv /\ [Next]_vars => Step \/ Elsewhere
    BY <2>1 DEF Next, vars, ItemsType, Elsewhere
  <2>4. QED
    BY <2>1, <2>2, <2>3, OnceStep
<1>3. OnceInv => NeverSecondOrder
  BY DEF OnceInv, OnePlace
<1>4. QED
  BY <1>1, <1>2, <1>3, PipelineInvariant, PTL DEF Spec
=============================================================================
