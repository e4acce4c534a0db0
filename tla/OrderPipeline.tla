----------------------------- MODULE OrderPipeline -----------------------------
(***************************************************************************)
(* From an event on the Redis queue to an order at the broker:             *)
(* backend/services/rule_pipeline.py, backend/execution/context.py and     *)
(* backend/execution/executor.py, with the kill switch they consult and    *)
(* the requests that throw it.                                             *)
(*                                                                         *)
(* A worker handles an event in one session:                               *)
(*                                                                         *)
(*   precheck  ask the kill switch, stop if it is on                       *)
(*   pop       take the oldest event off the queue, for good               *)
(*   evaluate  run the rule engine on the event                            *)
(*   broker    read the clock, the account and the positions               *)
(*   lock      count the day's orders; the session first flushes the       *)
(*             evaluations it has pending, which takes the write lock      *)
(*   gate      ask the kill switch again, as the executor                  *)
(*   validate  INV-1, then the risk rules                                  *)
(*   place     broker.place_order                                          *)
(*   insert    flush the orders row                                        *)
(*   commit    commit everything; the lock is free again                   *)
(*                                                                         *)
(* A rejection leads to `reject', which commits the audit rows alone.  An  *)
(* exception, or the death of the process, leads to `unwind', which rolls  *)
(* back.  The event is not put back on the queue in either case.           *)
(***************************************************************************)
EXTENDS RiskRules, Sequences, FiniteSets

CONSTANTS
  Workers,        \* processes that run run_rule_pipeline
  Requests,       \* requests to throw or release the kill switch
  Free,           \* the write lock has no holder
  Events,         \* ids that can be on the queue
  Known,          \* those with an events row
  NoEvent,        \* no event in hand
  Plans,          \* the orders that the rules may propose
  LiveTrading,    \* Settings.is_live_trading
  MaxReplays,     \* bound on events put on the queue again
  MaxFaults,      \* bound on exceptions and crashes
  LastTime        \* bound on the clock

ASSUME PipelineAssumption ==
  /\ IsFiniteSet(Workers)
  /\ Free \notin Requests \cup Workers
  /\ Requests \cap Workers = {}
  /\ Known \subseteq Events
  /\ NoEvent \notin Events
  /\ Plans \subseteq [strategy : STRING, side : {"BUY", "SELL"}, live : BOOLEAN,
                      type : {"MARKET", "LIMIT"}, priced : BOOLEAN, notional : Nat]
  /\ LiveTrading \in BOOLEAN
  /\ MaxReplays \in Nat /\ MaxFaults \in Nat /\ LastTime \in Nat

VARIABLES
  \* of the kill switch
  env, redis, latest, lock, wpc, op, rpc, source, seen, diverged,
  \* Redis
  queue,      \* the list `events'
  published,  \* the events that the LLM pipeline has pushed
  replays,    \* how many times an event was pushed again
  \* the workers
  pc,         \* pc[w]: what w does next
  job,        \* job[w]: what w knows of the event in hand
  faults,     \* how many exceptions and crashes happened
  \* the database, committed rows only
  orders, audit,
  \* the world
  broker,     \* orders the broker has accepted, oldest first
  position,   \* signed position from the fills, in dollars
  clock       \* time, see Day

switch == <<env, redis, latest, lock, wpc, op, rpc, source, diverged>>
redisQueue == <<queue, published, replays>>
database == <<orders, audit>>
world == <<broker, position, clock>>
vars == <<switch, seen, redisQueue, pc, job, faults, database, world>>

KS == INSTANCE KillSwitch WITH Readers <- Workers, Others <- Workers

-----------------------------------------------------------------------------
(* Days.  An even instant is the second 00:00:00 UTC of a day, the odd one   *)
(* after it the rest of that day.                                            *)
Day(t) == t \div 2

FirstSecond(t) == t = 2 * Day(t)

(* The window of build_validation_context: created_at is stored as text with *)
(* whole seconds and compared, as text, with a midnight written with         *)
(* microseconds.  `00:00:00' is a prefix of `00:00:00.000000', hence less:   *)
(* the first second of a day falls in the window of the day before.          *)
InWindow(stamp, now) == 2 * Day(now) < stamp /\ stamp <= 2 * Day(now) + 2

NoPlan == [strategy |-> "", side |-> "BUY", live |-> FALSE,
           type |-> "MARKET", priced |-> FALSE, notional |-> 0]

NoJob == [event |-> NoEvent, plan |-> NoPlan, now |-> 0, exposure |-> 0,
          trades |-> 0, seen |-> FALSE, checked |-> FALSE, receipt |-> 0,
          stamp |-> 0]

Jobs == [event : Events \cup {NoEvent}, plan : Plans \cup {NoPlan}, now : Nat,
         exposure : Nat, trades : Nat, seen : BOOLEAN, checked : BOOLEAN,
         receipt : Nat, stamp : Nat]

Rows == [event : Events, strategy : STRING, externalId : Nat, stamp : Nat, now : Nat]

Control == {"precheck", "pop", "evaluate", "record", "broker", "lock", "gate",
            "validate", "reject", "place", "insert", "commit", "unwind",
            "stopped", "down"}

TypeOK ==
  /\ KS!TypeOK
  /\ queue \in Seq(Events)
  /\ published \subseteq Events
  /\ replays \in Nat
  /\ pc \in [Workers -> Control]
  /\ job \in [Workers -> Jobs]
  /\ faults \in Nat
  /\ orders \subseteq Rows
  /\ audit \subseteq Events \X {"engine", "risk"}
  /\ broker \in Seq([event : Events, plan : Plans, filled : BOOLEAN])
  /\ position \in Int
  /\ clock \in Nat

(* Everything but the kill switch. *)
Ready ==
  /\ queue = <<>>
  /\ published = {}
  /\ replays = 0
  /\ pc = [w \in Workers |-> "precheck"]
  /\ job = [w \in Workers |-> NoJob]
  /\ faults = 0
  /\ orders = {}
  /\ audit = {}
  /\ broker = <<>>
  /\ position = 0
  /\ clock = 1

Init == KS!Init /\ Ready

(* The session of w ends, by a commit or a rollback. *)
EndSession(w) == IF lock = w THEN KS!ReleaseLock(w) ELSE UNCHANGED switch

Goto(w, next) == pc' = [pc EXCEPT ![w] = next]

-----------------------------------------------------------------------------
(* The kill switch, as the workers see it. *)

(* is_active begins: before the pop, and again in the executor. *)
Ask(w) ==
  /\ pc[w] \in {"precheck", "gate"}
  /\ KS!Call(w)
  /\ UNCHANGED <<redisQueue, pc, job, faults, database, world>>

(* is_active reads its next source.  An active switch stops the worker       *)
(* before the pop, and makes the executor reject the order at the gate.      *)
Hear(w) ==
  /\ pc[w] \in {"precheck", "gate"}
  /\ KS!ReadEnv(w) \/ KS!ReadRedis(w) \/ KS!ReadLatest(w)
  /\ \/ /\ rpc'[w] # "idle"
        /\ UNCHANGED pc
     \/ /\ rpc'[w] = "idle" /\ source'[w] = "inactive"
        /\ Goto(w, IF pc[w] = "precheck" THEN "pop" ELSE "validate")
     \/ /\ rpc'[w] = "idle" /\ source'[w] # "inactive"
        /\ Goto(w, IF pc[w] = "precheck" THEN "stopped" ELSE "reject")
  /\ UNCHANGED <<redisQueue, job, faults, database, world>>

-----------------------------------------------------------------------------
(* The worker. *)

Pop(w) ==
  /\ pc[w] = "pop"
  /\ queue # <<>>
  /\ queue' = Tail(queue)
  /\ job' = [job EXCEPT ![w] = [NoJob EXCEPT !.event = Head(queue)]]
  /\ Goto(w, "evaluate")
  /\ UNCHANGED <<switch, published, replays, faults, database, world>>

(* BLPOP times out: back to the pre-check. *)
PopNothing(w) ==
  /\ pc[w] = "pop"
  /\ queue = <<>>
  /\ Goto(w, "precheck")
  /\ UNCHANGED <<switch, redisQueue, job, faults, database, world>>

(* An event without a row is dropped; and when no rule is loaded, there is   *)
(* nothing to record of an event.                                            *)
Skip(w) ==
  /\ pc[w] = "evaluate"
  /\ job' = [job EXCEPT ![w] = NoJob]
  /\ Goto(w, "precheck")
  /\ UNCHANGED <<switch, redisQueue, faults, database, world>>

(* The rule engine, over the rules loaded now: the order of the first rule   *)
(* that matches, or none.                                                    *)
Evaluate(w) ==
  /\ pc[w] = "evaluate"
  /\ job[w].event \in Known
  /\ \E plan \in Plans \cup {NoPlan} :
       /\ job' = [job EXCEPT ![w].plan = plan]
       /\ Goto(w, IF plan = NoPlan THEN "record" ELSE "broker")
  /\ UNCHANGED <<switch, redisQueue, faults, database, world>>

(* No rule matched: flush the evaluations and commit them. *)
Record(w) ==
  /\ pc[w] = "record"
  /\ lock = Free
  /\ audit' = audit \cup {<<job[w].event, "engine">>}
  /\ job' = [job EXCEPT ![w] = NoJob]
  /\ Goto(w, "precheck")
  /\ UNCHANGED <<switch, redisQueue, faults, orders, world>>

(* Variants with a defect are kept before the definition they differ from.   *)
NetExposure(n) == n    \* a sale counts as a negative exposure

Abs(n) == IF n < 0 THEN -n ELSE n

(* The first part of build_validation_context: the clock, the account, the   *)
(* positions, in one step: orders may be filled, and time may pass, before   *)
(* the next, as they may between the three.  An account without capital is an*)
(* exception.                                                                *)
ReadBroker(w) ==
  /\ pc[w] = "broker"
  /\ Capital > 0
  /\ job' = [job EXCEPT ![w].now = clock, ![w].exposure = Abs(position)]
  /\ Goto(w, "lock")
  /\ UNCHANGED <<switch, redisQueue, faults, database, world>>

(* The second part: the first SELECT flushes the pending evaluations, which  *)
(* takes the write lock; then all three SELECTs see the same orders.         *)
ReadUnlocked(w) ==     \* the session flushes nothing before it reads
  /\ pc[w] = "lock"
  /\ job' = [job EXCEPT
                ![w].trades = Cardinality({o \in orders : InWindow(o.stamp, job[w].now)}),
                ![w].seen = \E o \in orders : o.event = job[w].event]
  /\ Goto(w, "gate")
  /\ UNCHANGED <<switch, redisQueue, faults, database, world>>

ReadStealing(w) ==     \* the write lock does not exclude anybody
  /\ pc[w] = "lock"
  /\ lock' = w
  /\ job' = [job EXCEPT
                ![w].trades = Cardinality({o \in orders : InWindow(o.stamp, job[w].now)}),
                ![w].seen = \E o \in orders : o.event = job[w].event]
  /\ Goto(w, "gate")
  /\ UNCHANGED <<env, redis, latest, wpc, op, rpc, source, diverged,
                 redisQueue, faults, database, world>>

ReadOrders(w) ==
  /\ pc[w] = "lock"
  /\ KS!TakeLock(w)
  /\ job' = [job EXCEPT
                ![w].trades = Cardinality({o \in orders : InWindow(o.stamp, job[w].now)}),
                ![w].seen = \E o \in orders : o.event = job[w].event]
  /\ Goto(w, "gate")
  /\ UNCHANGED <<redisQueue, faults, database, world>>

(* The busy timeout of a flush: OperationalError. *)
LockTimeout(w) ==
  /\ pc[w] \in {"record", "lock"}
  /\ lock # Free
  /\ Goto(w, "unwind")
  /\ UNCHANGED <<switch, redisQueue, job, faults, database, world>>

(* The order as the risk rules see it: INV-1 first, and no audit row for it. *)
NotPermitted(w) ==
  /\ pc[w] = "validate"
  /\ job[w].plan.live /\ ~LiveTrading
  /\ Goto(w, "reject")
  /\ UNCHANGED <<switch, redisQueue, job, faults, database, world>>

ValidateUnaudited(w) == \* validate without its rule_evaluations rows
  /\ pc[w] = "validate"
  /\ ~job[w].plan.live \/ LiveTrading
  /\ Goto(w, IF Validated(job[w].plan, job[w]) THEN "place" ELSE "reject")
  /\ UNCHANGED <<switch, redisQueue, job, faults, database, world>>

Validate(w) ==
  /\ pc[w] = "validate"
  /\ ~job[w].plan.live \/ LiveTrading
  /\ job' = [job EXCEPT ![w].checked = TRUE]
  /\ Goto(w, IF Validated(job[w].plan, job[w]) THEN "place" ELSE "reject")
  /\ UNCHANGED <<switch, redisQueue, faults, database, world>>

AuditOf(w) == {<<job[w].event, "engine">>} \cup
              (IF job[w].checked THEN {<<job[w].event, "risk">>} ELSE {})

(* SubmissionRejected: the worker commits the audit rows and goes on. *)
Reject(w) ==
  /\ pc[w] = "reject"
  /\ EndSession(w)
  /\ audit' = audit \cup AuditOf(w)
  /\ job' = [job EXCEPT ![w] = NoJob]
  /\ Goto(w, "precheck")
  /\ UNCHANGED <<redisQueue, faults, orders, world>>

Accepted(w) == Append(broker, [event |-> job[w].event, plan |-> job[w].plan, filled |-> FALSE])

Place(w) ==
  /\ pc[w] = "place"
  /\ broker' = Accepted(w)
  /\ job' = [job EXCEPT ![w].receipt = Len(broker) + 1]
  /\ Goto(w, "insert")
  /\ UNCHANGED <<switch, redisQueue, faults, database, position, clock>>

(* The row must fit the constraints of the table: an idempotency key of its  *)
(* own, a limit price on LIMIT orders and on no other.  The key is           *)
(* event:strategy; an event id has exactly one colon, so equal keys have the *)
(* same event and strategy.                                                  *)
Insertable(w) ==
  /\ \A o \in orders : <<o.event, o.strategy>> # <<job[w].event, job[w].plan.strategy>>
  /\ (job[w].plan.type = "LIMIT") <=> job[w].plan.priced

(* The row gets its created_at here. *)
Insert(w) ==
  /\ pc[w] = "insert"
  /\ IF Insertable(w)
     THEN /\ job' = [job EXCEPT ![w].stamp = clock]
          /\ Goto(w, "commit")
     ELSE /\ UNCHANGED job
          /\ Goto(w, "unwind")
  /\ UNCHANGED <<switch, redisQueue, faults, database, world>>

Commit(w) ==
  /\ pc[w] = "commit"
  /\ EndSession(w)
  /\ orders' = orders \cup {[event |-> job[w].event, strategy |-> job[w].plan.strategy,
                             externalId |-> job[w].receipt, stamp |-> job[w].stamp,
                             now |-> job[w].now]}
  /\ audit' = audit \cup AuditOf(w)
  /\ job' = [job EXCEPT ![w] = NoJob]
  /\ Goto(w, "precheck")
  /\ UNCHANGED <<redisQueue, faults, world>>

-----------------------------------------------------------------------------
(* Failures. *)

(* Any await may raise, and the process may die.  A broker call that raises  *)
(* may still have placed the order.                                          *)
Fail(w) ==
  /\ pc[w] \notin {"unwind", "stopped", "down"}
  /\ faults < MaxFaults
  /\ faults' = faults + 1
  /\ KS!Restart(w, env[w])
  /\ broker' \in {broker} \cup (IF pc[w] = "place" THEN {Accepted(w)} ELSE {})
  /\ Goto(w, "unwind")
  /\ UNCHANGED <<redisQueue, job, database, position, clock>>

(* The session rolls back, and the worker is gone. *)
UnwindLocked(w) ==     \* the rollback is forgotten
  /\ pc[w] = "unwind"
  /\ job' = [job EXCEPT ![w] = NoJob]
  /\ Goto(w, "down")
  /\ UNCHANGED <<switch, redisQueue, faults, database, world>>

Unwind(w) ==
  /\ pc[w] = "unwind"
  /\ EndSession(w)
  /\ job' = [job EXCEPT ![w] = NoJob]
  /\ Goto(w, "down")
  /\ UNCHANGED <<redisQueue, faults, database, world>>

(* A worker that stopped or died is started again. *)
Start(w) ==
  /\ pc[w] \in {"stopped", "down"}
  /\ \E on \in BOOLEAN : KS!Restart(w, on)
  /\ Goto(w, "precheck")
  /\ UNCHANGED <<redisQueue, job, faults, database, world>>

-----------------------------------------------------------------------------
(* The environment. *)

(* The LLM pipeline pushes an event once. *)
Publish(e) ==
  /\ e \notin published
  /\ queue' = Append(queue, e)
  /\ published' = published \cup {e}
  /\ UNCHANGED <<switch, replays, pc, job, faults, database, world>>

(* Someone pushes an event again. *)
Replay(e) ==
  /\ e \in published
  /\ replays < MaxReplays
  /\ replays' = replays + 1
  /\ queue' = Append(queue, e)
  /\ UNCHANGED <<switch, published, pc, job, faults, database, world>>

(* All orders are for one symbol: the exposure is the absolute value of its  *)
(* position, where the code adds up those of all symbols.                    *)
Fill(i) ==
  /\ ~broker[i].filled
  /\ broker' = [broker EXCEPT ![i].filled = TRUE]
  /\ position' = IF broker[i].plan.side = "BUY" THEN position + broker[i].plan.notional
                                               ELSE position - broker[i].plan.notional
  /\ UNCHANGED <<switch, redisQueue, pc, job, faults, database, clock>>

Tick ==
  /\ clock < LastTime
  /\ clock' = clock + 1
  /\ UNCHANGED <<switch, redisQueue, pc, job, faults, database, broker, position>>

(* Requests to the kill switch. *)
Switching ==
  /\ \E q \in Requests : KS!Writing(q)
  /\ UNCHANGED <<redisQueue, pc, job, faults, database, world>>

(* Redis restarts empty: the key and the queue are gone. *)
RedisLoss ==
  /\ KS!RedisLoss
  /\ queue' = <<>>
  /\ UNCHANGED <<published, replays, pc, job, faults, database, world>>

-----------------------------------------------------------------------------
Handling(w) ==
  \/ Ask(w) \/ Hear(w)
  \/ Pop(w) \/ PopNothing(w) \/ Skip(w)
  \/ Evaluate(w) \/ Record(w)
  \/ ReadBroker(w) \/ ReadOrders(w) \/ LockTimeout(w)
  \/ NotPermitted(w) \/ Validate(w) \/ Reject(w)
  \/ Place(w) \/ Insert(w) \/ Commit(w)
  \/ Unwind(w)

Step ==
  \/ \E w \in Workers : Handling(w) \/ Fail(w) \/ Start(w)
  \/ \E e \in Events : Publish(e) \/ Replay(e)
  \/ \E i \in DOMAIN broker : Fill(i)
  \/ Tick
  \/ Switching
  \/ RedisLoss

Next == Step /\ KS!Observe

Spec == Init /\ [][Next]_vars

-----------------------------------------------------------------------------
(* Properties. *)

InHand(i) == \E w \in Workers : pc[w] \in {"insert", "commit"} /\ job[w].receipt = i

Recorded(i) == \E o \in orders : o.externalId = i

(* Whatever the interleaving of workers, replays and crashes, an event has   *)
(* one orders row at most: not only one per idempotency key, which the       *)
(* UNIQUE constraint gives, but one per event (INV-6), which the constraint  *)
(* does not give when a rule with another strategy matches on a replay.      *)
OneOrderPerEvent == \A o1, o2 \in orders : o1.event = o2.event => o1 = o2

(* The broker gets a second order for an event only if the first one was     *)
(* lost: accepted by the broker, and neither recorded nor in the hands of a  *)
(* worker that is about to record it.                                        *)
SecondOnlyAfterLoss ==
  \A i, j \in DOMAIN broker :
    i < j /\ broker[i].event = broker[j].event => ~Recorded(i) /\ ~InHand(i)

(* INV-2.  A worker that is about to place an order, or is placing it, runs  *)
(* while the switch is off, although it asked some steps before: the write   *)
(* lock that it holds keeps every activation out until its commit.           *)
NoOrderWhileActive ==
  \A w \in Workers : pc[w] \in {"validate", "place", "insert", "commit"} => ~KS!Active(w)

(* The orders of day d, as the cap counts them on that day: the orders of    *)
(* its first second are counted for the day before.                          *)
TradesOf(d) == {o \in orders : Day(o.stamp) = d /\ ~FirstSecond(o.stamp)}

(* What MaxTradesPerDayRule makes of a day, after its first second.  An order*)
(* that was validated on the day of its row is one of the first orders of    *)
(* that day, as many as the cap.  An order whose clock was read on an earlier*)
(* day was held against the cap of that day, and may be one too many; but the*)
(* worker that places it reads the clock again for the next, so that the day *)
(* has one such order for each of the other workers and no more.             *)
CapAfterFirstSecond ==
  \A o \in orders : ~FirstSecond(o.stamp) =>
    LET day == TradesOf(Day(o.stamp)) IN
      /\ Day(o.now) = Day(o.stamp) =>
           Cardinality({p \in day : p.externalId <= o.externalId}) <= MaxTradesPerDay
      /\ Cardinality(day) <= MaxTradesPerDay + Cardinality(Workers) - 1

(* INV-4.  An event with an orders row also has the rows of the rule engine  *)
(* and of the risk manager that justify it, and no row of the risk manager   *)
(* comes without those of the rule engine.                                   *)
OrdersAudited ==
  /\ \A o \in orders : {<<o.event, "engine">>, <<o.event, "risk">>} \subseteq audit
  /\ \A e \in Events : <<e, "risk">> \in audit => <<e, "engine">> \in audit

(* The workers use the kill switch and the write lock as KillSwitch says:    *)
(* what holds of it, holds here.                                             *)
SwitchKept == KS!Spec

-----------------------------------------------------------------------------
(* What documents and comments of the repository say, and the code does not  *)
(* do.                                                                       *)

(* BACKLOG.md, EXEC-01: the orders row is persisted before the broker call.  *)
(* Then every order of the broker would have a row, or a worker that is      *)
(* about to give it one.                                                     *)
BrokerOrdersKnown == \A i \in DOMAIN broker : Recorded(i) \/ InHand(i)

(* IdempotencyRule: the same event must never produce a second order.        *)
NeverSecondOrder ==
  \A i, j \in DOMAIN broker : broker[i].event = broker[j].event => i = j

(* MaxTradesPerDayRule: trades_today < max_trades_per_day, hence no day with *)
(* more orders than the cap.  CapAfterFirstSecond is what does hold; in the  *)
(* first second of a day there is no cap at all.                             *)
DailyCap ==
  \A o \in orders :
    Cardinality({p \in orders : Day(p.stamp) = Day(o.stamp)}) <= MaxTradesPerDay

(* BACKLOG.md, KILL-01: throwing the switch reaches the sources in less than *)
(* a second.  Then no activation would be refused because the database is    *)
(* busy.                                                                     *)
ActivationNotRefused == [][\A q \in Requests : op[q] => ~KS!LockTimeout(q)]_vars
=============================================================================
