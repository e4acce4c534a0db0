-------------------------------- MODULE Trading --------------------------------
(***************************************************************************)
(* The LLM worker and the order worker together: LlmPipeline and           *)
(* OrderPipeline over one database, one Redis and one kill switch.  What   *)
(* each of them takes for granted of the other is what the other does:     *)
(*                                                                         *)
(*   the ids on the list `events' are those that an analyst pushes;        *)
(*   an executor finds the events rows that analysts committed;            *)
(*   the write lock is one, and so is the kill switch, which an analyst    *)
(*   throws when its budget is spent.                                      *)
(*                                                                         *)
(* The variables of LlmPipeline that have the name of one of OrderPipeline *)
(* begin with an l here.                                                   *)
(***************************************************************************)
EXTENDS Integers, Sequences, FiniteSets

CONSTANTS
  Analysts,     \* processes that run run_llm_pipeline
  Executors,    \* processes that run run_rule_pipeline
  Free,         \* the write lock has no holder
  NoEvent,      \* an executor has no event in hand
  Tweets, Tickers,
  Limit, Costs,             \* the LLM's budget of a day
  MaxTweetReplays, MaxFaults, MaxLosses,
  Plans, LiveTrading, LastTime,
  Capital, MaxPositionPct, MaxTotalExposurePct, MaxTradesPerDay,
  MaxDrawdownPct, DailyPnl, AllowAfterHours, OpenTimes

VARIABLES
  \* shared: the kill switch, the write lock, the faults
  env, redis, latest, lock, wpc, op, rpc, source, seen, diverged, faults,
  \* of LlmPipeline
  lpc, spend, period, bill, losses, refused, releases,
  lqueue, received, lreplays, hand, taken, decisions, events, pushes,
  \* of OrderPipeline
  queue, published, replays, pc, job, orders, audit, broker, position, clock

llm == <<lpc, spend, period, bill, losses, refused, releases, lqueue, received, lreplays,
         hand, taken, decisions, events, pushes>>
execution == <<queue, published, replays, pc, job, orders, audit, broker, position, clock>>
vars == <<env, redis, latest, lock, wpc, op, rpc, source, seen, diverged, faults,
          llm, execution>>

(* One day, and nobody releases the switch. *)
L == INSTANCE LlmPipeline WITH
  Workers <- Analysts, Operators <- {}, Known <- Tweets, LastPeriod <- 0,
  MaxReleases <- 0, MaxReplays <- MaxTweetReplays,
  pc <- lpc, queue <- lqueue, replays <- lreplays

Events == L!Events

Requests == L!Trips

(* Nobody pushes an event by hand. *)
O == INSTANCE OrderPipeline WITH
  Workers <- Executors, Known <- Events, MaxReplays <- 0

Processes == Analysts \cup Executors

ASSUME TradingAssumption ==
  /\ L!BudgetAssumption /\ L!TweetsAssumption
  /\ O!PipelineAssumption /\ O!LimitsAssumption
  /\ Analysts \cap Executors = {}

KS == INSTANCE KillSwitch WITH
  Readers <- Processes, Others <- Processes

Init == KS!Init /\ L!Ready /\ O!Ready

-----------------------------------------------------------------------------
(* RPUSH on the list `events', the one step of both. *)
Push(a) ==
  \E e \in hand[a].new :
    /\ L!Publish(a)
    /\ pushes'[e] # pushes[e]
    /\ queue' = Append(queue, e)
    /\ published' = published \cup {e}
    /\ UNCHANGED <<replays, pc, job, orders, audit, broker, position, clock>>

Analyzing(a) == L!Handling(a) /\ lpc[a] # "publish" /\ UNCHANGED execution

(* An event whose row is not committed is dropped. *)
Executing(x) ==
  /\ O!Handling(x)
  /\ pc[x] = "evaluate" /\ job[x].event \notin events => O!Skip(x)
  /\ UNCHANGED llm

(* Redis has both lists, the counters and the key. *)
RedisRestarts == L!RedisRestarts /\ O!RedisLoss

Step ==
  \/ \E a \in Analysts :
       \/ Push(a)
       \/ Analyzing(a)
       \/ L!LlmFails(a) /\ UNCHANGED execution
       \/ L!Crash(a) /\ UNCHANGED execution
       \/ L!Restarted(a) /\ UNCHANGED execution
  \/ \E t \in Tweets : (L!Receive(t) \/ L!Replay(t)) /\ UNCHANGED execution
  \/ \E x \in Executors :
       \/ Executing(x)
       \/ O!Fail(x) /\ UNCHANGED llm
       \/ O!Start(x) /\ UNCHANGED llm
  \/ \E i \in DOMAIN broker : O!Fill(i) /\ UNCHANGED llm
  \/ RedisRestarts

Next == Step /\ KS!Observe

Spec == Init /\ [][Next]_vars

FairSpec ==
  /\ Spec
  /\ \A a \in Analysts : WF_vars((Push(a) \/ Analyzing(a)) /\ KS!Observe)
  /\ \A x \in Executors : WF_vars(Executing(x) /\ KS!Observe)

-----------------------------------------------------------------------------
(* A tweet trades once: although it is analyzed again, although an executor  *)
(* may die between the broker's answer and its commit, in which case nothing *)
(* tells the next one that there is an order, and although Redis forgets.    *)
(* Only an event id that is pushed by hand makes a second order              *)
(* (OrderPipeline!NeverSecondOrder).                                         *)
OneBrokerOrder ==
  \A i, j \in DOMAIN broker : broker[i].event = broker[j].event => i = j

(* INV-4, across the workers: an id on the list `events' is that of a row,   *)
(* so that no event is dropped as unknown, and the view trade_journal finds  *)
(* the decision of every event and the event of every order.                 *)
Journaled ==
  /\ \A i \in DOMAIN queue : queue[i] \in events
  /\ \A e \in events : e[1] \in decisions
  /\ \A o \in orders : o.event \in events

(* INV-2, with the LLM's budget as the one who throws the switch. *)
NoOrderWhileActive == O!NoOrderWhileActive

(* Together, too, they use the switch and the lock as KillSwitch says. *)
SwitchKept == KS!Spec

(* The queues drain: a tweet that was received is handled, and so are its    *)
(* events, unless a worker stops or dies; and whatever goes wrong, a rejected*)
(* order, a refused row, a crash, no executor keeps the write lock.          *)
Pending(t) ==
  \/ \E i \in DOMAIN lqueue : lqueue[i] = t
  \/ \E a \in Analysts : hand[a].tweet = t
  \/ \E i \in DOMAIN queue : queue[i][1] = t
  \/ \E x \in Executors : job[x].event # NoEvent /\ job[x].event[1] = t

Drains ==
  \A t \in Tweets :
    Pending(t) ~> /\ lock \notin Executors
                  /\ \/ ~Pending(t)
                     \/ \E a \in Analysts : lpc[a] \in {"stopped", "down"}
                     \/ \E x \in Executors : pc[x] \in {"stopped", "down"}
=============================================================================
