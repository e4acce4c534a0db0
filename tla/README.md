# A formal model of x-social-trader

x-social-trader reads tweets, lets an LLM turn them into trading events, lets
declarative rules turn events into order proposals, and sends the proposals that
pass a risk check to a broker. A kill switch must stop all of it. The program is
a set of asyncio workers and a FastAPI application that share a SQLite database
and a Redis server.

This directory holds TLA+ modules for the parts that decide something, TLC
configurations that check them on small instances, and TLAPS proofs of the
properties that matter most for every instance. Paths such as
`services/ingestion.py` are relative to `src/backend/`.

- [1. The system](#1-the-system)
- [2. What makes it hard](#2-what-makes-it-hard)
- [3. The modules](#3-the-modules)
- [4. The runs](#4-the-runs)
- [5. The proofs](#5-the-proofs)
- [6. Where the code and its documents disagree](#6-where-the-code-and-its-documents-disagree)
- [7. What is left out](#7-what-is-left-out)
- [8. The plan](#8-the-plan)

## 1. The system

```
 X stream ──> ingestion ──raw_tweets──> LLM worker ──events──> rule pipeline ──> broker
                 │  ▲                     │  ▲                   │   ▲
                 │  │                     │  │ aliases           │   │ rules, risk gates
                 ▼  │                     ▼  │                   ▼   │
              SQLite (one writer at a time), Redis (queues, counters, kill switch key)
                              ▲
                 kill switch requests, reload of the rules (FastAPI)
```

The arrows between workers are Redis lists of row ids (RPUSH, BLPOP). Every
worker consults the kill switch before it takes work.

| Component | Source | State | Operations | What makes it correct |
|---|---|---|---|---|
| Kill switch | `kill_switch/service.py`, `api/kill_switch.py` | environment flag, Redis key, newest row of `kill_switch_events` | activate, deactivate, `is_active` | every answer of `is_active` is a value the switch had during the call; a request is effective when it is acknowledged; a failure leaves the switch on, never off |
| Order pipeline | `services/rule_pipeline.py`, `execution/` | the list `events`, tables `rule_evaluations`, `risk_evaluations`, `orders`, the broker's orders | one iteration from the queue to the broker and the commit | no order while the switch is on (INV-2), one order per event (INV-6), the audit of every decision (INV-4), the limits |
| Risk manager | `risk/` | none | six gates over an order and a context | an order passes only if all gates hold, and all of them are evaluated |
| Rule engine | `rules/`, `api/admin_rules.py` | list of rules, swapped by reloads | reload, evaluate | the first matching rule in a total order; every rule recorded |
| Ingestion | `services/ingestion.py` | table `raw_tweets`, the list `raw_tweets`, the spend of the month | one iteration for a tweet | a tweet is stored once, pushed once, after its commit; the budget holds |
| LLM worker | `services/llm_pipeline.py`, `providers/openai_compatible.py` | tables `llm_decisions` and `events`, the spend of the day | one iteration for a tweet | an event is stored once, pushed once, after its commit; the budget holds |
| Budgets | `services/twitterapi_budget.py`, `services/llm_budget.py` | Redis counters per month and per day | charge, throw the switch | the overspend is bounded by what is in flight |
| Aliases | `services/aliases.py` | table `aliases` | resolve mentions to tickers | the answer depends on the table and not on the order of its rows |
| Tweet stream | `providers/twitterapi_io.py` | the connection | subscribe with reconnection, REST calls with retries | tweets in order and once; only an unreadable message makes it drop what it received; it reconnects unless it was closed |
| IB provider | `providers/ib.py` | the client whose session was verified, the sessions of the gateway | connect with retries and an account check, disconnect, reads; orders raise `NotImplementedError` | a read finds no session whose account was not checked; no session is left open, for there is one client id; connect ends |
| Watched accounts | `services/watched_accounts_sync.py`, REST client of `providers/twitterapi_io.py` | `watched_accounts`, the monitored list of the server | one sync: read, list, add, remove | after a sync the two agree about every account that nobody disturbed |
| Position sync | `services/positions_sync.py` | `positions` | one sync: report, read, write the differences, commit | after a sync the table is right about every symbol that nobody disturbed |
| Workers, observability, seed, frontend | `workers/`, `core/`, `../scripts/seed.py`, `../frontend` | none that a decision depends on | – | – |

How they interact. The pipelines call `is_active` of the kill switch, and the
budgets and the risk manager may throw it. All of them write the same SQLite
database. A session of SQLAlchemy takes SQLite's only write lock at its first
flush, and keeps it until the commit or the rollback; a second session that
flushes waits for the busy timeout (5 s) and fails. Reads outside a write
transaction see the committed rows.

## 2. What makes it hard

`PROJECT.json` lists the hazards, each at its line. In short:

- **One lock carries most of the safety.** `build_validation_context` reads the
  orders after a SELECT has flushed the pending `rule_evaluations`, so the
  worker holds the write lock from that read, through `broker.place_order`, to
  the commit. INV-2 and INV-6 hold because of this and for no other reason: no
  kill switch request and no other worker can commit in between. The price is
  that a request for the kill switch waits behind a broker call, and fails if
  that takes longer than the busy timeout.
- **Two sources of truth.** The kill switch writes Redis and then commits to the
  database. The order of the two writes and the failures between them decide
  whether a failure leaves the switch on.
- **Queues lose.** BLPOP hands an id to a worker that may die with it. The next
  worker in line publishes after its commit, so a crash between the two strands
  the row: the row exists, and a rerun takes it for a duplicate.
- **Time.** The context takes `now` before it waits for the broker and the lock,
  and compares `created_at`, a text in whole seconds, with a midnight written
  with microseconds.
- **Budgets** are charged after the money is spent, by several workers, and
  tripping the switch can fail.
- **The network.** A request whose answer is lost is sent again, although the
  server may have executed it; a connection ends by a close, by a break, or
  because one message cannot be read.
- **One client id.** Every attempt to connect to the broker's gateway, and every
  call of `connect`, uses the same id; the gateway may open a session that the
  client gave up.
- **Columns.** A sync of the positions writes only the columns that differ from
  the rows it read: two syncs that overlap may mix their reports in a row.
- **Threads.** A reload of the rules runs in a thread, while the directory
  changes and another reload runs.

## 3. The modules

```
 AbstractSwitch <──refines── KillSwitch <──INSTANCE── OrderPipeline ──EXTENDS──> RiskRules
                                 ▲   ▲                     ▲
                                 │   │                     └──INSTANCE── Trading ──INSTANCE──┐
                                 │   └──INSTANCE── BudgetedWorker <──EXTENDS── LlmPipeline <─┘
                                 │                                 <──EXTENDS── Ingestion
                         KillSwitchProofs <──INSTANCE── OrderPipelineProofs, BudgetedWorkerProofs
 Relay <──refines── Ingestion, LlmPipeline
 BudgetedWorkerProofs <──EXTENDS── IngestionProofs, LlmPipelineProofs
 LlmPipelineProofs, OrderPipelineProofs <──INSTANCE── TradingProofs
 IbProvider <──EXTENDS── PositionSync <──EXTENDS── ServiceProofs ──INSTANCE──> MonitorList, TweetStream, Aliases
 RuleEngine <──EXTENDS── RuleEngineProofs
```

A module `XProofs` EXTENDS the specification X that its theorems are about, but
for ServiceProofs, which has the theorems on the four modules of the services
around the pipelines.

Every `MC…` module EXTENDS a specification and only names the values of its
constants. Variants with a defect (`ReadUnlocked`, `HearNothing`, …) stand
before the definition that they differ from; the mutation entries of
`PROJECT.json` use them to show that each property can fail.

**AbstractSwitch** is what the kill switch promises to a caller: a value that
requests change, and calls that return a value the switch had at some moment
between call and return, unless a process was restarted.

**KillSwitch** translates `service.py` and the two endpoints of
`api/kill_switch.py`. A request is a sequence of steps: *Flush* (takes the write
lock, or *LockTimeout*), *WriteRedis*, *Commit*, with *Abort* for a failure of
any of them. An activation and a deactivation write Redis before they commit.
`is_active` is three steps, `ReadEnv`, `ReadRedis`, `ReadLatest`, each of which
may end the call or let it go on. `Others` are sessions of other parts that
take the write lock, `RedisLoss` a restart of Redis without its data. `seen`,
a history variable, holds for each call the values the switch had since the call began;
it is what the refinement of AbstractSwitch maps a call's promise to.

**OrderPipeline** translates `run_rule_pipeline` and what it calls, one worker
per program counter: ask the switch, pop, load, evaluate the rules (*Evaluate*
chooses a plan or none), record, ask the switch again, read the broker, read
the orders (takes the lock), validate, place, insert, commit. *Unwind* is the
rollback of a failed session, *Fail* and *Start* a crash and a restart. A broker
order is an element of `broker`, an `orders` row a record with the `now` it was validated at and
the `stamp` it got; `receipt` ties them together. The clock counts half days:
`2*d` is the first second of day `d`, `2*d+1` the rest of it, which is all that
the comparison of texts tells apart. The kill switch is an instance of
KillSwitch, whose readers and other writers are the workers.

**RiskRules** holds the six gates of `risk/rules.py` as predicates over whole
dollars and percentages.

**Relay** is what a worker between two queues promises, for any items: an
item is committed once, and pushed at most once and only after its commit.
Ingestion (tweets) and LlmPipeline (events) implement it.

**BudgetedWorker** is what ingestion and the LLM worker share: the workers'
program counters, the question to the kill switch (*Ask*, *Hear*), the charge
and the attempt to throw the switch (`twitterapi_budget.py` and `llm_budget.py`
are the same code with other names), crashes and restarts, the periods of a
budget, and the requests of operators. `spend` is the counter in Redis, which a
restart of Redis clears; `bill`, a history variable, is what was really charged.

**Ingestion** translates one iteration of `run_ingestion`. The stream delivers
a tweet and may deliver up to `MaxReplays` tweets again. Two deliveries may be
in two workers: the unique constraint turns the second insert into a duplicate.

**LlmPipeline** translates one iteration of `run_llm_pipeline` with the retry of
`OpenAICompatibleLLM.analyze`. What the LLM says is a choice of tickers, an
answer that does not parse, or an exception.

**Trading** composes LlmPipeline and OrderPipeline over one kill switch, one
write lock, one Redis and one count of faults. `Ready` of each is its initial
state without the switch. *Push* is the one step of both: the RPUSH of an event
id is a `Publish` of the analyst and an arrival on the executor's list. What
OrderPipeline leaves open, which events are on the list and which have a row, is
what the analysts did; the requests for the switch are those of a spent budget.
Requests of people are in `switch` and `llm_budget`, and in the proofs.

**RuleEngine** translates the loader, the store and the engine. A file holds a
rule, something that is no rule, or is gone, and may be written, removed or
renamed while it is read. `touched` and `stale`, history variables, hold the
files that changed since a reload, or the reload that filled the store, began.
What a reload has read is a set, where the code has a list: an identifier that was
read before is refused, so that no rule is in the list twice. `Sorted` is the
engine's sort; `Holds` and `Raises` are `_check`, operator by operator; a record is one of
matched, skipped and failed.

**Aliases** translates `resolve_tickers`. Each call goes over the selected rows
in some order and keeps one row for each mention.

**TweetStream** translates the generator `subscribe`: connect, read the messages
of the connection one by one, hand a tweet to the consumer, and after an
exception wait, twice as long each time. Messages that arrive while the consumer
works wait in the library's inbox. A message is a tweet, a quiet one (connected,
ping, unknown) or a garbled one, which makes `_decode` or `_parse_tweet` raise.
`close` clears a flag that the loop reads at its head and in its handler.

**MonitorList** translates `sync_watched_accounts` over the REST client: the
SELECT, the listing, then one request per difference, each tried `RetryMax`
times. A request without an answer was executed, was not, or will be later (a
straggler). An answer of 3xx is not followed and is taken for success, although
nothing was executed (`Redirect`). `settled`, a history variable, holds for each
sync the accounts that nobody disturbed since it began: not toggled, not
redirected, and no running sync or straggler has an older opinion of them.

**IbProvider** translates `connect`, with its attempts, waits and account check,
and `disconnect`. A session belongs to a client object (`line`), or to nobody
that is still there (`held`): ib_insync closed it, or gave up an attempt that the
gateway accepted all the same, and the gateway has yet to notice. While there is
a session, the gateway accepts no other. `get_account_summary`,
`get_open_orders` and `get_positions` need `Connected`.

**PositionSync** adds the account, the table and the calls of `sync_positions`
over that connection. `Dirty` is the set of columns that SQLAlchemy writes, those
whose value differs from the row that was read; `Written` puts them on the row
that is there at the commit. `settled`, a history variable, holds for each sync
the symbols that were not traded since its report and about which no two syncs
that ran at the same time were told different things.

What the models abstract throughout: texts are members of small sets, money is
in whole units, log lines and metrics do not exist, an await is a point where
others may run, and a step of a model is what the code does between two of
them.

## 4. The runs

`tlc -config <cfg> <module>` repeats each. Deadlock is checked in all of them but
`stream`: a worker that stopped can be started again, while a stream that its
consumer left is over.

| Run | Instance | States | What it shows |
|---|---|---|---|
| `switch` | MCKillSwitch: 2 requests, 1 reader, 1 other session | 15 k | requests are serialised (`HolderWrites`), Redis and the database agree when nothing failed (`SourcesAgree`), the switch refines AbstractSwitch (`Promised`), every request ends (`RequestsEnd`) |
| `order` | MCOrderPipeline: 2 workers, 2 events, 1 replay, 2 plans, a midnight, 1 fault, a cap of 1 | 5.9 M | `OneOrderPerEvent`, `SecondOnlyAfterLoss`, `OrdersAudited`, `CapAfterFirstSecond`, `TypeOK` |
| `ingestion` | MCIngestion: 2 workers, 1 operator, 3 tweets, 1 replay, budget of 1, 1 fault, 1 restart of Redis | 3.3 M | `RowIsNew`, `Relayed`, `StrandedByFaults`, `OverspendBounded`, `SpentMeansTripped` |
| `llm` | MCLlmPipeline: 2 workers, a tweet that runs twice, 2 tickers, 1 fault, 1 restart of Redis | 2.2 M | `EventsAreNew`, `Relayed`, `StrandedByFaults` |
| `llm_budget` | MCLlmBudget: 1 worker, 1 operator, 2 tweets, budget of 1, 2 days, 1 release, 1 restart of Redis | 1.8 M | `OverspendBounded` with releases, `TripEnds` |
| `trading` | MCTrading: 1 analyst, 1 executor, 1 tweet that runs twice, budget of 2, 3 plans, 1 fault, 1 restart of Redis | 731 k | `OneBrokerOrder`, `Journaled`, `NoOrderWhileActive`, `SwitchKept`, `Drains` |
| `positions` | MCPositionSync: 2 calls of connect with 2 attempts each, 2 syncs, 1 contract, 2 holdings, 2 trades | 789 k | `VerifiedOnly`, `SessionsOwned`, `SettledSynced`, `ConnectEnds` |
| `rules` | MCRuleEngine: 2 files, 8 rules, 2 threads, 1 change of the directory, 3 events | 3.2 M | `IdsUnique`, `WinnerIsBest`, `EveryRuleRecorded`, `StandingRulesKept` |
| `aliases` | MCAliases: tables of up to 3 rows, 4 texts, 3 tickers | 135 k | `BestRowDecides` |
| `stream` | MCTweetStream: 5 messages, any number of connections, waits up to 5 | 0.4 M | `HandedInOrder`, `WaitsDouble`, `Recovers`, `CloseEnds` |
| `monitor_list` | MCMonitorList: 2 accounts, 2 syncs, 2 attempts, 1 toggle, 1 straggler | 487 k | `SettledAligned`, `SyncEnds` |
| `v_NeverSecondOrder` | 1 worker, 1 replay, 1 crash | – | violated, see section 6 |

The `TypeOK` of the modules where a run does not name it holds too: it takes one
line more in the configuration, and says little that the other invariants do not.

**Why these bounds.** Two workers are enough for every race the code has: each
hazard is a pair of sessions or a session and a request, and the lock lets one
in at a time. (The proofs of section 5 remove the bound.) One fault is
enough for what a crash between two steps can do; its counter (`MaxFaults`,
`faults`) bounds the run and not the code. A replay gives an event that a worker
sees while another has its first delivery in hand, or after its commit; two
events compete for a cap of one. One midnight is enough because an order's
validation and its stamp are compared for one boundary at a time; the instants
of `order` are the rest of a day, the first second of the next, in which the
market is closed, and the rest of that day. Orders are validated on one day and
stamped on the next, and the second day of the run does get one order more than
the cap, which is as many as `CapAfterFirstSecond` allows two workers. (It was
also checked with the market open at every instant, of two days with two workers
and three events, and of three days with one.) A budget of one unit makes every
charge a breach, so two workers overspend together; the budget of two in
`trading` lets a first order through and throws the switch while a second may be
under way. Rule plans that a gate refuses (live), that the table refuses (a LIMIT
order without a price) and that sell are each in one of `order` and `trading`.
Waits up to 5 seconds reach the limit from below and past it, as 60 does, and the
number of failures is not bounded (its history saturates). A sync of the monitored
list tries twice, and so does a call of connect, where the code tries three times:
one lost answer is followed by another attempt, two end it. Two syncs
of one contract are the fewest that can mix two reports; that `SettledSynced` holds
for any number of syncs and for contracts that share a symbol is proved.
`trading` has one process of each kind: pairs of the same kind are in `order` and
`llm`, and two executors beside an analyst have more than five million states.
Workers, tweets and requests are symmetric where a run has a SYMMETRY line; the
runs that check liveness have none.

**Fairness.** `FairSpec` of each module asks weak fairness of the workers'
steps, and of the steps of a request: a coroutine whose await has ended
is scheduled by asyncio, and the waits of these steps end by themselves (the
busy timeout for a lock, the timeouts of the HTTP clients). A command to Redis has
no timeout, so that `RequestsEnd`, `TripEnds` and `Drains` assume that Redis answers
or refuses. A broker call has no timeout in the code, so that `Drains` assumes that the broker answers; it
speaks of workers that neither stop nor die, for nothing says that somebody starts
them again. `connect` has a timeout on each attempt, and its waits end: `ConnectEnds`.
A stream is asked for more: an attempt to connect that is made again and again
succeeds at last (strong fairness of `Connect`), without which `Recovers` would
speak of a server that is gone for ever. `CloseEnds` does not need it.
Nothing is asked of users, operators, the stream, faults, restarts, the clock,
or of other sessions that hold the lock: `RequestsEnd` and `TripEnds` hold even
if somebody keeps it for ever.

## 5. The proofs

`tlapm` checks the eight modules whose names end in `Proofs`. The theorems hold
for every value of the constants: for any sets of requests, readers, workers,
events, plans, tweets, tickers, files, rules, accounts, syncs, contracts and
holdings, any limits and costs, and any number of faults and replays.

| Theorem | Says |
|---|---|
| KillSwitchProofs!TypeCorrect | the type invariant |
| KillSwitchProofs!LockSerialises | `HolderWrites`: a request between its flush and its commit holds the write lock |
| KillSwitchProofs!Agreement | `SourcesAgree`: without a fault the Redis key and the newest row agree outside a request's commit |
| KillSwitchProofs!Refinement | `Promised`: the switch implements AbstractSwitch |
| OrderPipelineProofs!TypeCorrect | the type invariant |
| OrderPipelineProofs!KeepsSwitch | `SwitchKept`: every behaviour of the pipeline is one of KillSwitch |
| OrderPipelineProofs!KeepsPromise | so what AbstractSwitch promises holds in the pipeline |
| OrderPipelineProofs!Gate | `NoOrderWhileActive` (INV-2) |
| OrderPipelineProofs!OneOrder | `OneOrderPerEvent` (INV-6) |
| OrderPipelineProofs!OnlyLossRepeats | `SecondOnlyAfterLoss` |
| OrderPipelineProofs!Capped | `CapAfterFirstSecond`: past the first second of a day, the orders validated on it keep the cap, and those validated before it add one for each worker but one |
| OrderPipelineProofs!Audited | `OrdersAudited` (INV-4) |
| OrderPipelineProofs!OnceWithoutReplays | `NeverSecondOrder`, if `MaxReplays = 0`: what section 6 finds violated takes a second push of the event |
| IngestionProofs!TypeCorrect, LlmPipelineProofs!TypeCorrect | the type invariants |
| IngestionProofs!NewAtCommit | `RowIsNew` |
| LlmPipelineProofs!NewAtCommit | `EventsAreNew` |
| …!Overspent, of both | `OverspendBounded` |
| …!SpentTrips, of both | `SpentMeansTripped` |
| …!KeepsSwitch, of both | `SwitchKept`: every behaviour of the workers is one of KillSwitch |
| …!FaultsStrand, of both | `StrandedByFaults` |
| …!Refinement, of both | `Relayed`: the worker implements Relay |
| TradingProofs!KeepsSwitch | `SwitchKept`: the two kinds of workers together use one kill switch |
| TradingProofs!Gate | `NoOrderWhileActive` (INV-2), with analysts that throw the switch |
| TradingProofs!OneOrder | `OneBrokerOrder`: the broker sees an event once, however often its tweet is run |
| TradingProofs!JournalComplete | `Journaled` (INV-4): what is on the list of events, and every order, has its event and its decision |
| TradingProofs!OrdersKept | `OneOrderPerEvent`, `OrdersAudited`, `CapAfterFirstSecond` of OrderPipeline, beside analysts |
| TradingProofs!Overspent, SpentTrips | `OverspendBounded`, `SpentMeansTripped` of LlmPipeline, beside executors that contend for the write lock |
| TradingProofs!EventsKept | `EventsAreNew`, `StrandedByFaults` of LlmPipeline, with the faults of both kinds of workers |
| TradingProofs!Relays | `Relayed` of LlmPipeline: the analysts implement Relay beside the executors |
| RuleEngineProofs!TypeCorrect | the type invariant; in particular the engine has a sorted list to run |
| RuleEngineProofs!KeepsStanding | `StandingRulesKept` |
| RuleEngineProofs!Unique | `IdsUnique` |
| RuleEngineProofs!BestWins | `WinnerIsBest` |
| RuleEngineProofs!AllRecorded | `EveryRuleRecorded` (INV-4) |
| ServiceProofs!TypeCorrect | the type invariant of the connection and the position sync |
| ServiceProofs!Verified | `VerifiedOnly` |
| ServiceProofs!Owned | `SessionsOwned` |
| ServiceProofs!Synced | `SettledSynced` |
| ServiceProofs!AccountsSettled | `SettledAligned` of MonitorList |
| ServiceProofs!InOrder | `HandedInOrder` of TweetStream |
| ServiceProofs!WaitsAreDoubled | `WaitsDouble` of TweetStream |
| ServiceProofs!BestDecides | `BestRowDecides` of Aliases |

**Assumptions.** They are those of the modules, and TLC evaluates each in the
runs. ServiceProofs takes those of MonitorList, TweetStream and Aliases as
hypotheses of its theorems, for the three are instances there.

- `SessionsAssumption`, `PipelineAssumption`: requests, readers, workers and
  other sessions have different names, and `Free` is none of them; limits and
  bounds are numbers, a plan is a record of an order. There are finitely many
  workers, as there are of processes, for `CapAfterFirstSecond` counts them.
- `BudgetAssumption`: also that there are finitely many workers, for the bound on
  the overspend counts them, and that some item is the dearest. The first is so
  of processes; the second because a tweet has a fixed price and the prompt and the
  answer of an LLM call are of limited size.
- `TweetsAssumption`: the tweets that have a row are tweets, and no tweet is none.
- `TradingAssumption`: those of the two pipelines, and no process is of both kinds.
- `RulesAssumption`: a directory has finitely many files, a rule's conditions are
  a list, priorities and identifiers can be compared.
- `ClientsAssumption`: there is one attempt to connect at least.
  `HoldingsAssumption`: a holding is a record of numbers, and no holding is none.
- `MonitorAssumption`: an account is a number (its rank among the names), and a
  request is tried once at least. `StreamAssumption`: there is a longest wait.
- `AliasesAssumption`: rows have a text, a ticker and a priority; what a core spells
  is a ticker. Two rows may have the same text and ticker: the table's unique
  constraint is on the mention with its case.

Every inductive invariant named below was also checked by TLC, on the instance of
its run.

**The kill switch.** `WriteInv` says that only the holder of the lock is between
flush and commit, and what the Redis key is at each of its steps. `SwitchInv`
adds `CallsWatched`: what a call in progress has learned so far, and that the
value it will return is among those the switch had since it began. It is needed
because a call reads the key and the row at two moments. The row goes off only
when a deactivation commits, and by then its request has removed the key and
holds the lock, so the switch is off at that moment, which the call may return.

**The order pipeline.** The properties are not inductive by themselves: that a
worker will insert the only row of its event rests on what it read some steps
before. The inductive invariant is

    PipelineInv == PipelineType /\ InHandOK /\ GateInv /\ BookInv
    BookInv     == OrderInv /\ LossInv /\ LatestInv /\ CapInv /\ DayInv /\ AuditInv

Its core is `GateInv`: a worker between the read of the orders and its commit
holds the write lock, the switch is off, and the orders it read are the orders
there are. Only a holder of the lock changes the switch or the orders, so the
steps of others keep it, and the worker's own validation then speaks about the
present. `OrderInv`, `LossInv` and `CapInv` follow the one order in hand through
place, insert and commit under that fact; `InHandOK` and `AuditInv` need no lock.

`CapAfterFirstSecond` has two halves. For an order validated on the day of its row
the count that the risk rule saw is still exact at the commit (`CapOK`), and the
rows of the table are older than the new one (`LatestInv`), so that no later row
counts against an earlier. For the others, `DayInv` counts the workers that are
`Stale` for a day d: those whose clock was read before d. When d has an order,
its orders and the workers stale for it are together at most the cap and the
number of workers but one (`Room`). A worker that reads the clock when d has an
order is not stale for d; one that commits an order on d, validated before, is
stale no longer; and one that is not stale for d saw all the orders of d in its
count.

That a step of the pipeline is a step of the kill switch or leaves it alone
(`StepOfSwitch`) is used throughout, so that nothing is proved twice.

`OnceInv` is for `OnceWithoutReplays`: an event that was published is in one place
at most, on the list once, or in the hands of one worker, or done with; an order
at the broker is of an event that is past the call in the hands of a worker, or
done with. A crash empties the hands and puts nothing back, so that it can lose an
event and not double it.

**The budget.** BudgetedWorkerProofs knows of a pipeline only how it uses
BudgetedWorker (`BudgetStep`), the program counters from which no charge is
reached without a question to the switch, and the most that is charged at once:
one tweet for ingestion, two calls for the LLM worker. `OverspendBounded` is not
inductive: that the bill is small now says nothing of the workers that are about
to charge. The invariant `Charged` counts rights instead. A worker is `Entitled`
to a charge unless it is throwing the switch, or the newest row is on and it has
yet to ask. A charge that finds the budget spent costs the worker its right. A
release of the switch gives every worker a new one, a failed attempt to throw the
switch gives one back, and nothing else does; `Room` is the number of rights that
were used up, and the bill is below the most times `Room`, beside what Redis
counts and what it forgot.
`SpentMeansTripped` comes from the same invariant: the worker whose charge reached
the limit is throwing the switch, and its session in KillSwitch is in progress
(`TripsInv`).

**The relays.** `HandsInv` is what the two workers need beside the budget: from
the flush to the commit a worker holds the write lock, so that what it found
missing is missing when it commits; after the commit the ids it has yet to push
have rows, were never pushed, and are in no other worker's hands. Relay follows
step by step. `StrandedInv` counts: a row that was not pushed and is in nobody's
hands takes a fault each, and a worker that dies has one tweet in hand. The
cardinalities need that the stranded tweets are finitely many, which is part of
the invariant.

**The composition.** The lemmas about one kind of worker are stated of its own
steps and of steps `Elsewhere` that leave its variables alone and take no lock
from it. TradingProofs shows that a step of Trading is of one kind and Elsewhere
for the other (`Kinds`, `Beside`), or a push, which is a step of both. So the
invariants of the two stand side by side, without a second proof of either, and
one more relates them, `IssueInv`: what was published was pushed, what was pushed
has a row, and a row has its decision. An analyst pushes only what was never
pushed; hence the executors' events are published once, their `MaxReplays` is 0,
and `OnceInv` gives `OneBrokerOrder`, though tweets are run again.

The promises of each kind follow in company. `BookStep`, `BudgetInvStep` and
`StrandedInvStep` need of a step only that it is one of the own kind, or leaves the
own items alone and may have met a fault. So the cap, the audit rows, the bound on
the overspend and the count of stranded events hold of Trading, with the same
bounds. `SecondOnlyAfterLoss` is not repeated there, since `OneBrokerOrder` says
more. These theorems are about properties that the runs of the single workers
check; TLC found each of them true of the instance of MCTrading too, where the run
does not list them.

**The rules.** `SortedList` is the lemma that a finite set which a relation
orders totally has one list in that order (the place of an element is the number
of those before it); with unique identifiers, priority and identifier are such an
order. `LoadInv` says that a reload in progress, and the store, are `Drawn` from
the directory: there is an injection from the rules to files they came from, and
every file that has not changed since has its rule there. `RunInv` follows a run:
the rules examined so far have their records, and the rule that matched is the
first of them that wins. As the list is sorted, the first is the best.

**The connection and the position sync.** `SessionInv` says that at most one session
is open, that a call of connect looks at a session only while it is open, and that
it works on another client than the provider's: so a call that succeeds replaces
no open session, and one that fails closes its own. `TableInv` is about each
symbol that some sync can settle: all syncs that run were told the same thing of
it, and it is so (`Undisputed`); what that sync will write is right (`Compared`),
and once a sync has settled the symbol this holds of every sync that has compared.
The lemmas on one row carry the argument: `DifferingMatches` (a row that is
compared and written says what was reported), `MatchesKept` (a right row stays
right under a writer with the same report), `MatchesThroughout` (a choice of columns
stays right when another writer with the same report comes in between). The
invariant does not mention the write lock: the columns make overlapping syncs
agree, the lock only makes one of them wait or fail.

**The monitored accounts.** `ListInv` says, of an account that is settled for a
sync, that every sync that runs has the opinion of the table about it, and that no
straggler would put it out. So whatever is executed, late or twice, brings the
account nearer to the table; and a sync that is updating has the account right, or
still on its list of requests. That a request's account is one of them needs that
a set of numbers has a least element.

**The stream.** `StreamInv` says that the inbox and what was handed over are both
increasing, that the inbox comes after it, and that all of the inbox came over this
connection. When a message that cannot be read empties the inbox, it is the head,
and all the messages that are dropped are behind it on the same connection.

`WaitsDouble` needs the wait at every place of the generator (`WaitInv`): it is the
wait after the failures so far while connecting, and one second from when a
connection is up. The wait is a power of two or the limit, so that what is left to
show is that doubling takes one power to the next (`WaitGrows`). A power is
`Doubled`, a recursive function, and the provers know of it only that it is
chosen. Lemma `Induction` is induction without an operator as its parameter: a set
of numbers that has zero and every successor is all numbers, because otherwise a
least one is missing. By it every beginning of the powers exists (`ChainExists`),
two of them agree where both are defined (`ChainsAgree`), and so their limit
satisfies the equation of `Doubled` (`DoubledDef`).

**The aliases.** `AliasesInv` says of a call in progress that it keeps one row of
each core, and that no row it has looked at is better than the one it keeps; when
no row is left, the row that is kept is one of the best, whatever the order was.

**Only model-checked:**

- liveness (`RequestsEnd`, `TripEnds`, `Drains`, `ConnectEnds`, `Recovers`,
  `CloseEnds`, `SyncEnds`): it needs fairness and ENABLED.

Every other property of a passing run is stated by a theorem. Those of MonitorList,
TweetStream and Aliases are stated of instances (`ML`, `TS`, `AL`), for all three
have variables of the same names.

## 6. Where the code and its documents disagree

The first is a run that TLC must find violated; the others have their property in
the module and the configuration named, and TLC finds each violated too.

| Property, configuration | The document | The code |
|---|---|---|
| `NeverSecondOrder` (run) | `risk/rules.py:172` "Same event_id / idempotency_key must never produce a second order (INV-6)." | the row that the rule looks for is written after the broker call: a crash in between and a replay place a second order. `SecondOnlyAfterLoss` is what does hold |
| `TiesAreLexicographic` (MCTiesAreLexicographic) | `services/aliases.py:17` "ties resolve to the lexicographically smaller ticker" | only first letters are compared; then the first row of an unordered SELECT wins |
| `BrokerOrdersKnown` (MCBrokerOrdersKnown) | `../BACKLOG.md:258` "Persistance `orders` avant appel broker" | `execution/executor.py` inserts after it; also a LIMIT order without a price reaches the broker and is then refused by the table |
| `DailyCap` (MCDailyCap) | `risk/rules.py:99` "trades_today < max_trades_per_day (this order would be the next one)" | the day is that of a clock read before the count, and the row is stamped later: a day may get one order beyond the cap from each other worker. `CapAfterFirstSecond` is what does hold |
| `DailyCap` (MCDailyCapMidnight) | the same | `execution/context.py:59` compares texts with and without microseconds: the rows of the first second of a day are not in the window of that day, and any number of orders may be validated and stamped in that second |
| `ActivationNotRefused` (MCActivationNotRefused) | `../BACKLOG.md:220` "test de bascule (off→on) propagée aux 3 sources en <1 s" | an activation waits for the lock that a worker holds through its broker call, and fails after the busy timeout |
| `NoTweetLost` (MCNoTweetLost) | `../BACKLOG.md:296` "0 tweet perdu sur replay" | a tweet that was committed and not pushed is a duplicate on replay, and is not pushed |
| `AlwaysDecided` (MCAlwaysDecided) | `services/llm_pipeline.py:13` "Call ``provider.analyze`` — never raises", line 14 "Persist ``llm_decisions`` row (always, …)" | `analyze` raises when the LLM cannot be reached, and the popped tweet gets no row |
| `NoCallOverBudget` (MCNoCallOverBudget) | `../BACKLOG.md:337` "test simulant budget dépassé → worker refuse nouveaux appels" | the worker consults the switch and not the budget: when throwing the switch failed, a restarted worker calls again |
| `RerunsPublish` (MCRerunsPublish) | `services/llm_pipeline.py:155` "INV-6: idempotent — the unique constraint guards reruns." | an event that was committed and not pushed is skipped by a rerun |
| `DollarRowsCount` (MCDollarRowsCount) | `models/alias.py:10` "Map mentions (`Tesla`, `$TSLA`, …)" | mentions lose their `$` before the lookup and rows do not, so that a row for `$TSLA` is never found |
| `WaitsToReconnect` (MCWaitsToReconnect) | `../BACKLOG.md:292` "Reconnexion exponentielle 1→60 s sur déconnexion" | only an exception is followed by a wait: a connection that the server closes in good order ends the inner loop, and is opened again at once |
| `EveryPositionUpserted` (MCEveryPositionUpserted) | `services/positions_sync.py:33` "Upsert every broker position into `positions`." | positions are keyed by symbol: of a share and its option, or of two options, the last one in the report is the row |

## 7. What is left out

- The audit texts of kill switch rows, and its pub/sub message: nothing
  subscribes.
- `trigger_from_drawdown`: a request like any other, which nothing calls. The
  pipeline passes a daily result of 0, so its drawdown gate never refuses.
- `persist_fill`: nothing calls it. Fills happen at the broker, and the pipeline
  sees them as positions.
- The prompt and the JSON of the LLM, the YAML of a rule, the HTTP layer.
- `cancel_all` and `place_order` of the IB provider raise `NotImplementedError`:
  the broker of OrderPipeline is the port of `providers/base.py`. The check of the
  trading mode against the account, which BACKLOG.md asks of IB-01, is not in the
  code.
- Paper and live accounts: a session names the expected account or another one.
- The append-only triggers of the schema: no code updates or deletes a row they
  protect.
- Several symbols: all orders of OrderPipeline are for one, and its exposure is
  the absolute value of one position, where the code adds up those of all symbols.
- What the Redis client does by itself: each command is sent once, where the library
  may send one again after a lost connection, and has no time limit, so that a
  command that never ends is not covered by the fairness of section 4.
- A rule whose text conditions spell numbers (`float()` accepts them).
- Numbers are exact. The code's `Decimal` and `float` agree with them for the
  amounts in use.
- Multiple Redis or database servers: the code has one of each.
- Components marked `not_modelled` in `PROJECT.json`, each with its reason:
  stubs, I/O, or planned below.

## 8. The plan

Modules were written in the order of what can do most damage.

1. Done: AbstractSwitch, KillSwitch and its proofs.
2. Done: RiskRules, OrderPipeline and its proofs.
3. Done: Relay, BudgetedWorker, Ingestion, LlmPipeline and their proofs.
4. Done: RuleEngine, Aliases and their proofs.
5. Done: TweetStream, MonitorList and their proofs.
6. Done: IbProvider, PositionSync, and Trading, which composes the LLM worker
   and the order pipeline, and their proofs.
7. Next, models: ingestion as the first stage of Trading, with two executors, for
   which the state space needs a coarser LLM worker that LlmPipeline implements;
   the order pipeline over the session of IbProvider, once `place_order` exists.
8. Done: the proofs that what holds of each kind of worker alone, the limits
   among it, holds in Trading; that the stream's waits double.
9. Next, proofs: the same for ingestion, once it is a stage of Trading. The lemmas
   on the budget are those of all workers, so that only `Kinds` has to grow.
