---------------------------- MODULE BudgetedWorker ----------------------------
(***************************************************************************)
(* What the ingestion worker and the LLM worker have in common: each item  *)
(* begins with a look at the kill switch, ends with a charge to a budget   *)
(* kept in Redis, and a charge that reaches the limit throws the switch.   *)
(* backend/services/twitterapi_budget.py, backend/services/llm_budget.py,  *)
(* and the parts of backend/services/ingestion.py and llm_pipeline.py that *)
(* use them and backend/kill_switch/service.py.                            *)
(*                                                                         *)
(* A worker throws the switch in a session of its own, Trip(w), which      *)
(* contends for the write lock with every other session.                   *)
(***************************************************************************)
EXTENDS Integers, FiniteSets

CONSTANTS
  Workers,
  Operators,    \* people's requests to throw or release the switch
  Free,         \* the write lock has no holder
  Limit,        \* the budget of a period
  Costs,        \* what an item may cost
  LastPeriod,   \* bound on the months (twitterapi.io) or days (LLM)
  MaxFaults,    \* bound on exceptions and crashes
  MaxReleases,  \* bound on the requests to release the switch
  MaxLosses     \* bound on the restarts of Redis

Trip(w) == <<"trip", w>>
Trips == {Trip(w) : w \in Workers}

ASSUME BudgetAssumption ==
  /\ Free \notin Operators \cup Trips \cup Workers
  /\ (Operators \cup Trips) \cap Workers = {}
  /\ Operators \cap Trips = {}
  /\ IsFiniteSet(Workers)
  /\ Limit \in Nat \ {0}
  /\ Costs \subseteq Nat
  /\ \E c \in Costs : \A d \in Costs : d <= c   \* there is a dearest item
  /\ LastPeriod \in Nat /\ MaxFaults \in Nat /\ MaxReleases \in Nat /\ MaxLosses \in Nat

VARIABLES
  env, redis, latest, lock, wpc, op, rpc, source, seen, diverged,  \* the kill switch
  pc,         \* pc[w]: what w does next
  spend,      \* spend[p]: the Redis counter of the period p
  period,     \* the period of the clock
  bill,       \* history: bill[p]: what was charged in the period p
  losses,     \* how many times Redis lost its data
  faults,     \* how many exceptions and crashes happened
  refused,    \* history: how many times throwing the switch failed
  releases    \* history: how many times its release was requested

switch == <<env, redis, latest, lock, wpc, op, rpc, source, diverged>>
budget == <<spend, period, bill, losses>>
counters == <<faults, refused, releases>>
workerVars == <<switch, seen, pc, budget, counters>>

KS == INSTANCE KillSwitch WITH
  Requests <- Operators \cup Trips, Readers <- Workers, Others <- Workers

Periods == 0 .. LastPeriod

WorkerTypeOK(Control) ==
  /\ KS!TypeOK
  /\ pc \in [Workers -> Control \cup {"check", "charge", "trip", "stopped", "down"}]
  /\ spend \in [Periods -> Nat]
  /\ period \in Periods
  /\ bill \in [Periods -> Nat]
  /\ losses \in Nat
  /\ faults \in Nat /\ refused \in Nat /\ releases \in Nat

WorkersReady(first) ==
  /\ pc = [w \in Workers |-> first]
  /\ spend = [p \in Periods |-> 0]
  /\ period = 0
  /\ bill = [p \in Periods |-> 0]
  /\ losses = 0
  /\ faults = 0 /\ refused = 0 /\ releases = 0

Goto(w, next) == pc' = [pc EXCEPT ![w] = next]

(* The session of w ends, by a commit or a rollback. *)
EndSession(w) == IF lock = w THEN KS!ReleaseLock(w) ELSE UNCHANGED switch

-----------------------------------------------------------------------------
(* is_active: begins, and reads its next source.  The worker goes on, or     *)
(* stops.                                                                    *)
Ask(w) ==
  /\ pc[w] = "check"
  /\ KS!Call(w)
  /\ UNCHANGED <<pc, budget, counters>>

(* Variants with a defect are kept before the action they differ from.       *)
HearNothing(w, next) == \* the answer is ignored
  /\ pc[w] = "check"
  /\ KS!ReadEnv(w) \/ KS!ReadRedis(w) \/ KS!ReadLatest(w)
  /\ IF rpc'[w] # "idle" THEN UNCHANGED pc ELSE Goto(w, next)
  /\ UNCHANGED <<budget, counters>>

Hear(w, next) ==
  /\ pc[w] = "check"
  /\ KS!ReadEnv(w) \/ KS!ReadRedis(w) \/ KS!ReadLatest(w)
  /\ \/ /\ rpc'[w] # "idle"
        /\ UNCHANGED pc
     \/ /\ rpc'[w] = "idle" /\ source'[w] = "inactive"
        /\ Goto(w, next)
     \/ /\ rpc'[w] = "idle" /\ source'[w] # "inactive"
        /\ Goto(w, "stopped")
  /\ UNCHANGED <<budget, counters>>

(* INCRBYFLOAT on the counter of the current period.  The answer is the sum, *)
(* this charge included; at the limit or above, the worker throws the switch.*)
ChargeThenGoOn(w, cost, next) == \* the limit is compared with the sum before the charge
  /\ pc[w] = "charge"
  /\ spend' = [spend EXCEPT ![period] = @ + cost]
  /\ bill' = [bill EXCEPT ![period] = @ + cost]
  /\ IF spend[period] >= Limit
     THEN KS!Activate(Trip(w)) /\ Goto(w, "trip")
     ELSE UNCHANGED switch /\ Goto(w, next)
  /\ UNCHANGED <<period, losses, counters>>

Charge(w, cost, next) ==
  /\ pc[w] = "charge"
  /\ spend' = [spend EXCEPT ![period] = @ + cost]
  /\ bill' = [bill EXCEPT ![period] = @ + cost]
  /\ \/ /\ spend'[period] >= Limit
        /\ KS!Activate(Trip(w))
        /\ Goto(w, "trip")
     \/ /\ spend'[period] < Limit
        /\ UNCHANGED switch
        /\ Goto(w, next)
  /\ UNCHANGED <<period, losses, counters>>

(* activate, and the commit of the caller; then the loop ends. *)
TripGoesOn(w) ==
  /\ pc[w] = "trip"
  /\ KS!Flush(Trip(w)) \/ KS!WriteRedis(Trip(w))
  /\ UNCHANGED <<pc, budget, counters>>

TripUncommitted(w) ==  \* the caller of activate does not commit
  /\ pc[w] = "trip"
  /\ KS!Abort(Trip(w))
  /\ Goto(w, "stopped")
  /\ UNCHANGED <<budget, counters>>

TripCommits(w) ==
  /\ pc[w] = "trip"
  /\ KS!Commit(Trip(w))
  /\ Goto(w, "stopped")
  /\ UNCHANGED <<budget, counters>>

(* The busy timeout: OperationalError ends the worker. *)
TripTimesOut(w) ==
  /\ pc[w] = "trip"
  /\ KS!LockTimeout(Trip(w))
  /\ refused' = refused + 1
  /\ Goto(w, "down")
  /\ UNCHANGED <<budget, faults, releases>>

Tripping(w) == TripGoesOn(w) \/ TripCommits(w) \/ TripTimesOut(w)

-----------------------------------------------------------------------------
(* Any await may raise, and the process may die: the session rolls back. *)
Fail(w) ==
  /\ pc[w] \notin {"stopped", "down"}
  /\ faults < MaxFaults
  /\ faults' = faults + 1
  /\ \/ /\ pc[w] = "trip"
        /\ KS!Abort(Trip(w))
        /\ refused' = refused + 1
     \/ /\ pc[w] = "check"
        /\ KS!Restart(w, env[w])
        /\ UNCHANGED refused
     \/ /\ pc[w] \notin {"trip", "check"}
        /\ EndSession(w)
        /\ UNCHANGED refused
  /\ Goto(w, "down")
  /\ UNCHANGED <<budget, releases>>

Start(w, first) ==
  /\ pc[w] \in {"stopped", "down"}
  /\ \E on \in BOOLEAN : KS!Restart(w, on)
  /\ Goto(w, first)
  /\ UNCHANGED <<budget, counters>>

NextPeriod ==
  /\ period < LastPeriod
  /\ period' = period + 1
  /\ UNCHANGED <<switch, pc, spend, bill, losses, counters>>

(* POST /kill-switch and POST /kill-switch/deactivate. *)
Operate(q) ==
  /\ \/ /\ releases < MaxReleases
        /\ releases' = releases + 1
        /\ KS!Deactivate(q, "I-understand", "maintenance")
     \/ /\ UNCHANGED releases
        /\ \/ KS!Activate(q) \/ KS!Flush(q) \/ KS!LockTimeout(q)
           \/ KS!WriteRedis(q) \/ KS!Commit(q) \/ KS!Abort(q)
  /\ UNCHANGED <<pc, budget, faults, refused>>

(* Redis restarts empty: the key, the counters and the lists are gone. *)
RedisLoss ==
  /\ losses < MaxLosses
  /\ losses' = losses + 1
  /\ KS!RedisLoss
  /\ spend' = [p \in Periods |-> 0]
  /\ UNCHANGED <<pc, period, bill, counters>>

-----------------------------------------------------------------------------
MaxCost == CHOOSE c \in Costs : \A d \in Costs : d <= c

(* With charges of `charge' at most, a period exceeds the limit by what the  *)
(* workers have in flight and no more: once for each worker, again for each  *)
(* release of the switch, and again for each attempt to throw it that failed.*)
(* Redis forgets less than a limit: a spent budget is in the database, as a  *)
(* switch that is on.                                                        *)
OverspendAtMost(charge) ==
  \A p \in Periods :
    bill[p] < Limit + losses * (Limit - 1)
              + charge * (Cardinality(Workers) * (1 + releases) + refused)

(* A spent budget has thrown the switch, or is about to; unless an attempt   *)
(* to throw it failed, or somebody released it.                              *)
SpentMeansTripped ==
  refused = 0 /\ releases = 0 =>
    \A p \in Periods : spend[p] >= Limit =>
      \/ redis \/ latest
      \/ \E w \in Workers : pc[w] = "trip"

(* A worker that begins to throw the switch does so, or dies of the attempt: *)
(* it neither waits for the write lock for ever nor goes on with the switch  *)
(* off.                                                                      *)
TripEnds ==
  \A w \in Workers : pc[w] = "trip" ~> (pc[w] = "stopped" /\ latest) \/ pc[w] = "down"

(* The workers use the kill switch and the write lock as KillSwitch says.    *)
SwitchKept == KS!Spec
=============================================================================
