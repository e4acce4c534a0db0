------------------------------ MODULE KillSwitch ------------------------------
(***************************************************************************)
(* The kill switch: backend/kill_switch/service.py and the two endpoints   *)
(* of backend/api/kill_switch.py.                                          *)
(*                                                                         *)
(* Its value is spread over three sources: KILL_SWITCH in the environment  *)
(* of the process that asks, the Redis key kill_switch:active, and the     *)
(* newest row of kill_switch_events.  is_active reads them one after the   *)
(* other, with an await between any two; activate and deactivate write two *)
(* of them one after the other:                                            *)
(*                                                                         *)
(*     flush the row  -->  SET or DEL the key  -->  commit the row         *)
(*                                                                         *)
(* The database is SQLite.  The flush takes its only write lock and the    *)
(* commit (or the rollback) gives it back; a flush that finds the lock     *)
(* taken waits for the busy timeout and then fails.  Reads take no lock    *)
(* and see committed rows.                                                 *)
(*                                                                         *)
(* A step that fails (Redis down, the process killed) ends the request:    *)
(* the session rolls back, but what Redis was told stays.                  *)
(***************************************************************************)
CONSTANTS
  Requests,   \* requests in progress: HTTP handlers, budget and drawdown triggers
  Readers,    \* processes that call is_active
  Others,     \* sessions that write to other tables of the same database
  Free        \* the lock has no holder

ASSUME SessionsAssumption ==
  /\ Free \notin Requests \cup Others
  /\ Requests \cap Others = {}

VARIABLES
  env,       \* env[r]: KILL_SWITCH is 1, true or yes in the environment of r
  redis,     \* the key kill_switch:active exists
  latest,    \* `activated` of the newest committed row, FALSE when there is none
  lock,      \* the session that holds the write lock, or Free
  wpc,       \* wpc[q]: what the request q does next
  op,        \* op[q]: TRUE for activate, FALSE for deactivate
  rpc,       \* rpc[r]: the source that the call of r reads next
  source,    \* source[r]: KillSwitchState.source of r's last answer
  seen,      \* history: the values of the switch during the call of r
  diverged   \* history: since the last Redis command of a request, its session
             \* rolled back or Redis lost the key

shared == <<redis, latest, lock>>
writers == <<wpc, op>>
readers == <<env, rpc, source>>
vars == <<env, redis, latest, lock, wpc, op, rpc, source, seen, diverged>>

(* The switch as the process of r sees it. *)
Active(r) == env[r] \/ redis \/ latest

TypeOK ==
  /\ env \in [Readers -> BOOLEAN]
  /\ redis \in BOOLEAN
  /\ latest \in BOOLEAN
  /\ lock \in Requests \cup Others \cup {Free}
  /\ wpc \in [Requests -> {"idle", "flush", "redis", "commit"}]
  /\ op \in [Requests -> BOOLEAN]
  /\ rpc \in [Readers -> {"idle", "env", "redis", "db"}]
  /\ source \in [Readers -> {"none", "env", "redis", "db", "inactive"}]
  /\ seen \in [Readers -> SUBSET BOOLEAN]
  /\ diverged \in BOOLEAN

Init ==
  /\ env \in [Readers -> BOOLEAN]
  /\ redis = FALSE
  /\ latest = FALSE
  /\ lock = Free
  /\ wpc = [q \in Requests |-> "idle"]
  /\ op = [q \in Requests |-> FALSE]
  /\ rpc = [r \in Readers |-> "idle"]
  /\ source = [r \in Readers |-> "none"]
  /\ seen = [r \in Readers |-> {}]
  /\ diverged = FALSE

(* The history of every step: a call in progress sees the switch after it. *)
Observe == seen' = [r \in Readers |->
                      IF rpc'[r] = "idle" THEN {} ELSE seen[r] \cup {Active(r)'}]

-----------------------------------------------------------------------------
(* Requests that write. *)

Activate(q) ==
  /\ wpc[q] = "idle"
  /\ wpc' = [wpc EXCEPT ![q] = "flush"]
  /\ op' = [op EXCEPT ![q] = TRUE]
  /\ UNCHANGED <<shared, readers, diverged>>

(* The endpoint answers 400, and writes nothing, unless X-Confirm is the     *)
(* expected phrase and X-Reason is not empty.                                *)
Deactivate(q, confirm, reason) ==
  /\ wpc[q] = "idle"
  /\ confirm = "I-understand"
  /\ reason # ""
  /\ wpc' = [wpc EXCEPT ![q] = "flush"]
  /\ op' = [op EXCEPT ![q] = FALSE]
  /\ UNCHANGED <<shared, readers, diverged>>

(* Variants with a defect are kept beside the action they differ from: each   *)
(* shows, in a run of its own, that a property notices the defect.            *)
FlushUnlocked(q) ==    \* the sessions do not exclude one another
  /\ wpc[q] = "flush"
  /\ lock' = q
  /\ wpc' = [wpc EXCEPT ![q] = "redis"]
  /\ UNCHANGED <<redis, latest, op, readers, diverged>>

Flush(q) ==
  /\ wpc[q] = "flush"
  /\ lock = Free
  /\ lock' = q
  /\ wpc' = [wpc EXCEPT ![q] = "redis"]
  /\ UNCHANGED <<redis, latest, op, readers, diverged>>

WaitForEver(q) ==      \* no busy timeout
  /\ wpc[q] = "flush"
  /\ lock = q
  /\ UNCHANGED <<shared, writers, readers, diverged>>

LockTimeout(q) ==
  /\ wpc[q] = "flush"
  /\ lock # Free
  /\ wpc' = [wpc EXCEPT ![q] = "idle"]
  /\ UNCHANGED <<shared, op, readers, diverged>>

WriteRedis(q) ==
  /\ wpc[q] = "redis"
  /\ redis' = op[q]
  /\ wpc' = [wpc EXCEPT ![q] = "commit"]
  /\ diverged' = FALSE
  /\ UNCHANGED <<latest, lock, op, readers>>

CommitUnfinished(q) == \* the request is not ended after its commit
  /\ wpc[q] = "commit"
  /\ latest' = op[q]
  /\ lock' = Free
  /\ wpc' = [wpc EXCEPT ![q] = "committed"]
  /\ UNCHANGED <<redis, op, readers, diverged>>

Commit(q) ==
  /\ wpc[q] = "commit"
  /\ latest' = op[q]
  /\ lock' = Free
  /\ wpc' = [wpc EXCEPT ![q] = "idle"]
  /\ UNCHANGED <<redis, op, readers, diverged>>

(* Redis refused the command or the publish, the commit failed, or the       *)
(* process died: the session rolls back.                                     *)
Abort(q) ==
  /\ wpc[q] \in {"flush", "redis", "commit"}
  /\ lock' = IF lock = q THEN Free ELSE lock
  /\ wpc' = [wpc EXCEPT ![q] = "idle"]
  /\ diverged' = (diverged \/ wpc[q] = "commit")
  /\ UNCHANGED <<redis, latest, op, readers>>

-----------------------------------------------------------------------------
(* is_active. *)

Call(r) ==
  /\ rpc[r] = "idle"
  /\ rpc' = [rpc EXCEPT ![r] = "env"]
  /\ UNCHANGED <<env, source, shared, writers, diverged>>

Return(r, from) ==
  /\ rpc' = [rpc EXCEPT ![r] = "idle"]
  /\ source' = [source EXCEPT ![r] = from]

GoOn(r, next) ==
  /\ rpc' = [rpc EXCEPT ![r] = next]
  /\ UNCHANGED source

ReadEnv(r) ==
  /\ rpc[r] = "env"
  /\ IF env[r] THEN Return(r, "env") ELSE GoOn(r, "redis")
  /\ UNCHANGED <<env, shared, writers, diverged>>

ReadRedisOnly(r) ==    \* Redis is believed when it has no key
  /\ rpc[r] = "redis"
  /\ Return(r, IF redis THEN "redis" ELSE "inactive")
  /\ UNCHANGED <<env, shared, writers, diverged>>

ReadRedis(r) ==
  /\ rpc[r] = "redis"
  /\ IF redis THEN Return(r, "redis") ELSE GoOn(r, "db")
  /\ UNCHANGED <<env, shared, writers, diverged>>

ReadLatest(r) ==
  /\ rpc[r] = "db"
  /\ Return(r, IF latest THEN "db" ELSE "inactive")
  /\ UNCHANGED <<env, shared, writers, diverged>>

(* Redis or the database raised: is_active propagates, there is no answer. *)
ReadFails(r) ==
  /\ rpc[r] \in {"redis", "db"}
  /\ rpc' = [rpc EXCEPT ![r] = "idle"]
  /\ UNCHANGED <<env, source, shared, writers, diverged>>

-----------------------------------------------------------------------------
(* The environment. *)

(* docker-compose gives Redis no volume: a restart empties it. *)
RedisLoss ==
  /\ redis' = FALSE
  /\ diverged' = (diverged \/ redis)
  /\ UNCHANGED <<latest, lock, writers, readers>>

(* The process of r restarts, possibly with another environment. *)
Restart(r, on) ==
  /\ env' = [env EXCEPT ![r] = on]
  /\ rpc' = [rpc EXCEPT ![r] = "idle"]
  /\ UNCHANGED <<source, shared, writers, diverged>>

(* Transactions of the other components, which only contend for the lock. *)
TakeLock(o) ==
  /\ lock = Free
  /\ lock' = o
  /\ UNCHANGED <<redis, latest, writers, readers, diverged>>

ReleaseLock(o) ==
  /\ lock = o
  /\ lock' = Free
  /\ UNCHANGED <<redis, latest, writers, readers, diverged>>

-----------------------------------------------------------------------------
Writing(q) ==
  \/ Activate(q)
  \/ \E confirm \in {"", "I-understand"}, reason \in {"", "maintenance"} :
       Deactivate(q, confirm, reason)
  \/ Flush(q)
  \/ LockTimeout(q)
  \/ WriteRedis(q)
  \/ Commit(q)
  \/ Abort(q)

Reading(r) ==
  \/ Call(r)
  \/ ReadEnv(r)
  \/ ReadRedis(r)
  \/ ReadLatest(r)
  \/ ReadFails(r)
  \/ \E on \in BOOLEAN : Restart(r, on)

Step ==
  \/ \E q \in Requests : Writing(q)
  \/ \E r \in Readers : Reading(r)
  \/ \E o \in Others : TakeLock(o) \/ ReleaseLock(o)
  \/ RedisLoss

Next == Step /\ Observe

Spec == Init /\ [][Next]_vars

(* A request that was accepted is a coroutine that the event loop resumes:   *)
(* its waits end, by an answer, an error or the busy timeout.  Nothing says  *)
(* that another session ever releases the lock.                              *)
Progress(q) ==
  (Flush(q) \/ LockTimeout(q) \/ WriteRedis(q) \/ Commit(q)) /\ Observe

FairSpec == Spec /\ \A q \in Requests : WF_vars(Progress(q))

-----------------------------------------------------------------------------
(* Properties. *)

(* The write lock serialises requests: only its holder is between its flush  *)
(* and its commit.                                                           *)
HolderWrites == \A q \in Requests : wpc[q] \in {"redis", "commit"} <=> lock = q

(* Redis and the database agree whenever no request is between its Redis     *)
(* command and its commit, unless a fault (a rollback after the command, or  *)
(* Redis losing its data) came after the last commit.  Two requests that run *)
(* concurrently never leave the key and the newest row on opposite sides.    *)
SourcesAgree ==
  (~diverged /\ \A q \in Requests : wpc[q] # "commit") => redis = latest

(* The switch refines what it promises: acknowledged activations stand,      *)
(* acknowledged deactivations leave both shared sources off, and every       *)
(* is_active answers with a value the switch had during the call, although   *)
(* it reads its three sources at three different moments.                    *)
sharedOn == redis \/ latest

Shown(from) == CASE from = "none" -> "none"
                 [] from = "inactive" -> "off"
                 [] OTHER -> "on"

answers == [r \in Readers |-> Shown(source[r])]

Promise == INSTANCE AbstractSwitch WITH
  held <- sharedOn, acked <- latest, window <- seen, answer <- answers

Promised == Promise!Spec

(* Every request ends: acknowledged, refused by the busy timeout, or failed, *)
(* even if another session keeps the write lock for ever.                    *)
RequestsEnd == \A q \in Requests : wpc[q] # "idle" ~> wpc[q] = "idle"
=============================================================================
