--------------------------- MODULE KillSwitchProofs ---------------------------
(***************************************************************************)
(* The kill switch keeps its promise, for every set of requests, readers   *)
(* and contending sessions.                                                *)
(*                                                                         *)
(* The promise is not inductive.  A deactivation commits in the belief     *)
(* that the Redis key is gone, which holds because the write lock keeps    *)
(* every other request out from its flush to its commit (HolderWrites,     *)
(* KeyGone); an answer `inactive' was true at some moment of the call,     *)
(* which holds because a call that found no key and reaches the database   *)
(* either has already seen the switch off or finds the newest row on       *)
(* (CallsWatched).                                                         *)
(***************************************************************************)
EXTENDS KillSwitch, TLAPS

KeyGone == \A q \in Requests : wpc[q] = "commit" /\ ~op[q] => ~redis

CallsWatched == \A r \in Readers :
  /\ rpc[r] = "idle" => seen[r] = {}
  /\ rpc[r] # "idle" => Active(r) \in seen[r]
  /\ rpc[r] \in {"redis", "db"} => ~env[r]
  /\ rpc[r] = "db" => latest \/ FALSE \in seen[r]

KeyWritten == \A q \in Requests : wpc[q] = "commit" /\ ~diverged => redis = op[q]

WriteInv == TypeOK /\ HolderWrites /\ KeyGone /\ KeyWritten

(* Observe keeps the history a set of Booleans for every reader. *)
LEMMA ObserveType ==
  ASSUME TypeOK, Observe, rpc' \in [Readers -> {"idle", "env", "redis", "db"}],
         env' \in [Readers -> BOOLEAN], redis' \in BOOLEAN, latest' \in BOOLEAN
  PROVE  seen' \in [Readers -> SUBSET BOOLEAN]
<1>1. ASSUME NEW r \in Readers PROVE Active(r)' \in BOOLEAN
  BY DEF Active
<1>2. QED
  BY <1>1 DEF TypeOK, Observe

LEMMA TypeStep == TypeOK /\ [Next]_vars => TypeOK'
<1> SUFFICES ASSUME TypeOK, [Next]_vars
             PROVE  TypeOK'
  OBVIOUS
<1>1. CASE UNCHANGED vars
  BY <1>1 DEF TypeOK, vars
<1>2. CASE Next
  <2> DEFINE RestOK == /\ env' \in [Readers -> BOOLEAN]
                       /\ redis' \in BOOLEAN
                       /\ latest' \in BOOLEAN
                       /\ lock' \in Requests \cup Others \cup {Free}
                       /\ wpc' \in [Requests -> {"idle", "flush", "redis", "commit"}]
                       /\ op' \in [Requests -> BOOLEAN]
                       /\ rpc' \in [Readers -> {"idle", "env", "redis", "db"}]
                       /\ source' \in [Readers -> {"none", "env", "redis", "db", "inactive"}]
                       /\ diverged' \in BOOLEAN
  <2>1. ASSUME NEW q \in Requests, Writing(q) PROVE RestOK
    BY <2>1 DEF TypeOK, Writing, Activate, Deactivate, Flush, LockTimeout, WriteRedis,
                Commit, Abort, shared, writers, readers
  <2>2. ASSUME NEW r \in Readers, Reading(r) PROVE RestOK
    BY <2>2 DEF TypeOK, Reading, Call, ReadEnv, ReadRedis, ReadLatest, ReadFails, Restart,
                Return, GoOn, shared, writers, readers
  <2>3. ASSUME NEW o \in Others, TakeLock(o) \/ ReleaseLock(o) PROVE RestOK
    BY <2>3 DEF TypeOK, TakeLock, ReleaseLock, shared, writers, readers
  <2>4. ASSUME RedisLoss PROVE RestOK
    BY <2>4 DEF TypeOK, RedisLoss, shared, writers, readers
  <2>5. RestOK
    BY <1>2, <2>1, <2>2, <2>3, <2>4 DEF Next, Step
  <2>6. QED
    BY <1>2, <2>5, ObserveType DEF Next, TypeOK
<1>3. QED
  BY <1>1, <1>2

(* Type correctness of every state. *)
THEOREM TypeCorrect == Spec => []TypeOK
<1>1. Init => TypeOK
  BY DEF Init, TypeOK
<1>2. QED
  BY <1>1, TypeStep, PTL DEF Spec

(* The write lock and what its holder relies on: an invariant of the writing  *)
(* side alone.                                                               *)
LEMMA WriteInvStep == WriteInv /\ TypeOK' /\ [Next]_vars => WriteInv'
<1> SUFFICES ASSUME WriteInv, TypeOK', [Next]_vars
             PROVE  HolderWrites' /\ KeyGone' /\ KeyWritten'
  BY DEF WriteInv
<1> USE SessionsAssumption
    DEF WriteInv, TypeOK, HolderWrites, KeyGone, KeyWritten, shared, writers, readers
<1>1. ASSUME NEW q \in Requests, Writing(q) PROVE HolderWrites' /\ KeyGone' /\ KeyWritten'
  <2>1. CASE Activate(q)
    BY <2>1 DEF Activate
  <2>2. ASSUME NEW confirm, NEW reason, Deactivate(q, confirm, reason)
        PROVE  HolderWrites' /\ KeyGone' /\ KeyWritten'
    BY <2>2 DEF Deactivate
  <2>3. CASE Flush(q)
    BY <2>3 DEF Flush
  <2>4. CASE LockTimeout(q)
    BY <2>4 DEF LockTimeout
  <2>5. CASE WriteRedis(q)
    BY <2>5 DEF WriteRedis
  <2>6. CASE Commit(q)
    BY <2>6 DEF Commit
  <2>7. CASE Abort(q)
    BY <2>7 DEF Abort
  <2>8. QED
    BY <1>1, <2>1, <2>2, <2>3, <2>4, <2>5, <2>6, <2>7 DEF Writing
<1>2. ASSUME NEW r \in Readers, Reading(r) PROVE HolderWrites' /\ KeyGone' /\ KeyWritten'
  BY <1>2 DEF Reading, Call, ReadEnv, ReadRedis, ReadLatest, ReadFails, Restart
<1>3. ASSUME NEW o \in Others, TakeLock(o) \/ ReleaseLock(o)
      PROVE  HolderWrites' /\ KeyGone' /\ KeyWritten'
  BY <1>3 DEF TakeLock, ReleaseLock
<1>4. CASE RedisLoss
  BY <1>4 DEF RedisLoss
<1>5. CASE UNCHANGED vars
  BY <1>5 DEF vars
<1>6. QED
  BY <1>1, <1>2, <1>3, <1>4, <1>5 DEF Next, Step

LEMMA WriteInvariant == Spec => []WriteInv
<1>1. Init => HolderWrites /\ KeyGone /\ KeyWritten
  BY SessionsAssumption DEF Init, HolderWrites, KeyGone, KeyWritten
<1>2. TypeOK /\ HolderWrites /\ KeyGone /\ KeyWritten <=> WriteInv
  BY DEF WriteInv
<1>3. QED
  BY <1>1, <1>2, WriteInvStep, TypeCorrect, PTL DEF Spec

(* The write lock serialises the requests of api/kill_switch.py: a request   *)
(* that flushed holds it until its commit.                                   *)
THEOREM LockSerialises == Spec => []HolderWrites
<1>1. WriteInv => HolderWrites
  BY DEF WriteInv
<1>2. QED
  BY <1>1, WriteInvariant, PTL

(* Without a fault, and outside a request's commit, Redis and the database   *)
(* hold the same value.                                                      *)
THEOREM Agreement == Spec => []SourcesAgree
<1>1. Init => SourcesAgree
  BY DEF Init, SourcesAgree
<1>2. WriteInv /\ SourcesAgree /\ [Next]_vars => SourcesAgree'
  <2> SUFFICES ASSUME WriteInv, SourcesAgree, [Next]_vars
               PROVE  SourcesAgree'
    OBVIOUS
  <2> USE DEF WriteInv, TypeOK, HolderWrites, KeyWritten, SourcesAgree, shared, writers, readers
  <2>1. ASSUME NEW q \in Requests, Activate(q) \/ Flush(q) \/ LockTimeout(q)
        PROVE  SourcesAgree'
    BY <2>1 DEF Activate, Flush, LockTimeout
  <2>2. ASSUME NEW q \in Requests, NEW confirm, NEW reason, Deactivate(q, confirm, reason)
        PROVE  SourcesAgree'
    BY <2>2 DEF Deactivate
  <2>3. ASSUME NEW q \in Requests, WriteRedis(q) PROVE SourcesAgree'
    BY <2>3 DEF WriteRedis
  <2>4. ASSUME NEW q \in Requests, Commit(q) PROVE SourcesAgree'
    BY <2>4 DEF Commit
  <2>5. ASSUME NEW q \in Requests, Abort(q) PROVE SourcesAgree'
    BY <2>5 DEF Abort
  <2>6. ASSUME NEW r \in Readers, Reading(r) PROVE SourcesAgree'
    BY <2>6 DEF Reading, Call, ReadEnv, ReadRedis, ReadLatest, ReadFails, Restart
  <2>7. ASSUME NEW o \in Others, TakeLock(o) \/ ReleaseLock(o) PROVE SourcesAgree'
    BY <2>7 DEF TakeLock, ReleaseLock
  <2>8. CASE RedisLoss
    BY <2>8 DEF RedisLoss
  <2>9. CASE UNCHANGED vars
    BY <2>9 DEF vars
  <2>10. QED
    BY <2>1, <2>2, <2>3, <2>4, <2>5, <2>6, <2>7, <2>8, <2>9 DEF Next, Step, Writing
<1>3. QED
  BY <1>1, <1>2, WriteInvariant, PTL DEF Spec

(* A call in progress knows the values the switch had since it began.  The   *)
(* newest row goes off only when a deactivation commits, and its request has *)
(* removed the key and still holds the lock: then the switch is off, and a   *)
(* call that already looked for the key sees it.                             *)
LEMMA CallsWatchedStep ==
  WriteInv /\ TypeOK' /\ CallsWatched /\ [Next]_vars => CallsWatched'
<1> SUFFICES ASSUME WriteInv, TypeOK', CallsWatched, [Next]_vars, NEW r \in Readers
             PROVE  /\ rpc'[r] = "idle" => seen'[r] = {}
                    /\ rpc'[r] # "idle" => Active(r)' \in seen'[r]
                    /\ rpc'[r] \in {"redis", "db"} => ~env'[r]
                    /\ rpc'[r] = "db" => latest' \/ FALSE \in seen'[r]
  BY DEF CallsWatched
<1>1. CASE UNCHANGED vars
  BY <1>1 DEF vars, CallsWatched, Active
<1>2. CASE Next
  <2>1. seen'[r] = IF rpc'[r] = "idle" THEN {} ELSE seen[r] \cup {Active(r)'}
    BY <1>2 DEF Next, Observe
  <2> DEFINE Known == /\ rpc'[r] \in {"redis", "db"} => ~env'[r]
                      /\ rpc'[r] = "db" => latest' \/ FALSE \in seen[r] \/ ~Active(r)'
  <2> USE DEF WriteInv, TypeOK, KeyGone, CallsWatched, Active, shared, writers, readers
  <2>2. ASSUME NEW q \in Requests, Writing(q) PROVE Known
    BY <2>2 DEF Writing, Activate, Deactivate, Flush, LockTimeout, WriteRedis, Commit, Abort
  <2>3. ASSUME NEW s \in Readers, Reading(s) PROVE Known
    <3>1. CASE Call(s)
      BY <3>1 DEF Call
    <3>2. CASE ReadEnv(s)
      <4>1. CASE s = r /\ ~env[s]
        BY <3>2, <4>1 DEF ReadEnv, GoOn
      <4>2. CASE s # r \/ env[s]
        <5>1. rpc'[r] \in {"idle", rpc[r]} /\ UNCHANGED <<env, redis, latest>>
          BY <3>2, <4>2 DEF ReadEnv, Return, GoOn
        <5>2. QED
          BY <5>1
      <4>3. QED
        BY <4>1, <4>2
    <3>3. CASE ReadRedis(s)
      <4>1. CASE s = r /\ ~redis
        BY <3>3, <4>1 DEF ReadRedis, GoOn
      <4>2. CASE s # r \/ redis
        <5>1. rpc'[r] \in {"idle", rpc[r]} /\ UNCHANGED <<env, redis, latest>>
          BY <3>3, <4>2 DEF ReadRedis, Return, GoOn
        <5>2. QED
          BY <5>1
      <4>3. QED
        BY <4>1, <4>2
    <3>4. CASE ReadLatest(s)
      BY <3>4 DEF ReadLatest, Return
    <3>5. CASE ReadFails(s)
      BY <3>5 DEF ReadFails
    <3>6. ASSUME NEW on \in BOOLEAN, Restart(s, on) PROVE Known
      BY <3>6 DEF Restart
    <3>7. QED
      BY <2>3, <3>1, <3>2, <3>3, <3>4, <3>5, <3>6 DEF Reading
  <2>4. ASSUME NEW o \in Others, TakeLock(o) \/ ReleaseLock(o) PROVE Known
    BY <2>4 DEF TakeLock, ReleaseLock
  <2>5. ASSUME RedisLoss PROVE Known
    BY <2>5 DEF RedisLoss
  <2>6. Known
    BY <1>2, <2>2, <2>3, <2>4, <2>5 DEF Next, Step
  <2>7. Active(r)' = TRUE \/ Active(r)' = FALSE
    OBVIOUS
  <2>8. QED
    BY <2>1, <2>6, <2>7
<1>3. QED
  BY <1>1, <1>2

SwitchInv == WriteInv /\ CallsWatched

LEMMA SwitchInvInit == Init => SwitchInv
<1>1. Init => TypeOK
  BY DEF Init, TypeOK
<1>2. Init => HolderWrites /\ KeyGone /\ KeyWritten /\ CallsWatched
  BY SessionsAssumption DEF Init, HolderWrites, KeyGone, KeyWritten, CallsWatched
<1>3. QED
  BY <1>1, <1>2 DEF SwitchInv, WriteInv

LEMMA SwitchInvStep == SwitchInv /\ [Next]_vars => SwitchInv'
<1>1. WriteInv => TypeOK
  BY DEF WriteInv
<1>2. QED
  BY <1>1, TypeStep, WriteInvStep, CallsWatchedStep DEF SwitchInv

(* What a step does to the history: a step that changes no call lets every    *)
(* call in progress see the switch after it, and a step of one reader leaves  *)
(* the other calls as they were.                                              *)
LEMMA ChangeWatched ==
  ASSUME WriteInv, CallsWatched, TypeOK', Observe, UNCHANGED <<env, rpc>>
  PROVE  Promise!Watch
<1>1. ASSUME NEW r \in Readers
      PROVE  /\ Active(r)' <=> Promise!On(r)'
             /\ rpc'[r] = "idle" <=> seen[r] = {}
  BY <1>1 DEF Active, Promise!On, sharedOn, CallsWatched
<1>2. ASSUME NEW r \in Readers PROVE Active(r)' = Promise!On(r)'
  BY DEF Active, Promise!On, sharedOn
<1>3. QED
  BY <1>1, <1>2 DEF Observe, Promise!Watch

LEMMA CallWatched ==
  ASSUME WriteInv, CallsWatched, TypeOK', Observe, UNCHANGED <<redis, latest>>,
         NEW r \in Readers, NEW next,
         rpc' = [rpc EXCEPT ![r] = next],
         \A s \in Readers \ {r} : env'[s] = env[s]
  PROVE  seen' = [seen EXCEPT ![r] = IF next = "idle" THEN {}
                                                      ELSE seen[r] \cup {Active(r)'}]
<1>1. ASSUME NEW s \in Readers \ {r} PROVE seen'[s] = seen[s]
  <2>1. Active(s)' = Active(s) /\ rpc'[s] = rpc[s]
    BY DEF Active, WriteInv, TypeOK
  <2>2. QED
    BY <2>1 DEF Observe, CallsWatched
<1>2. seen'[r] = IF next = "idle" THEN {} ELSE seen[r] \cup {Active(r)'}
  BY DEF Observe, WriteInv, TypeOK
<1>3. QED
  BY <1>1, <1>2 DEF WriteInv, TypeOK

LEMMA NothingWatched ==
  ASSUME WriteInv, CallsWatched, TypeOK', Observe, UNCHANGED <<env, rpc, redis, latest>>
  PROVE  UNCHANGED seen
<1>1. ASSUME NEW s \in Readers PROVE seen'[s] = seen[s]
  <2>1. Active(s)' = Active(s)
    BY DEF Active
  <2>2. QED
    BY <2>1 DEF Observe, CallsWatched
<1>2. QED
  BY <1>1 DEF WriteInv, TypeOK

(* Each step of the requests raises, forgets or acknowledges, or is hidden.   *)
LEMMA WritingKeepsPromise ==
  ASSUME WriteInv, CallsWatched, TypeOK', Observe, NEW q \in Requests, Writing(q)
  PROVE  Promise!Next \/ UNCHANGED Promise!vars
<1> USE DEF shared, writers, readers
<1>1. UNCHANGED <<env, rpc, source>>
  BY DEF Writing, Activate, Deactivate, Flush, LockTimeout, WriteRedis, Commit, Abort
<1>2. UNCHANGED <<env, answers>> /\ Promise!Watch
  BY <1>1, ChangeWatched DEF answers
<1>3. CASE UNCHANGED <<redis, latest>>
  BY <1>1, <1>2, <1>3, NothingWatched DEF Promise!vars, sharedOn
<1>4. CASE WriteRedis(q)
  <2>1. UNCHANGED latest /\ redis' = op[q]
    BY <1>4 DEF WriteRedis
  <2>2. CASE latest \/ op[q]
    <3>1. sharedOn' = TRUE
      BY <2>1, <2>2 DEF sharedOn
    <3>2. QED
      BY <1>2, <2>1, <3>1 DEF Promise!Next, Promise!Raise
  <2>3. CASE ~latest /\ ~op[q]
    <3>1. sharedOn' = FALSE
      BY <2>1, <2>3 DEF sharedOn, WriteInv, TypeOK
    <3>2. QED
      BY <1>2, <2>1, <2>3, <3>1 DEF Promise!Next, Promise!Forget
  <2>4. QED
    BY <2>2, <2>3
<1>5. CASE Commit(q)
  <2>1. latest' = op[q] /\ UNCHANGED redis /\ (~op[q] => ~redis) /\ op[q] \in BOOLEAN
    BY <1>5 DEF Commit, WriteInv, TypeOK, KeyGone
  <2>2. sharedOn' = op[q]
    BY <2>1 DEF sharedOn, WriteInv, TypeOK
  <2>3. Promise!Acknowledge(op[q])
    BY <1>2, <2>1, <2>2 DEF Promise!Acknowledge
  <2>4. QED
    BY <2>1, <2>3 DEF Promise!Next
<1>6. QED
  BY <1>3, <1>4, <1>5 DEF Writing, Activate, Deactivate, Flush, LockTimeout, Abort

(* Each step of is_active begins a call, answers with a value the switch had, *)
(* gives up, restarts, or is hidden.                                          *)
LEMMA ReadingKeepsPromise ==
  ASSUME WriteInv, CallsWatched, TypeOK', CallsWatched', Observe,
         NEW r \in Readers, Reading(r)
  PROVE  Promise!Next \/ UNCHANGED Promise!vars
<1> USE DEF shared, writers, readers
<1>1. UNCHANGED <<redis, latest, sharedOn>>
  BY DEF Reading, Call, ReadEnv, ReadRedis, ReadLatest, ReadFails, Restart, sharedOn
<1>2. CASE Call(r)
  <2> DEFINE next == "env"
  <2>0. rpc' = [rpc EXCEPT ![r] = next] /\ next # "idle" /\ UNCHANGED env
    BY <1>2 DEF Call
  <2>1. seen' = [seen EXCEPT ![r] = seen[r] \cup {Active(r)'}]
    <3> HIDE DEF next
    <3> QED
      BY <1>1, <2>0, CallWatched
  <2>2. seen[r] = {} /\ Active(r)' = Promise!On(r)
    BY <1>1, <1>2 DEF Call, CallsWatched, Active, Promise!On, sharedOn
  <2>3. Promise!Call(r)
    BY <1>1, <1>2, <2>1, <2>2 DEF Call, Promise!Call, answers
  <2>4. QED
    BY <2>3 DEF Promise!Next
<1>3. ASSUME NEW from \in {"env", "redis", "db", "inactive"}, Return(r, from),
             (IF from = "inactive" THEN FALSE ELSE TRUE) \in seen[r], UNCHANGED env
      PROVE  Promise!Next
  <2>1. seen' = [seen EXCEPT ![r] = {}]
    BY <1>1, <1>3, CallWatched DEF Return
  <2>2. answers' = [answers EXCEPT ![r] = IF from = "inactive" THEN "off" ELSE "on"]
    BY <1>3 DEF Return, answers, Shown, WriteInv, TypeOK
  <2>3. Promise!Answer(r)
    <3>1. CASE from = "inactive"
      BY <1>1, <1>3, <2>1, <2>2, <3>1 DEF Promise!Answer
    <3>2. CASE from # "inactive"
      BY <1>1, <1>3, <2>1, <2>2, <3>2 DEF Promise!Answer
    <3>3. QED
      BY <3>1, <3>2
  <2>4. QED
    BY <2>3 DEF Promise!Next
<1>4. ASSUME NEW next \in {"redis", "db"}, rpc[r] # "idle", GoOn(r, next), UNCHANGED env
      PROVE  UNCHANGED Promise!vars
  <2>1. seen' = [seen EXCEPT ![r] = seen[r] \cup {Active(r)'}]
    BY <1>1, <1>4, CallWatched DEF GoOn
  <2>2. Active(r)' \in seen[r]
    BY <1>1, <1>4 DEF Active, CallsWatched
  <2>3. UNCHANGED seen
    BY <2>1, <2>2 DEF WriteInv, TypeOK
  <2>4. QED
    BY <1>1, <1>4, <2>3 DEF GoOn, Promise!vars, answers
<1>5. CASE ReadEnv(r)
  <2>1. CASE env[r]
    <3>1. Active(r) = TRUE /\ rpc[r] # "idle"
      BY <1>5, <2>1 DEF Active, ReadEnv
    <3>2. QED
      BY <1>3, <1>5, <2>1, <3>1 DEF ReadEnv, CallsWatched
  <2>2. CASE ~env[r]
    BY <1>4, <1>5, <2>2 DEF ReadEnv
  <2>3. QED
    BY <2>1, <2>2
<1>6. CASE ReadRedis(r)
  <2>1. CASE redis
    <3>1. Active(r) = TRUE /\ rpc[r] # "idle"
      BY <1>6, <2>1 DEF Active, ReadRedis
    <3>2. QED
      BY <1>3, <1>6, <2>1, <3>1 DEF ReadRedis, CallsWatched
  <2>2. CASE ~redis
    BY <1>4, <1>6, <2>2 DEF ReadRedis
  <2>3. QED
    BY <2>1, <2>2
<1>7. CASE ReadLatest(r)
  <2>1. CASE latest
    <3>1. Active(r) = TRUE /\ rpc[r] # "idle"
      BY <1>7, <2>1 DEF Active, ReadLatest
    <3>2. QED
      BY <1>3, <1>7, <2>1, <3>1 DEF ReadLatest, CallsWatched
  <2>2. CASE ~latest
    <3>1. FALSE \in seen[r]
      BY <1>7, <2>2 DEF ReadLatest, CallsWatched
    <3>2. QED
      BY <1>3, <1>7, <2>2, <3>1 DEF ReadLatest
  <2>3. QED
    BY <2>1, <2>2
<1>8. CASE ReadFails(r)
  <2>1. seen' = [seen EXCEPT ![r] = {}]
    BY <1>1, <1>8, CallWatched DEF ReadFails
  <2>2. Promise!GiveUp(r)
    BY <1>1, <1>8, <2>1 DEF ReadFails, Promise!GiveUp, answers
  <2>3. QED
    BY <2>2 DEF Promise!Next
<1>9. ASSUME NEW on \in BOOLEAN, Restart(r, on)
      PROVE  Promise!Next
  <2>1. seen' = [seen EXCEPT ![r] = {}]
    BY <1>1, <1>9, CallWatched DEF Restart, WriteInv, TypeOK
  <2>2. Promise!Restart(r)
    BY <1>1, <1>9, <2>1 DEF Restart, Promise!Restart, answers
  <2>3. QED
    BY <2>2 DEF Promise!Next
<1>10. QED
  BY <1>2, <1>5, <1>6, <1>7, <1>8, <1>9 DEF Reading

(* The kill switch implements its promise.                                    *)
THEOREM Refinement == Spec => Promised
<1>1. Init => Promise!Init /\ CallsWatched
  BY DEF Init, Promise!Init, CallsWatched, sharedOn, answers, Shown
<1>2. WriteInv /\ CallsWatched /\ TypeOK' /\ CallsWatched' /\ [Next]_vars
        => [Promise!Next]_(Promise!vars)
  <2> SUFFICES ASSUME WriteInv, CallsWatched, TypeOK', CallsWatched', [Next]_vars
               PROVE  Promise!Next \/ UNCHANGED Promise!vars
    OBVIOUS
  <2>1. CASE UNCHANGED vars
    BY <2>1 DEF vars, Promise!vars, sharedOn, answers
  <2>2. ASSUME Observe, NEW o \in Others, TakeLock(o) \/ ReleaseLock(o)
        PROVE  UNCHANGED Promise!vars
    <3>1. UNCHANGED <<env, rpc, source, redis, latest>>
      BY <2>2 DEF TakeLock, ReleaseLock, readers
    <3>2. QED
      BY <2>2, <3>1, NothingWatched DEF Promise!vars, sharedOn, answers
  <2>3. ASSUME Observe, RedisLoss PROVE Promise!Next \/ UNCHANGED Promise!vars
    <3>1. UNCHANGED <<env, rpc, source, latest>> /\ redis' = FALSE
      BY <2>3 DEF RedisLoss, readers
    <3>2. CASE latest
      <4>1. UNCHANGED <<answers, latest>> /\ sharedOn' = TRUE
        BY <3>1, <3>2 DEF answers, sharedOn
      <4>2. QED
        BY <2>3, <3>1, <4>1, ChangeWatched DEF Promise!Next, Promise!Raise
    <3>3. CASE ~latest
      <4>1. UNCHANGED <<answers, latest>> /\ sharedOn' = FALSE
        BY <3>1, <3>3 DEF answers, sharedOn, WriteInv, TypeOK
      <4>2. QED
        BY <2>3, <3>1, <3>3, <4>1, ChangeWatched DEF Promise!Next, Promise!Forget
    <3>4. QED
      BY <3>2, <3>3
  <2>4. QED
    BY <2>1, <2>2, <2>3, WritingKeepsPromise, ReadingKeepsPromise DEF Next, Step
<1>3. QED
  BY <1>1, <1>2, TypeCorrect, WriteInvariant, CallsWatchedStep, PTL DEF Spec, Promised, Promise!Spec
=============================================================================
