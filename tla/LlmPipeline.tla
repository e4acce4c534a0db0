------------------------------ MODULE LlmPipeline ------------------------------
(***************************************************************************)
(* From the Redis list raw_tweets to the Redis list events:                *)
(* backend/services/llm_pipeline.py, with the retry of                     *)
(* backend/providers/openai_compatible.py.                                 *)
(*                                                                         *)
(*   check    ask the kill switch, stop if it is on                        *)
(*   pop      take the oldest id off the list, for good                    *)
(*   load     read the raw_tweets row                                      *)
(*   analyze  first call to the LLM                                        *)
(*   retry    second call, after an answer that could not be parsed        *)
(*   flush    flush the llm_decisions row, which takes the write lock      *)
(*   resolve  resolve the tickers, look for the events that exist already  *)
(*   commit   commit the decision and the new events                       *)
(*   publish  RPUSH the ids of the new events, one at a time               *)
(*   charge   charge the calls to the day                                  *)
(*   trip     throw the kill switch, then stop                             *)
(*                                                                         *)
(* An event is a pair of a tweet and a ticker.                             *)
(***************************************************************************)
EXTENDS BudgetedWorker, Sequences

CONSTANTS
  Tweets,       \* the ids that can be on the list
  Known,        \* those with a raw_tweets row
  Tickers,
  MaxReplays    \* bound on ids put on the list again

ASSUME TweetsAssumption == Known \subseteq Tweets /\ MaxReplays \in Nat

VARIABLES
  queue,       \* the list raw_tweets
  received,    \* the ids that ingestion pushed
  replays,     \* how many times an id was pushed again
  hand,        \* hand[w]: what w knows of the tweet in hand
  taken,       \* history: the tweets that were popped
  decisions,   \* the tweets with a committed llm_decisions row
  events,      \* the committed events rows
  pushes       \* pushes[e]: how many times the id of e was pushed

input == <<queue, received, replays>>
database == <<decisions, events>>
vars == <<workerVars, input, hand, taken, database, pushes>>

Events == Tweets \X Tickers

Nothing == [tweet |-> "", tickers |-> {}, cost |-> 0, new |-> {}]

Hands == [tweet : Tweets \cup {""}, tickers : SUBSET Tickers, cost : Nat, new : SUBSET Events]

Control == {"pop", "load", "analyze", "retry", "flush", "resolve", "commit", "publish"}

TypeOK ==
  /\ WorkerTypeOK(Control)
  /\ queue \in Seq(Tweets)
  /\ received \subseteq Tweets
  /\ replays \in Nat
  /\ hand \in [Workers -> Hands]
  /\ taken \subseteq Tweets
  /\ decisions \subseteq Tweets
  /\ events \subseteq Events
  /\ pushes \in [Events -> Nat]

(* Everything but the kill switch. *)
Ready ==
  /\ WorkersReady("check")
  /\ queue = <<>>
  /\ received = {}
  /\ replays = 0
  /\ hand = [w \in Workers |-> Nothing]
  /\ taken = {}
  /\ decisions = {}
  /\ events = {}
  /\ pushes = [e \in Events |-> 0]

Init == KS!Init /\ Ready

-----------------------------------------------------------------------------
Check(w) ==
  /\ Ask(w) \/ Hear(w, "pop")
  /\ UNCHANGED <<input, hand, taken, database, pushes>>

Pop(w) ==
  /\ pc[w] = "pop"
  /\ queue # <<>>
  /\ queue' = Tail(queue)
  /\ hand' = [hand EXCEPT ![w] = [Nothing EXCEPT !.tweet = Head(queue)]]
  /\ taken' = taken \cup {Head(queue)}
  /\ Goto(w, "load")
  /\ UNCHANGED <<switch, budget, counters, received, replays, database, pushes>>

(* BLPOP times out: back to the pre-check. *)
PopNothing(w) ==
  /\ pc[w] = "pop"
  /\ queue = <<>>
  /\ Goto(w, "check")
  /\ UNCHANGED <<switch, budget, counters, input, hand, taken, database, pushes>>

(* An id that is no number, or that has no row, is dropped. *)
Load(w) ==
  /\ pc[w] = "load"
  /\ \/ /\ hand[w].tweet \in Known
        /\ UNCHANGED hand
        /\ Goto(w, "analyze")
     \/ /\ hand[w].tweet \notin Known
        /\ hand' = [hand EXCEPT ![w] = Nothing]
        /\ Goto(w, "check")
  /\ UNCHANGED <<switch, budget, counters, input, taken, database, pushes>>

(* A call that the LLM answers.  The tickers are those that resolve_tickers  *)
(* will find; none for a decision `noise'.  An answer that is no decision is *)
(* retried once, and then counts as noise.                                   *)
Analyze(w) ==
  /\ pc[w] \in {"analyze", "retry"}
  /\ \E cost \in Costs, tickers \in SUBSET Tickers :
       hand' = [hand EXCEPT ![w].cost = @ + cost, ![w].tickers = tickers]
  /\ Goto(w, "flush")
  /\ UNCHANGED <<switch, budget, counters, input, taken, database, pushes>>

AnalyzeForEver(w) ==   \* after the retry, the first call again
  /\ pc[w] \in {"analyze", "retry"}
  /\ hand' = [hand EXCEPT ![w].cost = MaxCost]
  /\ Goto(w, IF pc[w] = "analyze" THEN "retry" ELSE "analyze")
  /\ UNCHANGED <<switch, budget, counters, input, taken, database, pushes>>

AnalyzeInvalid(w) ==
  /\ pc[w] = "analyze"
  /\ \E cost \in Costs : hand' = [hand EXCEPT ![w].cost = @ + cost]
  /\ Goto(w, "retry")
  /\ UNCHANGED <<switch, budget, counters, input, taken, database, pushes>>

FlushStealing(w) ==    \* the write lock excludes nobody
  /\ pc[w] = "flush"
  /\ lock' = w
  /\ UNCHANGED <<env, redis, latest, wpc, op, rpc, source, diverged>>
  /\ Goto(w, "resolve")
  /\ UNCHANGED <<budget, counters, input, hand, taken, database, pushes>>

FlushUnlocked(w) ==    \* the write lock is not taken
  /\ pc[w] = "flush"
  /\ UNCHANGED switch
  /\ Goto(w, "resolve")
  /\ UNCHANGED <<budget, counters, input, hand, taken, database, pushes>>

Flush(w) ==
  /\ pc[w] = "flush"
  /\ KS!TakeLock(w)
  /\ Goto(w, "resolve")
  /\ UNCHANGED <<budget, counters, input, hand, taken, database, pushes>>

(* The busy timeout: OperationalError, the tweet is lost. *)
FlushTimesOut(w) ==
  /\ pc[w] = "flush"
  /\ lock # Free
  /\ hand' = [hand EXCEPT ![w] = Nothing]
  /\ Goto(w, "down")
  /\ UNCHANGED <<switch, budget, counters, input, taken, database, pushes>>

(* The events that exist already are skipped, and not published again. *)
ResolveAgain(w) ==     \* events that exist are published again
  /\ pc[w] = "resolve"
  /\ hand' = [hand EXCEPT ![w].new = {hand[w].tweet} \X hand[w].tickers]
  /\ Goto(w, "commit")
  /\ UNCHANGED <<switch, budget, counters, input, taken, database, pushes>>

Resolve(w) ==
  /\ pc[w] = "resolve"
  /\ hand' = [hand EXCEPT ![w].new = ({hand[w].tweet} \X hand[w].tickers) \ events]
  /\ Goto(w, "commit")
  /\ UNCHANGED <<switch, budget, counters, input, taken, database, pushes>>

CommitForgotten(w) ==  \* the session is closed without a commit
  /\ pc[w] = "commit"
  /\ EndSession(w)
  /\ Goto(w, IF hand[w].new = {} THEN "charge" ELSE "publish")
  /\ UNCHANGED <<budget, counters, input, hand, taken, database, pushes>>

Commit(w) ==
  /\ pc[w] = "commit"
  /\ EndSession(w)
  /\ decisions' = decisions \cup {hand[w].tweet}
  /\ events' = events \cup hand[w].new
  /\ Goto(w, IF hand[w].new = {} THEN "charge" ELSE "publish")
  /\ UNCHANGED <<budget, counters, input, hand, taken, pushes>>

PublishOne(w) ==       \* only the first of the new ids is pushed
  /\ pc[w] = "publish"
  /\ \E e \in hand[w].new : pushes' = [pushes EXCEPT ![e] = @ + 1]
  /\ Goto(w, "charge")
  /\ UNCHANGED <<switch, budget, counters, input, hand, taken, database>>

(* The ids are pushed in a fixed order; any order, here. *)
Publish(w) ==
  /\ pc[w] = "publish"
  /\ \E e \in hand[w].new :
       /\ pushes' = [pushes EXCEPT ![e] = @ + 1]
       /\ hand' = [hand EXCEPT ![w].new = @ \ {e}]
       /\ Goto(w, IF hand[w].new = {e} THEN "charge" ELSE "publish")
  /\ UNCHANGED <<switch, budget, counters, input, taken, database>>

ChargeCalls(w) ==
  /\ Charge(w, hand[w].cost, "check")
  /\ hand' = [hand EXCEPT ![w] = Nothing]
  /\ UNCHANGED <<input, taken, database, pushes>>

(* The LLM cannot be reached, refuses, or answers without content: analyze   *)
(* raises, which ends the worker.  A first call that was answered is not     *)
(* charged.                                                                  *)
LlmFails(w) ==
  /\ pc[w] \in {"analyze", "retry"}
  /\ hand' = [hand EXCEPT ![w] = Nothing]
  /\ Goto(w, "down")
  /\ UNCHANGED <<switch, budget, counters, input, taken, database, pushes>>

(* Another await raises, or the process dies. *)
Crash(w) ==
  /\ Fail(w)
  /\ hand' = [hand EXCEPT ![w] = Nothing]
  /\ UNCHANGED <<input, taken, database, pushes>>

(* A worker that stopped or died is started again. *)
Restarted(w) ==
  /\ Start(w, "check")
  /\ UNCHANGED <<input, hand, taken, database, pushes>>

-----------------------------------------------------------------------------
(* The environment. *)

(* Ingestion pushes an id once (Ingestion!Relayed). *)
Receive(t) ==
  /\ t \notin received
  /\ received' = received \cup {t}
  /\ queue' = Append(queue, t)
  /\ UNCHANGED <<switch, pc, budget, counters, replays, hand, taken, database, pushes>>

(* Someone pushes it again. *)
Replay(t) ==
  /\ t \in received
  /\ replays < MaxReplays
  /\ replays' = replays + 1
  /\ queue' = Append(queue, t)
  /\ UNCHANGED <<switch, pc, budget, counters, received, hand, taken, database, pushes>>

RedisRestarts ==
  /\ RedisLoss
  /\ queue' = <<>>
  /\ UNCHANGED <<received, replays, hand, taken, database, pushes>>

Operated(q) ==
  /\ Operate(q)
  /\ UNCHANGED <<input, hand, taken, database, pushes>>

-----------------------------------------------------------------------------
Handling(w) ==
  \/ Check(w) \/ Pop(w) \/ PopNothing(w) \/ Load(w)
  \/ Analyze(w) \/ AnalyzeInvalid(w)
  \/ Flush(w) \/ FlushTimesOut(w) \/ Resolve(w) \/ Commit(w)
  \/ Publish(w) \/ ChargeCalls(w)
  \/ Tripping(w) /\ UNCHANGED <<input, hand, taken, database, pushes>>

Step ==
  \/ \E w \in Workers :
       Handling(w) \/ LlmFails(w) \/ Crash(w) \/ Restarted(w)
  \/ \E t \in Tweets : Receive(t) \/ Replay(t)
  \/ RedisRestarts
  \/ NextPeriod /\ UNCHANGED <<input, hand, taken, database, pushes>>
  \/ \E q \in Operators : Operated(q)

Next == Step /\ KS!Observe

Spec == Init /\ [][Next]_vars

(* A worker is a coroutine whose awaits end; the client of the LLM has a     *)
(* timeout.                                                                  *)
FairSpec == Spec /\ \A w \in Workers : WF_vars(Handling(w) /\ KS!Observe)

-----------------------------------------------------------------------------
(* An event is pushed after its row is committed, and once, however often    *)
(* its tweet is replayed and by whichever worker: what the order pipeline    *)
(* takes for granted.                                                        *)
Promise == INSTANCE Relay WITH Items <- Events, stored <- events, sent <- pushes

Relayed == Promise!Spec

(* What a worker found missing is still missing when it commits, so that the *)
(* unique constraint on event_id never fails.                                *)
EventsAreNew == \A w \in Workers : pc[w] = "commit" => hand[w].new \cap events = {}

(* An event that is committed and never published is stranded: a rerun of its*)
(* tweet skips it (RerunsPublish).  That takes a fault among the pushes, and *)
(* a fault strands events of one tweet; a rerun with other tickers, or beside*)
(* the first one, strands none.                                              *)
Stranded ==
  {e \in events : pushes[e] = 0 /\ \A w \in Workers : pc[w] = "publish" => e \notin hand[w].new}

StrandedByFaults == Cardinality({e[1] : e \in Stranded}) <= faults

(* The day is over its budget by the calls in flight and no more; a tweet    *)
(* makes two calls at most, and is charged once, for both.                   *)
OverspendBounded == OverspendAtMost(2 * MaxCost)

(* llm_pipeline.py, steps 4 and 5: analyze never raises, and a decision row  *)
(* is always persisted.  Then a tweet that was taken has a decision or is in *)
(* the hands of a worker.                                                    *)
AlwaysDecided ==
  \A t \in taken \cap Known :
    t \in decisions \/ \E w \in Workers : hand[w].tweet = t

(* BACKLOG.md, LLM-03: over its budget, the worker refuses new calls.        *)
NoCallOverBudget ==
  [][\A w \in Workers :
       Analyze(w) \/ AnalyzeInvalid(w) => spend[period] < Limit]_vars

(* llm_pipeline.py: the unique constraint guards reruns, INV-6.  Then a tweet*)
(* that runs again would leave out only the events that were published, or   *)
(* that a worker is about to publish.                                        *)
RerunsPublish ==
  [][\A w \in Workers : Resolve(w) =>
       \A e \in {hand[w].tweet} \X hand[w].tickers :
         e \in events => \/ pushes[e] > 0
                         \/ \E v \in Workers : pc[v] = "publish" /\ e \in hand[v].new]_vars
=============================================================================
