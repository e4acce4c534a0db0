------------------------------- MODULE Ingestion -------------------------------
(***************************************************************************)
(* From the stream of twitterapi.io to the Redis list raw_tweets:          *)
(* backend/services/ingestion.py.                                          *)
(*                                                                         *)
(*   stream  wait for a tweet                                              *)
(*   check   ask the kill switch, stop if it is on                         *)
(*   insert  flush the raw_tweets row; tweet_id is unique                  *)
(*   commit  commit it                                                     *)
(*   push    RPUSH the id of the row                                       *)
(*   charge  charge the tweet to the month                                 *)
(*   trip    throw the kill switch, then stop                              *)
(*                                                                         *)
(* The stream forgets a tweet when it has yielded it; after a reconnection *)
(* the provider may deliver it again.                                      *)
(***************************************************************************)
EXTENDS BudgetedWorker

CONSTANTS
  Tweets,
  NoTweet,        \* nothing in hand
  MaxReplays      \* bound on the deliveries of a tweet that was delivered before

ASSUME TweetsAssumption == NoTweet \notin Tweets /\ MaxReplays \in Nat

VARIABLES
  hand,        \* hand[w]: the tweet that w is working on
  rows,        \* the tweets with a committed raw_tweets row
  pushes,      \* pushes[t]: how many times the row of t was pushed
  received,    \* the tweets that were yielded
  replays      \* how many times one was yielded again

stream == <<received, replays>>
vars == <<workerVars, hand, rows, pushes, stream>>

TypeOK ==
  /\ WorkerTypeOK({"stream", "insert", "commit", "push"})
  /\ hand \in [Workers -> Tweets \cup {NoTweet}]
  /\ rows \subseteq Tweets
  /\ pushes \in [Tweets -> Nat]
  /\ received \subseteq Tweets
  /\ replays \in Nat

Init ==
  /\ KS!Init
  /\ WorkersReady("stream")
  /\ hand = [w \in Workers |-> NoTweet]
  /\ rows = {}
  /\ pushes = [t \in Tweets |-> 0]
  /\ received = {}
  /\ replays = 0

Yield(w, t) ==
  /\ pc[w] = "stream"
  /\ \/ /\ t \notin received
        /\ received' = received \cup {t}
        /\ UNCHANGED replays
     \/ /\ t \in received /\ replays < MaxReplays
        /\ replays' = replays + 1
        /\ UNCHANGED received
  /\ hand' = [hand EXCEPT ![w] = t]
  /\ Goto(w, "check")
  /\ UNCHANGED <<switch, budget, counters, rows, pushes>>

(* A tweet in hand when the switch is on is dropped. *)
Check(w) ==
  /\ Ask(w) \/ Hear(w, "insert")
  /\ hand' = IF pc'[w] = "stopped" THEN [hand EXCEPT ![w] = NoTweet] ELSE hand
  /\ UNCHANGED <<rows, pushes, stream>>

(* The flush of a new row takes the write lock. *)
InsertUnlocked(w) ==   \* the write lock is not taken
  /\ pc[w] = "insert"
  /\ hand[w] \notin rows
  /\ UNCHANGED switch
  /\ Goto(w, "commit")
  /\ UNCHANGED <<budget, counters, hand, rows, pushes, stream>>

Insert(w) ==
  /\ pc[w] = "insert"
  /\ hand[w] \notin rows
  /\ KS!TakeLock(w)
  /\ Goto(w, "commit")
  /\ UNCHANGED <<budget, counters, hand, rows, pushes, stream>>

(* IntegrityError: roll back, count a duplicate, wait for the next tweet. *)
DuplicatePushed(w) ==  \* a duplicate goes the way of a new tweet
  /\ pc[w] = "insert"
  /\ lock = Free
  /\ hand[w] \in rows
  /\ Goto(w, "push")
  /\ UNCHANGED <<switch, budget, counters, hand, rows, pushes, stream>>

Duplicate(w) ==
  /\ pc[w] = "insert"
  /\ lock = Free
  /\ hand[w] \in rows
  /\ hand' = [hand EXCEPT ![w] = NoTweet]
  /\ Goto(w, "stream")
  /\ UNCHANGED <<switch, budget, counters, rows, pushes, stream>>

(* OperationalError, which the except clause does not catch. *)
InsertTimesOut(w) ==
  /\ pc[w] = "insert"
  /\ lock # Free
  /\ hand' = [hand EXCEPT ![w] = NoTweet]
  /\ Goto(w, "down")
  /\ UNCHANGED <<switch, budget, counters, rows, pushes, stream>>

CommitSilently(w) ==   \* the id is not pushed
  /\ pc[w] = "commit"
  /\ EndSession(w)
  /\ rows' = rows \cup {hand[w]}
  /\ Goto(w, "charge")
  /\ UNCHANGED <<budget, counters, hand, pushes, stream>>

Commit(w) ==
  /\ pc[w] = "commit"
  /\ EndSession(w)
  /\ rows' = rows \cup {hand[w]}
  /\ Goto(w, "push")
  /\ UNCHANGED <<budget, counters, hand, pushes, stream>>

Push(w) ==
  /\ pc[w] = "push"
  /\ pushes' = [pushes EXCEPT ![hand[w]] = @ + 1]
  /\ Goto(w, "charge")
  /\ UNCHANGED <<switch, budget, counters, hand, rows, stream>>

ChargeTweet(w) ==
  /\ \E cost \in Costs : Charge(w, cost, "stream")
  /\ hand' = [hand EXCEPT ![w] = NoTweet]
  /\ UNCHANGED <<rows, pushes, stream>>

Crash(w) ==
  /\ Fail(w)
  /\ hand' = [hand EXCEPT ![w] = NoTweet]
  /\ UNCHANGED <<rows, pushes, stream>>

-----------------------------------------------------------------------------
Handling(w) ==
  \/ Check(w)
  \/ Insert(w) \/ Duplicate(w) \/ InsertTimesOut(w)
  \/ Commit(w) \/ Push(w) \/ ChargeTweet(w)
  \/ Tripping(w) /\ UNCHANGED <<hand, rows, pushes, stream>>

Step ==
  \/ \E w \in Workers :
       \/ Handling(w) \/ Crash(w)
       \/ \E t \in Tweets : Yield(w, t)
       \/ Start(w, "stream") /\ UNCHANGED <<hand, rows, pushes, stream>>
  \/ /\ NextPeriod \/ RedisLoss \/ \E q \in Operators : Operate(q)
     /\ UNCHANGED <<hand, rows, pushes, stream>>

Next == Step /\ KS!Observe

Spec == Init /\ [][Next]_vars

-----------------------------------------------------------------------------
(* A tweet is pushed after its row is committed, and once however often it   *)
(* is delivered and to whichever worker.                                     *)
Promise == INSTANCE Relay WITH Items <- Tweets, stored <- rows, sent <- pushes

Relayed == Promise!Spec

(* The unique constraint never fails at the commit: between the flush of a   *)
(* row and its commit no other worker commits the same tweet.                *)
RowIsNew == \A w \in Workers : pc[w] = "commit" => hand[w] \notin rows

(* A tweet whose row is committed and whose id never goes to the list is     *)
(* stranded: a later delivery is a duplicate.  That takes a fault between the*)
(* commit and the push, and a fault strands one tweet: neither a duplicate,  *)
(* nor a switch that is thrown meanwhile, nor a spent budget, nor another    *)
(* worker strands any.                                                       *)
Stranded ==
  {t \in rows : pushes[t] = 0 /\ \A w \in Workers : pc[w] = "push" => hand[w] # t}

StrandedByFaults == Cardinality(Stranded) <= faults

(* The month is over its budget by the tweets in flight and no more. *)
OverspendBounded == OverspendAtMost(MaxCost)

(* BACKLOG.md, ING-02: a replay after a disconnection loses no tweet.  Then  *)
(* a tweet would be swallowed as a duplicate only if it was pushed or is in  *)
(* the hands of a worker that is about to push it.                           *)
NoTweetLost ==
  [][\A w \in Workers : Duplicate(w) =>
       \/ pushes[hand[w]] > 0
       \/ \E v \in Workers : pc[v] = "push" /\ hand[v] = hand[w]]_vars
=============================================================================
