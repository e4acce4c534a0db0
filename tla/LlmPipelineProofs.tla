--------------------------- MODULE LlmPipelineProofs ---------------------------
(***************************************************************************)
(* The LLM worker, for every number of workers, tweets, tickers, costs and *)
(* operators.                                                              *)
(*                                                                         *)
(* It is built like IngestionProofs.  Two things are of its own: a charge  *)
(* is for two calls at most, which is known from the program counter       *)
(* (ItemsType), and a commit stores several events, which the worker found *)
(* missing while it held the write lock, and which it pushes one by one    *)
(* after it gave the lock back (HandsInv).                                 *)
(***************************************************************************)
EXTENDS LlmPipeline, BudgetedWorkerProofs

Idle == {"check", "stopped", "down"}

Most == 2 * MaxCost

LEMMA Chosen == Parameters(Idle, Most)
  BY Dearest DEF Parameters, Idle, Most, Points

-----------------------------------------------------------------------------
(* Types, and what a tweet in hand has cost so far. *)
InHand == {"load", "analyze", "retry", "flush", "resolve", "commit", "publish", "charge"}

ItemsType ==
  /\ pc \in [Workers -> Control \cup {"check", "charge", "trip", "stopped", "down"}]
  /\ hand \in [Workers -> Hands]
  /\ \A w \in Workers :
       /\ pc[w] \in InHand => hand[w].tweet \in Tweets
       /\ pc[w] \in {"load", "analyze"} => hand[w].cost = 0
       /\ pc[w] = "retry" => hand[w].cost <= MaxCost
       /\ pc[w] \in InHand => hand[w].cost <= Most
  /\ queue \in Seq(Tweets)
  /\ received \subseteq Tweets
  /\ replays \in Nat
  /\ taken \subseteq Tweets
  /\ decisions \subseteq Tweets
  /\ events \subseteq Events
  /\ pushes \in [Events -> Nat]

LEMMA HandFields ==
  ASSUME NEW h \in Hands
  PROVE  /\ h.tweet \in Tweets \cup {""} /\ h.tickers \in SUBSET Tickers
         /\ h.cost \in Nat /\ h.new \in SUBSET Events
  BY DEF Hands

LEMMA FreshHand ==
  /\ Nothing \in Hands /\ Nothing.cost = 0 /\ Nothing.new = {}
  /\ \A t \in Tweets : /\ [Nothing EXCEPT !.tweet = t] \in Hands
                       /\ [Nothing EXCEPT !.tweet = t].tweet = t
                       /\ [Nothing EXCEPT !.tweet = t].cost = 0
  BY DEF Nothing, Hands

(* A call changes the cost and the tickers in hand, a commit or a push the   *)
(* events, and nothing else.                                                 *)
LEMMA OtherCost ==
  ASSUME hand \in [Workers -> Hands], NEW w \in Workers, NEW c \in Nat,
         hand' = [hand EXCEPT ![w].cost = c]
  PROVE  /\ hand' \in [Workers -> Hands]
         /\ hand'[w].tweet = hand[w].tweet
         /\ hand'[w].cost = c
         /\ \A v \in Workers \ {w} : hand'[v] = hand[v]
  BY DEF Hands

LEMMA OtherTickers ==
  ASSUME hand \in [Workers -> Hands], NEW w \in Workers, NEW c \in Nat, NEW s \in SUBSET Tickers,
         hand' = [hand EXCEPT ![w].cost = c, ![w].tickers = s]
  PROVE  /\ hand' \in [Workers -> Hands]
         /\ hand'[w].tweet = hand[w].tweet
         /\ hand'[w].cost = c
         /\ \A v \in Workers \ {w} : hand'[v] = hand[v]
  BY DEF Hands

LEMMA OtherNew ==
  ASSUME hand \in [Workers -> Hands], NEW w \in Workers, NEW new \in SUBSET Events,
         hand' = [hand EXCEPT ![w].new = new]
  PROVE  /\ hand' \in [Workers -> Hands]
         /\ hand'[w].tweet = hand[w].tweet /\ hand'[w].cost = hand[w].cost
         /\ hand'[w].new = new
         /\ \A v \in Workers \ {w} : hand'[v] = hand[v]
  BY DEF Hands

(* A call adds its cost and leaves the tweet in hand. *)
LEMMA CallInHand ==
  ASSUME hand \in [Workers -> Hands], NEW w \in Workers, Analyze(w) \/ AnalyzeInvalid(w)
  PROVE  /\ hand' \in [Workers -> Hands]
         /\ hand'[w].tweet = hand[w].tweet
         /\ hand'[w].cost <= hand[w].cost + MaxCost
         /\ \A v \in Workers \ {w} : hand'[v] = hand[v]
<1>1. PICK cost \in Costs, s \in SUBSET Tickers :
        \/ hand' = [hand EXCEPT ![w].cost = @ + cost, ![w].tickers = s]
        \/ hand' = [hand EXCEPT ![w].cost = @ + cost]
  BY DEF Analyze, AnalyzeInvalid
<1> DEFINE c == hand[w].cost + cost
<1>2. c \in Nat /\ c <= hand[w].cost + MaxCost
  <2>1. hand[w].cost \in Nat
    BY HandFields
  <2>2. cost \in Nat /\ cost <= MaxCost /\ MaxCost \in Nat
    BY Dearest
  <2>3. QED
    BY <2>1, <2>2
<1>3. \/ hand' = [hand EXCEPT ![w].cost = c, ![w].tickers = s]
      \/ hand' = [hand EXCEPT ![w].cost = c]
  BY <1>1
<1> HIDE DEF c
<1>4. QED
  BY <1>2, <1>3, OtherCost, OtherTickers

(* Stated of Step alone: it holds of an analyst in company, too, whose calls *)
(* to is_active are watched with those of others (TradingProofs).            *)
items == <<pc, input, hand, taken, database, pushes>>

LEMMA ItemsTypeStep == ItemsType /\ [Step]_items => ItemsType'
<1> SUFFICES ASSUME ItemsType, [Step]_items PROVE ItemsType'
  OBVIOUS
<1> DEFINE RestOK == /\ queue' \in Seq(Tweets)
                     /\ received' \subseteq Tweets
                     /\ replays' \in Nat
                     /\ taken' \subseteq Tweets
                     /\ decisions' \subseteq Tweets
                     /\ events' \subseteq Events
                     /\ pushes' \in [Events -> Nat]
           OneOK(w) == /\ pc'[w] \in InHand => hand'[w].tweet \in Tweets
                       /\ pc'[w] \in {"load", "analyze"} => hand'[w].cost = 0
                       /\ pc'[w] = "retry" => hand'[w].cost <= MaxCost
                       /\ pc'[w] \in InHand => hand'[w].cost <= Most
<1> USE DEF Goto, input, database
<1>1. ASSUME NEW w \in Workers, OneOK(w), RestOK,
             hand' \in [Workers -> Hands],
             \A v \in Workers \ {w} : hand'[v] = hand[v],
             NEW next \in Control \cup {"check", "charge", "trip", "stopped", "down"},
             pc' = [pc EXCEPT ![w] = next] \/ pc' = pc
      PROVE  ItemsType'
  BY <1>1 DEF ItemsType
<1>2. MaxCost \in Nat /\ Most \in Nat /\ MaxCost <= Most /\ MaxCost + MaxCost <= Most
  BY Dearest DEF Most
<1>3. ASSUME NEW w \in Workers, UNCHANGED <<input, hand, taken, database, pushes>>,
             NEW next \in {"check", "trip", "stopped", "down", "pop"},
             pc' = [pc EXCEPT ![w] = next] \/ pc' = pc
      PROVE  ItemsType'
  BY <1>3 DEF ItemsType, InHand, Control
<1>4. ASSUME NEW w \in Workers,
             Check(w) \/ PopNothing(w) \/ Restarted(w)
               \/ (Tripping(w) /\ UNCHANGED <<input, hand, taken, database, pushes>>)
      PROVE  ItemsType'
  <2>1. /\ UNCHANGED <<input, hand, taken, database, pushes>>
        /\ \/ UNCHANGED pc
           \/ \E next \in {"check", "trip", "stopped", "down", "pop"} :
                pc' = [pc EXCEPT ![w] = next]
    BY <1>4 DEF Check, Ask, Hear, PopNothing, Restarted, Start, Tripping, TripGoesOn, TripCommits,
       TripTimesOut
  <2>2. QED
    BY <1>3, <2>1
<1>5. ASSUME NEW w \in Workers, UNCHANGED <<input, taken, database, pushes>>,
             hand' = [hand EXCEPT ![w] = Nothing],
             NEW next \in {"check", "trip", "down"}, pc' = [pc EXCEPT ![w] = next]
      PROVE  ItemsType'
  BY <1>5, FreshHand DEF ItemsType, InHand, Control
<1>6. ASSUME NEW w \in Workers,
             FlushTimesOut(w) \/ ChargeCalls(w) \/ LlmFails(w) \/ Crash(w)
      PROVE  ItemsType'
  <2>1. /\ UNCHANGED <<input, taken, database, pushes>>
        /\ hand' = [hand EXCEPT ![w] = Nothing]
        /\ \E next \in {"check", "trip", "down"} : pc' = [pc EXCEPT ![w] = next]
    BY <1>6 DEF FlushTimesOut, ChargeCalls, Charge, LlmFails, Crash, Fail
  <2>2. QED
    BY <1>5, <2>1
<1>7. ASSUME NEW w \in Workers, Pop(w) PROVE ItemsType'
  <2>1. /\ Head(queue) \in Tweets /\ Tail(queue) \in Seq(Tweets)
    BY <1>7 DEF Pop, ItemsType
  <2>2. /\ hand' = [hand EXCEPT ![w] = [Nothing EXCEPT !.tweet = Head(queue)]]
        /\ pc' = [pc EXCEPT ![w] = "load"]
    BY <1>7 DEF Pop
  <2>3. RestOK
    BY <1>7, <2>1 DEF Pop, ItemsType
  <2>4. hand' \in [Workers -> Hands] /\ OneOK(w)
    BY <1>2, <2>1, <2>2, FreshHand DEF ItemsType
  <2>5. QED
    BY <1>1, <2>2, <2>3, <2>4 DEF ItemsType, Control
<1>8. ASSUME NEW w \in Workers, Load(w) PROVE ItemsType'
  <2>1. CASE hand' = hand /\ pc' = [pc EXCEPT ![w] = "analyze"] /\ pc[w] = "load"
    BY <1>8, <2>1 DEF Load, ItemsType, InHand, Control
  <2>2. CASE hand' = [hand EXCEPT ![w] = Nothing] /\ pc' = [pc EXCEPT ![w] = "check"]
    BY <1>5, <1>8, <2>2 DEF Load
  <2>3. QED
    BY <1>8, <2>1, <2>2 DEF Load
<1>9. ASSUME NEW w \in Workers, Analyze(w) \/ AnalyzeInvalid(w) PROVE ItemsType'
  <2>1. /\ hand' \in [Workers -> Hands] /\ hand'[w].tweet = hand[w].tweet
        /\ hand'[w].cost <= hand[w].cost + MaxCost
        /\ \A v \in Workers \ {w} : hand'[v] = hand[v]
    BY <1>9, CallInHand DEF ItemsType
  <2>2. hand[w].cost \in Nat /\ hand'[w].cost \in Nat
    BY <2>1, HandFields DEF ItemsType
  <2>3. RestOK
    BY <1>9 DEF Analyze, AnalyzeInvalid, ItemsType
  <2>4. hand[w].tweet \in Tweets
    BY <1>9 DEF Analyze, AnalyzeInvalid, ItemsType, InHand
  <2>5. CASE pc' = [pc EXCEPT ![w] = "flush"] /\ pc[w] \in {"analyze", "retry"}
    <3>1. hand[w].cost <= MaxCost
      BY <1>2, <2>2, <2>5 DEF ItemsType
    <3>2. hand'[w].cost <= Most
      BY <1>2, <2>1, <2>2, <3>1
    <3>3. OneOK(w)
      BY <2>1, <2>4, <2>5, <3>2 DEF ItemsType
    <3>4. QED
      BY <1>1, <2>1, <2>3, <2>5, <3>3 DEF Control
  <2>6. CASE pc' = [pc EXCEPT ![w] = "retry"] /\ pc[w] = "analyze"
    <3>1. hand'[w].cost <= MaxCost /\ hand'[w].cost <= Most
      BY <1>2, <2>1, <2>2, <2>6 DEF ItemsType
    <3>2. OneOK(w)
      BY <2>1, <2>4, <2>6, <3>1 DEF ItemsType
    <3>3. QED
      BY <1>1, <2>1, <2>3, <2>6, <3>2 DEF Control
  <2>7. QED
    BY <1>9, <2>5, <2>6 DEF Analyze, AnalyzeInvalid
<1>10. ASSUME NEW w \in Workers, Flush(w) PROVE ItemsType'
  BY <1>10 DEF Flush, ItemsType, InHand, Control
<1>11. ASSUME NEW w \in Workers, Commit(w) PROVE ItemsType'
  <2>1. hand[w].new \subseteq Events /\ hand[w].tweet \in Tweets
    BY <1>11, HandFields DEF Commit, ItemsType, InHand
  <2>2. RestOK
    BY <1>11, <2>1 DEF Commit, ItemsType
  <2>3. /\ hand' = hand /\ pc[w] = "commit"
        /\ \E next \in {"charge", "publish"} : pc' = [pc EXCEPT ![w] = next]
    BY <1>11 DEF Commit
  <2>4. OneOK(w)
    BY <2>3 DEF ItemsType, InHand
  <2>5. QED
    BY <1>1, <2>2, <2>3, <2>4 DEF ItemsType, Control
<1>12. ASSUME NEW w \in Workers, NEW new \in SUBSET Events,
              hand' = [hand EXCEPT ![w].new = new], pc[w] \in {"resolve", "publish"},
              NEW next \in {"commit", "publish", "charge"}, pc' = [pc EXCEPT ![w] = next],
              RestOK
       PROVE  ItemsType'
  <2>1. /\ hand' \in [Workers -> Hands]
        /\ hand'[w].tweet = hand[w].tweet /\ hand'[w].cost = hand[w].cost
        /\ \A v \in Workers \ {w} : hand'[v] = hand[v]
    BY <1>12, OtherNew DEF ItemsType
  <2>2. OneOK(w)
    BY <1>12, <2>1 DEF ItemsType, InHand
  <2>3. QED
    BY <1>1, <1>12, <2>1, <2>2 DEF Control
<1>13. ASSUME NEW w \in Workers, Resolve(w) PROVE ItemsType'
  <2>1. hand[w].tweet \in Tweets /\ hand[w].tickers \subseteq Tickers
    BY <1>13, HandFields DEF Resolve, ItemsType, InHand
  <2>2. (({hand[w].tweet} \X hand[w].tickers) \ events) \in SUBSET Events
    BY <2>1 DEF Events
  <2>3. QED
    BY <1>12, <1>13, <2>2 DEF Resolve, ItemsType
<1>14. ASSUME NEW w \in Workers, Publish(w) PROVE ItemsType'
  <2>1. PICK e \in hand[w].new :
          /\ pushes' = [pushes EXCEPT ![e] = @ + 1]
          /\ hand' = [hand EXCEPT ![w].new = @ \ {e}]
          /\ Goto(w, IF hand[w].new = {e} THEN "charge" ELSE "publish")
    BY <1>14 DEF Publish
  <2>2. hand[w].new \in SUBSET Events
    BY HandFields DEF ItemsType
  <2>3. hand[w].new \ {e} \in SUBSET Events
    BY <2>2
  <2>4. pushes' \in [Events -> Nat]
    BY <2>1, <2>2 DEF ItemsType
  <2>5. RestOK
    BY <1>14, <2>4 DEF Publish, ItemsType
  <2>6. QED
    BY <1>12, <1>14, <2>1, <2>3, <2>5 DEF Publish
<1>15. ASSUME UNCHANGED <<pc, hand, taken, database, pushes>>,
              received' \subseteq Tweets, replays' \in Nat, queue' \in Seq(Tweets)
       PROVE  ItemsType'
  BY <1>15 DEF ItemsType
<1>16. ASSUME NEW t \in Tweets, Receive(t) \/ Replay(t) PROVE ItemsType'
  <2>1. /\ UNCHANGED <<pc, hand, taken, database, pushes>>
        /\ received' \subseteq Tweets /\ replays' \in Nat /\ queue' = Append(queue, t)
    BY <1>16 DEF Receive, Replay, ItemsType
  <2>2. queue' \in Seq(Tweets)
    BY <2>1 DEF ItemsType
  <2>3. QED
    BY <1>15, <2>1, <2>2
<1>17. ASSUME \/ RedisRestarts
              \/ NextPeriod /\ UNCHANGED <<input, hand, taken, database, pushes>>
              \/ \E q \in Operators : Operated(q)
       PROVE  ItemsType'
  <2>1. /\ UNCHANGED <<pc, hand, taken, database, pushes, received, replays>>
        /\ queue' = queue \/ queue' = <<>>
    BY <1>17 DEF RedisRestarts, RedisLoss, NextPeriod, Operated, Operate
  <2>2. queue' \in Seq(Tweets)
    <3>1. queue \in Seq(Tweets) /\ <<>> \in Seq(Tweets)
      BY DEF ItemsType
    <3>2. QED
      BY <2>1, <3>1
  <2>3. QED
    BY <1>15, <2>1, <2>2 DEF ItemsType
<1>18. CASE UNCHANGED items
  BY <1>15, <1>18 DEF items, ItemsType
<1>19. QED
  BY <1>4, <1>6, <1>7, <1>8, <1>9, <1>10, <1>11, <1>13, <1>14, <1>16, <1>17, <1>18
  DEF Step, Handling

LEMMA StepOfItems == [Next]_vars => [Step]_items
  BY DEF Next, vars, workerVars, items

LEMMA ItemsTypeInit == Ready => ItemsType
<1> SUFFICES ASSUME Ready PROVE ItemsType
  OBVIOUS
<1>1. <<>> \in Seq(Tweets)
  OBVIOUS
<1>2. QED
  BY <1>1, FreshHand DEF Ready, WorkersReady, ItemsType, InHand

LEMMA ItemsTypeInvariant == Spec => []ItemsType
  BY ItemsTypeInit, ItemsTypeStep, StepOfItems, PTL DEF Spec, Init

-----------------------------------------------------------------------------
(* Every step of the pipeline is a step that BudgetedWorkerProofs knows.     *)
LEMMA Budgeted == ItemsType /\ Step => BudgetStep(Idle, Most)
<1> SUFFICES ASSUME ItemsType, Step PROVE BudgetStep(Idle, Most)
  OBVIOUS
<1> USE DEF BudgetStep
<1>1. ASSUME NEW w \in Workers, Check(w) PROVE BudgetStep(Idle, Most)
  <2>1. "pop" \in Points \ {"trip"}
    BY DEF Points
  <2>2. QED
    BY <1>1, <2>1 DEF Check
<1>2. ASSUME NEW w \in Workers, ChargeCalls(w) PROVE BudgetStep(Idle, Most)
  <2>1. Charge(w, hand[w].cost, "check") /\ pc[w] = "charge"
    BY <1>2 DEF ChargeCalls, Charge
  <2>2. hand[w].cost \in 0 .. Most /\ "check" \in Idle
    <3>1. hand[w].cost \in Nat /\ Most \in Nat
      BY HandFields, Chosen DEF ItemsType, Parameters
    <3>2. hand[w].cost <= Most
      BY <2>1 DEF ItemsType, InHand
    <3>3. QED
      BY <3>1, <3>2 DEF Idle
  <2>3. QED
    BY <2>1, <2>2
<1>3. ASSUME NEW w \in Workers,
             NEW next \in Points \ {"trip"},
             Goto(w, next), pc[w] \in Control,
             KS!TakeLock(w) \/ EndSession(w) \/ UNCHANGED switch,
             UNCHANGED <<budget, counters>>
      PROVE  BudgetStep(Idle, Most)
  <2>1. pc[w] # "trip" /\ pc[w] \notin Idle
    BY <1>3 DEF Control, Idle
  <2>2. Local(w, Idle)
    BY <1>3, <2>1 DEF Local
  <2>3. QED
    BY <2>2
<1>4. ASSUME NEW w \in Workers,
             \/ Pop(w) \/ PopNothing(w) \/ Load(w) \/ Analyze(w) \/ AnalyzeInvalid(w)
             \/ Flush(w) \/ FlushTimesOut(w) \/ Resolve(w) \/ LlmFails(w)
      PROVE  BudgetStep(Idle, Most)
  <2>1. /\ pc[w] \in Control
        /\ \E next \in {"load", "check", "analyze", "flush", "retry", "resolve", "down", "commit"} :
             Goto(w, next)
        /\ KS!TakeLock(w) \/ UNCHANGED switch
        /\ UNCHANGED <<budget, counters>>
    BY <1>4 DEF Pop, PopNothing, Load, Analyze, AnalyzeInvalid, Flush, FlushTimesOut, Resolve,
       LlmFails, Control
  <2>2. {"load", "check", "analyze", "flush", "retry", "resolve", "down", "commit"}
           \subseteq Points \ {"trip"}
    BY DEF Points
  <2>3. QED
    BY <1>3, <2>1, <2>2
<1>5. ASSUME NEW w \in Workers, Commit(w) \/ Publish(w) PROVE BudgetStep(Idle, Most)
  <2>1. /\ pc[w] \in Control
        /\ Goto(w, "charge") \/ Goto(w, "publish")
        /\ EndSession(w) \/ UNCHANGED switch
        /\ UNCHANGED <<budget, counters>>
    BY <1>5 DEF Commit, Publish, Control
  <2>2. {"charge", "publish"} \subseteq Points \ {"trip"}
    BY DEF Points
  <2>3. QED
    BY <1>3, <2>1, <2>2
<1>6. ASSUME NEW w \in Workers, Tripping(w) \/ Crash(w) \/ Restarted(w)
      PROVE  BudgetStep(Idle, Most)
  <2>1. "check" \in Idle
    BY DEF Idle
  <2>2. QED
    BY <1>6, <2>1 DEF Crash, Restarted
<1>7. ASSUME NEW t \in Tweets, Receive(t) \/ Replay(t) PROVE BudgetStep(Idle, Most)
  BY <1>7 DEF Receive, Replay
<1>8. CASE NextPeriod \/ RedisRestarts \/ \E q \in Operators : Operated(q)
  BY <1>8 DEF RedisRestarts, Operated
<1>9. QED
  BY <1>1, <1>2, <1>4, <1>5, <1>6, <1>7, <1>8 DEF Step, Handling

LEMMA WorkerInvariant == Spec => []WorkerInv(Idle, Most)
<1>1. Init => WorkerInv(Idle, Most)
  <2>1. "check" \in Idle
    BY DEF Idle
  <2>2. QED
    BY <2>1, Chosen, WorkerInvInit DEF Init, Ready
<1>2. ItemsType /\ WorkerInv(Idle, Most) /\ [Next]_vars => WorkerInv(Idle, Most)'
  BY Chosen, Budgeted, WorkerInvStep, WorkerInvStutter DEF Next, vars
<1>3. QED
  BY <1>1, <1>2, ItemsTypeInvariant, PTL DEF Spec

(* Type correctness of every state. *)
THEOREM TypeCorrect == Spec => []TypeOK
<1>1. WorkerInv(Idle, Most) /\ ItemsType => TypeOK
  BY SameType DEF WorkerInv, KSP!SwitchInv, KSP!WriteInv, BudgetInv, BudgetType, ItemsType,
     TypeOK, WorkerTypeOK
<1>2. QED
  BY <1>1, WorkerInvariant, ItemsTypeInvariant, PTL

-----------------------------------------------------------------------------
(* From the flush to the commit a worker holds the write lock, and what it   *)
(* found missing is missing; what it has still to publish has a row, was     *)
(* never pushed, and is in no other worker's hands.                          *)
HandsInv == \A w \in Workers :
  /\ pc[w] \in {"resolve", "commit"} => lock = w
  /\ pc[w] \in {"commit", "publish"} => \A e \in hand[w].new : e[1] = hand[w].tweet
  /\ pc[w] = "commit" => hand[w].new \cap events = {}
  /\ pc[w] = "publish" =>
       /\ hand[w].new \subseteq events /\ \A e \in hand[w].new : pushes[e] = 0
       /\ \A v \in Workers : pc[v] = "publish" /\ v # w => hand[v].new \cap hand[w].new = {}

PushedInv == \A e \in Events : pushes[e] > 0 => e \in events

RelayInv == HandsInv /\ PushedInv

LEMMA MovesKeepHands ==
  ASSUME ItemsType, RelayInv, NEW w \in Workers,
         UNCHANGED <<events, pushes>>,
         \A v \in Workers \ {w} : pc'[v] = pc[v] /\ hand'[v] = hand[v],
         pc'[w] \notin {"resolve", "commit", "publish"} \/ (pc'[w] = pc[w] /\ hand'[w] = hand[w]),
         \A v \in Workers : lock = v /\ pc'[v] \in {"resolve", "commit"} => lock' = v
  PROVE  RelayInv'
  BY DEF ItemsType, RelayInv, HandsInv, PushedInv

(* A step of somebody else, who takes no lock from a worker. *)
Elsewhere == UNCHANGED items /\ \A w \in Workers : lock = w => lock' = w

LEMMA RelayInvStep ==
  KSP!HolderWrites /\ ItemsType /\ RelayInv /\ (Step \/ Elsewhere) => RelayInv'
<1> SUFFICES ASSUME KSP!HolderWrites, ItemsType, RelayInv, Step \/ Elsewhere PROVE RelayInv'
  OBVIOUS
<1> USE DEF Goto, database
<1>1. CASE Elsewhere
  BY <1>1 DEF Elsewhere, items, RelayInv, HandsInv, PushedInv
<1>2. ASSUME NEW w \in Workers, Check(w) \/ ChargeCalls(w) PROVE RelayInv'
  <2>1. \A v \in Workers : lock = v => lock' = v
    BY <1>2, LockStays DEF Check, ChargeCalls
  <2>2. /\ UNCHANGED <<events, pushes>>
        /\ \A v \in Workers \ {w} : pc'[v] = pc[v] /\ hand'[v] = hand[v]
        /\ pc'[w] \notin {"resolve", "commit", "publish"}
    BY <1>2 DEF Check, Ask, Hear, ChargeCalls, Charge, ItemsType
  <2>3. QED
    BY <2>1, <2>2, MovesKeepHands
<1>3. ASSUME NEW w \in Workers,
             Pop(w) \/ PopNothing(w) \/ Load(w) \/ FlushTimesOut(w) \/ LlmFails(w)
      PROVE  RelayInv'
  <2>1. /\ UNCHANGED <<events, pushes, lock>>
        /\ \A v \in Workers \ {w} : pc'[v] = pc[v] /\ hand'[v] = hand[v]
        /\ pc'[w] \notin {"resolve", "commit", "publish"}
    BY <1>3 DEF Pop, PopNothing, Load, FlushTimesOut, LlmFails, ItemsType, switch
  <2>2. QED
    BY <2>1, MovesKeepHands
<1>4. ASSUME NEW w \in Workers, Analyze(w) \/ AnalyzeInvalid(w) PROVE RelayInv'
  <2>1. \A v \in Workers \ {w} : hand'[v] = hand[v]
    BY <1>4, CallInHand DEF ItemsType
  <2>2. /\ UNCHANGED <<events, pushes, lock>>
        /\ \A v \in Workers \ {w} : pc'[v] = pc[v]
        /\ pc'[w] \notin {"resolve", "commit", "publish"}
    BY <1>4 DEF Analyze, AnalyzeInvalid, ItemsType, switch
  <2>3. QED
    BY <2>1, <2>2, MovesKeepHands
<1>5. ASSUME NEW w \in Workers, Flush(w) PROVE RelayInv'
  <2>1. /\ UNCHANGED <<events, pushes, hand>> /\ pc' = [pc EXCEPT ![w] = "resolve"]
        /\ lock = Free /\ lock' = w
    BY <1>5 DEF Flush, KS!TakeLock
  <2>2. \A v \in Workers : pc[v] \notin {"resolve", "commit"}
    BY <2>1, BudgetAssumption DEF BudgetAssumption, RelayInv, HandsInv
  <2>3. QED
    BY <2>1, <2>2 DEF ItemsType, RelayInv, HandsInv, PushedInv
<1>6. ASSUME NEW w \in Workers, Resolve(w) PROVE RelayInv'
  <2> DEFINE new == ({hand[w].tweet} \X hand[w].tickers) \ events
  <2>1. /\ UNCHANGED <<events, pushes, lock>> /\ pc' = [pc EXCEPT ![w] = "commit"]
        /\ pc[w] = "resolve" /\ hand' = [hand EXCEPT ![w].new = new]
    BY <1>6 DEF Resolve, switch
  <2>2. new \in SUBSET Events
    BY <2>1, HandFields DEF ItemsType, InHand, Events
  <2>3. new \cap events = {} /\ \A e \in new : e[1] = hand[w].tweet
    OBVIOUS
  <2> HIDE DEF new
  <2>4. /\ hand'[w].new = new /\ hand'[w].tweet = hand[w].tweet
        /\ \A v \in Workers \ {w} : hand'[v] = hand[v]
    BY <2>1, <2>2, OtherNew DEF ItemsType
  <2>5. QED
    BY <2>1, <2>3, <2>4 DEF ItemsType, RelayInv, HandsInv, PushedInv
<1>7. ASSUME NEW w \in Workers, Commit(w) PROVE RelayInv'
  <2>1. /\ pc[w] = "commit" /\ events' = events \cup hand[w].new /\ UNCHANGED <<hand, pushes>>
        /\ pc' = [pc EXCEPT ![w] = IF hand[w].new = {} THEN "charge" ELSE "publish"]
    BY <1>7 DEF Commit
  <2>2. lock = w /\ hand[w].new \subseteq Events /\ hand[w].new \cap events = {}
    BY <2>1, HandFields DEF ItemsType, RelayInv, HandsInv
  <2>3. \A e \in hand[w].new : pushes[e] = 0
    BY <2>2 DEF RelayInv, PushedInv, ItemsType
  <2>4. \A v \in Workers \ {w} : /\ pc[v] \notin {"resolve", "commit"}
                                 /\ pc[v] = "publish" => hand[v].new \cap hand[w].new = {}
    BY <2>2 DEF RelayInv, HandsInv
  <2>5. QED
    BY <2>1, <2>2, <2>3, <2>4 DEF ItemsType, RelayInv, HandsInv, PushedInv
<1>8. ASSUME NEW w \in Workers, Publish(w) PROVE RelayInv'
  <2>1. PICK e \in hand[w].new :
          /\ pushes' = [pushes EXCEPT ![e] = @ + 1]
          /\ hand' = [hand EXCEPT ![w].new = @ \ {e}]
          /\ Goto(w, IF hand[w].new = {e} THEN "charge" ELSE "publish")
    BY <1>8 DEF Publish
  <2>2. pc[w] = "publish" /\ UNCHANGED <<events, lock>>
    BY <1>8 DEF Publish, switch
  <2>3. hand[w].new \in SUBSET Events /\ hand[w].new \ {e} \in SUBSET Events
    BY HandFields DEF ItemsType
  <2>4. /\ hand'[w].new = hand[w].new \ {e} /\ hand'[w].tweet = hand[w].tweet
        /\ \A v \in Workers \ {w} : hand'[v] = hand[v]
    BY <2>1, <2>3, OtherNew DEF ItemsType
  <2>5. e \in Events /\ e \in events
        /\ \A v \in Workers \ {w} : pc[v] = "publish" => e \notin hand[v].new
    BY <2>2, <2>3 DEF RelayInv, HandsInv
  <2>6. \A f \in Events \ {e} : pushes'[f] = pushes[f]
    BY <2>1, <2>5 DEF ItemsType
  <2>7. /\ pc'[w] \in {"charge", "publish"}
        /\ \A v \in Workers \ {w} : pc'[v] = pc[v]
    BY <2>1 DEF ItemsType
  <2>8. PushedInv'
    BY <2>2, <2>5, <2>6 DEF RelayInv, PushedInv
  <2>9. \A v \in Workers : hand[v].new \in SUBSET Events
    BY HandFields DEF ItemsType
  <2>10. HandsInv'
    BY <2>2, <2>4, <2>5, <2>6, <2>7, <2>9 DEF RelayInv, HandsInv
  <2>11. QED
    BY <2>8, <2>10 DEF RelayInv
<1>9. ASSUME NEW w \in Workers,
             \/ Tripping(w) /\ UNCHANGED <<input, hand, taken, database, pushes>>
             \/ Restarted(w)
      PROVE  RelayInv'
  <2>1. \A v \in Workers : lock = v => lock' = v
    BY <1>9, LockStays DEF Restarted
  <2>2. /\ UNCHANGED <<events, pushes, hand>>
        /\ \A v \in Workers \ {w} : pc'[v] = pc[v]
        /\ pc'[w] \notin {"resolve", "commit", "publish"}
    BY <1>9 DEF Tripping, TripGoesOn, TripCommits, TripTimesOut, Restarted, Start, ItemsType
  <2>3. QED
    BY <2>1, <2>2, MovesKeepHands
<1>10. ASSUME NEW w \in Workers, Crash(w) PROVE RelayInv'
  <2>1. \A v \in Workers \ {w} : lock = v => lock' = v
    BY <1>10, LockStays DEF Crash
  <2>2. /\ UNCHANGED <<events, pushes>>
        /\ \A v \in Workers \ {w} : pc'[v] = pc[v] /\ hand'[v] = hand[v]
        /\ pc'[w] = "down"
    BY <1>10 DEF Crash, Fail, ItemsType
  <2>3. QED
    BY <2>1, <2>2, MovesKeepHands
<1>11. ASSUME NEW t \in Tweets, Receive(t) \/ Replay(t) PROVE RelayInv'
  BY <1>11 DEF Receive, Replay, switch, RelayInv, HandsInv, PushedInv
<1>12. ASSUME \/ RedisRestarts
              \/ NextPeriod /\ UNCHANGED <<input, hand, taken, database, pushes>>
              \/ \E q \in Operators : Operated(q)
       PROVE  RelayInv'
  <2>1. \A v \in Workers : lock = v => lock' = v
    BY <1>12, LockStays DEF RedisRestarts, Operated
  <2>2. UNCHANGED <<events, pushes, hand, pc>>
    BY <1>12 DEF RedisRestarts, RedisLoss, NextPeriod, Operated, Operate
  <2>3. QED
    BY <2>1, <2>2 DEF RelayInv, HandsInv, PushedInv
<1>13. QED
  BY <1>1, <1>2, <1>3, <1>4, <1>5, <1>6, <1>7, <1>8, <1>9, <1>10, <1>11, <1>12
  DEF Step, Handling

(* Everything that is known of a state of the pipeline. *)
LlmInv == WorkerInv(Idle, Most) /\ ItemsType /\ RelayInv

LEMMA RelayInvInit == Ready => RelayInv
  BY DEF Ready, WorkersReady, RelayInv, HandsInv, PushedInv

LEMMA LlmInvariant == Spec => []LlmInv
<1>1. Init => RelayInv
  BY RelayInvInit DEF Init
<1>2. WorkerInv(Idle, Most) => KSP!HolderWrites
  BY DEF WorkerInv, KSP!SwitchInv, KSP!WriteInv
<1>3. WorkerInv(Idle, Most) /\ ItemsType /\ RelayInv <=> LlmInv
  BY DEF LlmInv
<1>4. [Next]_vars => Step \/ Elsewhere
  BY DEF Next, vars, workerVars, switch, items, Elsewhere
<1>5. QED
  BY <1>1, <1>2, <1>3, <1>4, RelayInvStep, WorkerInvariant, ItemsTypeInvariant, PTL DEF Spec

(* llm_pipeline.py, _persist: an event that was looked for and not found is  *)
(* still missing at the commit, and its unique constraint never fails.       *)
THEOREM NewAtCommit == Spec => []EventsAreNew
<1>1. LlmInv => EventsAreNew
  BY DEF LlmInv, RelayInv, HandsInv, EventsAreNew
<1>2. QED
  BY <1>1, LlmInvariant, PTL

(* The day is over its budget by the two calls of each tweet in flight and   *)
(* no more, however many workers charge it.                                  *)
THEOREM Overspent == Spec => []OverspendBounded
<1>1. LlmInv => OverspendBounded
  BY Chosen, Overspend DEF LlmInv, WorkerInv, OverspendBounded, Most
<1>2. QED
  BY <1>1, LlmInvariant, PTL

(* A day that is spent has thrown the switch, or somebody is about to. *)
THEOREM SpentTrips == Spec => []SpentMeansTripped
<1>1. LlmInv => SpentMeansTripped
  BY DEF LlmInv, WorkerInv, BudgetInv
<1>2. QED
  BY <1>1, LlmInvariant, PTL

(* The workers use the kill switch and the write lock as KillSwitch says, so *)
(* that what KillSwitchProofs proves holds beside them.                      *)
THEOREM KeepsSwitch == Spec => SwitchKept
<1>1. Init => KS!Init
  BY DEF Init
<1>2. LlmInv /\ [Next]_vars => [KS!Next]_(KS!vars)
  BY Budgeted, WorkersKeepSwitch DEF Next, vars, LlmInv
<1>3. QED
  BY <1>1, <1>2, LlmInvariant, PTL DEF Spec, SwitchKept, KS!Spec

-----------------------------------------------------------------------------
(* What a step does to the promise and to the stranded: only a commit stores,*)
(* only Publish sends, and only a worker that fails there drops events.      *)
Kept(w) == pc[w] = "publish" => pc'[w] = "publish" /\ hand'[w] = hand[w]

LEMMA Effects ==
  ASSUME ItemsType, Step \/ UNCHANGED vars
  PROVE  \/ \E w \in Workers : Commit(w)
         \/ \E w \in Workers : Publish(w)
         \/ UNCHANGED <<database, pushes, faults>> /\ \A w \in Workers : Kept(w)
         \/ \E w \in Workers : /\ UNCHANGED <<database, pushes>> /\ faults' = faults + 1
                               /\ \A v \in Workers \ {w} : Kept(v)
<1> DEFINE Calm == UNCHANGED <<database, pushes, faults>> /\ \A w \in Workers : Kept(w)
<1> USE DEF Goto, counters, database, Kept
<1>1. UNCHANGED vars => Calm
  BY DEF vars, workerVars
<1>2. ASSUME NEW w \in Workers,
             \/ Check(w) \/ Pop(w) \/ PopNothing(w) \/ Load(w) \/ Flush(w) \/ FlushTimesOut(w)
             \/ LlmFails(w) \/ ChargeCalls(w)
      PROVE  Calm
  BY <1>2 DEF Check, Ask, Hear, Pop, PopNothing, Load, Flush, FlushTimesOut, LlmFails,
     ChargeCalls, Charge, ItemsType
<1>3. ASSUME NEW w \in Workers, Analyze(w) \/ AnalyzeInvalid(w) PROVE Calm
  <2>1. \A v \in Workers \ {w} : hand'[v] = hand[v]
    BY <1>3, CallInHand DEF ItemsType
  <2>2. QED
    BY <1>3, <2>1 DEF Analyze, AnalyzeInvalid, ItemsType
<1>4. ASSUME NEW w \in Workers, Resolve(w) PROVE Calm
  <2>1. \A v \in Workers \ {w} : hand'[v] = hand[v]
    BY <1>4 DEF Resolve, ItemsType
  <2>2. QED
    BY <1>4, <2>1 DEF Resolve, ItemsType
<1>5. ASSUME NEW w \in Workers,
             \/ Tripping(w) /\ UNCHANGED <<input, hand, taken, database, pushes>>
             \/ Restarted(w)
      PROVE  Calm
  BY <1>5 DEF Tripping, TripGoesOn, TripCommits, TripTimesOut, Restarted, Start, ItemsType
<1>6. ASSUME NEW t \in Tweets, Receive(t) \/ Replay(t) PROVE Calm
  BY <1>6 DEF Receive, Replay
<1>7. ASSUME \/ RedisRestarts
             \/ NextPeriod /\ UNCHANGED <<input, hand, taken, database, pushes>>
             \/ \E q \in Operators : Operated(q)
      PROVE  Calm
  BY <1>7 DEF RedisRestarts, RedisLoss, NextPeriod, Operated, Operate
<1>8. ASSUME NEW w \in Workers, Crash(w)
      PROVE  /\ UNCHANGED <<database, pushes>> /\ faults' = faults + 1
             /\ \A v \in Workers \ {w} : Kept(v)
  BY <1>8 DEF Crash, Fail, ItemsType
<1>9. Calm \/ \E w \in Workers : Commit(w) \/ Publish(w) \/ Crash(w)
  BY <1>1, <1>2, <1>3, <1>4, <1>5, <1>6, <1>7 DEF Step, Handling
<1>10. QED
  BY <1>8, <1>9

(* The tweets of the stranded events. *)
StrandedTweets == {e[1] : e \in Stranded}

StrandedInv == IsFiniteSet(StrandedTweets) /\ Cardinality(StrandedTweets) <= faults

(* A step of somebody else, who may only have met a fault. *)
Aside == UNCHANGED items /\ faults' \in {faults, faults + 1}

LEMMA StrandedInvStep ==
  faults \in Nat /\ ItemsType /\ RelayInv /\ StrandedInv /\ (Step \/ Aside) => StrandedInv'
<1> SUFFICES ASSUME faults \in Nat, ItemsType, RelayInv, StrandedInv, Step \/ Aside
             PROVE  StrandedInv'
  OBVIOUS
<1>1. faults \in Nat
  OBVIOUS
<1>2. ASSUME Stranded' \subseteq Stranded, faults' \in {faults, faults + 1} PROVE StrandedInv'
  <2>1. StrandedTweets' \subseteq StrandedTweets
    BY <1>2 DEF StrandedTweets
  <2>2. QED
    BY <1>1, <1>2, <2>1, FS_Subset, FS_CardinalityType DEF StrandedInv
<1>3. ASSUME NEW w \in Workers, Commit(w) PROVE StrandedInv'
  <2>1. /\ events' = events \cup hand[w].new /\ UNCHANGED <<pushes, hand, faults>>
        /\ pc' = [pc EXCEPT ![w] = IF hand[w].new = {} THEN "charge" ELSE "publish"]
        /\ pc[w] = "commit"
    BY <1>3 DEF Commit, Goto, counters
  <2>2. Stranded' \subseteq Stranded
    BY <2>1 DEF Stranded, ItemsType
  <2>3. QED
    BY <1>2, <2>1, <2>2
<1>4. ASSUME NEW w \in Workers, Publish(w) PROVE StrandedInv'
  <2>1. PICK e \in hand[w].new :
          /\ pushes' = [pushes EXCEPT ![e] = @ + 1]
          /\ hand' = [hand EXCEPT ![w].new = @ \ {e}]
          /\ Goto(w, IF hand[w].new = {e} THEN "charge" ELSE "publish")
    BY <1>4 DEF Publish
  <2>2. UNCHANGED <<events, faults>>
    BY <1>4 DEF Publish, database, counters
  <2>3. hand[w].new \in SUBSET Events /\ hand[w].new \ {e} \in SUBSET Events
    BY HandFields DEF ItemsType
  <2>4. /\ hand'[w].new = hand[w].new \ {e}
        /\ \A v \in Workers \ {w} : hand'[v] = hand[v] /\ pc'[v] = pc[v]
        /\ hand[w].new = {e} \/ pc'[w] = "publish"
    BY <2>1, <2>3, OtherNew DEF ItemsType, Goto
  <2>5. pushes'[e] # 0 /\ \A f \in Events \ {e} : pushes'[f] = pushes[f]
    BY <2>1, <2>3 DEF ItemsType
  <2>6. ASSUME NEW f \in Stranded' PROVE f \in Stranded
    <3>1. f \in events /\ f \in Events /\ pushes'[f] = 0
      BY <2>2, <2>6 DEF Stranded, ItemsType
    <3>2. f # e /\ pushes[f] = 0
      BY <2>5, <3>1
    <3>3. ASSUME NEW v \in Workers, pc[v] = "publish" PROVE f \notin hand[v].new
      BY <2>4, <2>6, <3>2, <3>3 DEF Stranded
    <3>4. QED
      BY <3>1, <3>2, <3>3 DEF Stranded
  <2>7. QED
    BY <1>2, <2>2, <2>6
<1>5. ASSUME UNCHANGED <<events, pushes, faults>>, \A w \in Workers : Kept(w)
      PROVE  StrandedInv'
  <2>1. Stranded' \subseteq Stranded
    BY <1>5 DEF Stranded, Kept
  <2>2. QED
    BY <1>2, <1>5, <2>1
<1>6. ASSUME NEW w \in Workers, UNCHANGED <<events, pushes>>, faults' = faults + 1,
             \A v \in Workers \ {w} : Kept(v)
      PROVE  StrandedInv'
  <2>1. \A e \in Stranded' : e \in Stranded \/ (pc[w] = "publish" /\ e \in hand[w].new)
    BY <1>6 DEF Stranded, Kept
  <2>2. StrandedTweets' \in SUBSET (StrandedTweets \cup {hand[w].tweet})
    BY <2>1 DEF StrandedTweets, RelayInv, HandsInv
  <2>3. IsFiniteSet(StrandedTweets) /\ Cardinality(StrandedTweets) \in Nat
    BY FS_CardinalityType DEF StrandedInv
  <2>4. /\ IsFiniteSet(StrandedTweets \cup {hand[w].tweet})
        /\ \/ Cardinality(StrandedTweets \cup {hand[w].tweet}) = Cardinality(StrandedTweets)
           \/ Cardinality(StrandedTweets \cup {hand[w].tweet}) = Cardinality(StrandedTweets) + 1
    BY <2>3, FS_AddElement
  <2>5. Cardinality(StrandedTweets \cup {hand[w].tweet}) <= Cardinality(StrandedTweets) + 1
    BY <2>3, <2>4
  <2>6. /\ IsFiniteSet(StrandedTweets') /\ Cardinality(StrandedTweets') \in Nat
        /\ Cardinality(StrandedTweets \cup {hand[w].tweet}) \in Nat
        /\ Cardinality(StrandedTweets') <= Cardinality(StrandedTweets \cup {hand[w].tweet})
    BY <2>2, <2>4, FS_Subset, FS_CardinalityType
  <2>7. QED
    BY <1>1, <1>6, <2>3, <2>5, <2>6 DEF StrandedInv
<1>7. CASE Aside
  <2>1. Stranded' \subseteq Stranded
    BY <1>7 DEF Aside, items, database, Stranded
  <2>2. QED
    BY <1>2, <1>7, <2>1 DEF Aside
<1>8. CASE Step
  BY <1>3, <1>4, <1>5, <1>6, <1>8, Effects DEF database
<1>9. QED
  BY <1>7, <1>8

LEMMA StrandedInit == Ready => StrandedInv
<1> SUFFICES ASSUME Ready PROVE StrandedInv
  OBVIOUS
<1>1. StrandedTweets = {}
  BY DEF Ready, StrandedTweets, Stranded
<1>2. QED
  BY <1>1, FS_EmptySet DEF Ready, WorkersReady, StrandedInv

(* Only a fault comes between the commit of an event and its push, and it    *)
(* strands events of one tweet, however many the tweet had.                  *)
THEOREM FaultsStrand == Spec => []StrandedByFaults
<1>1. Init => StrandedInv
  BY StrandedInit DEF Init
<1>2. StrandedInv => StrandedByFaults
  BY DEF StrandedInv, StrandedTweets, StrandedByFaults
<1>3. LlmInv => faults \in Nat /\ ItemsType /\ RelayInv
  BY DEF LlmInv, WorkerInv, BudgetInv, BudgetType
<1>4. [Next]_vars => Step \/ Aside
  BY DEF Next, vars, workerVars, counters, items, Aside
<1>5. QED
  BY <1>1, <1>2, <1>3, <1>4, StrandedInvStep, LlmInvariant, PTL DEF Spec

(* A step of the pipeline stores rows, or pushes the event of one that has   *)
(* not been pushed, or does nothing of the kind.                             *)
LEMMA RelayKept ==
  ASSUME ItemsType, RelayInv, Step \/ UNCHANGED items
  PROVE  [Promise!Next]_<<events, pushes>>
<1>1. ASSUME NEW w \in Workers, Commit(w) PROVE Promise!Next
  <2>1. hand[w].new \subseteq Events
    BY HandFields DEF ItemsType
  <2>2. events' = events \cup hand[w].new /\ UNCHANGED pushes
    BY <1>1 DEF Commit
  <2>3. QED
    BY <2>1, <2>2 DEF ItemsType, Promise!Next, Promise!Store
<1>2. ASSUME NEW w \in Workers, Publish(w) PROVE Promise!Next
  <2>1. PICK e \in hand[w].new : pushes' = [pushes EXCEPT ![e] = @ + 1]
    BY <1>2 DEF Publish
  <2>2. e \in Events /\ e \in events /\ pushes[e] = 0 /\ UNCHANGED events
    BY <1>2, HandFields DEF Publish, ItemsType, RelayInv, HandsInv, database
  <2>3. Promise!Send(e)
    BY <2>1, <2>2 DEF Promise!Send
  <2>4. QED
    BY <2>2, <2>3 DEF Promise!Next
<1>3. CASE UNCHANGED items
  BY <1>3 DEF items, database
<1>4. CASE Step
  BY <1>1, <1>2, <1>4, Effects DEF database
<1>5. QED
  BY <1>3, <1>4

(* An event is pushed after its row is committed, and once, by whichever     *)
(* worker: what the order pipeline takes for granted.                        *)
THEOREM Refinement == Spec => Relayed
<1>1. Init => Promise!Init
  BY DEF Init, Ready, Promise!Init
<1>2. LlmInv /\ [Next]_vars => [Promise!Next]_<<events, pushes>>
  BY RelayKept DEF LlmInv, Next, vars, workerVars, items
<1>3. QED
  BY <1>1, <1>2, LlmInvariant, PTL DEF Spec, Relayed, Promise!Spec
=============================================================================
