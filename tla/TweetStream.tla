------------------------------ MODULE TweetStream ------------------------------
(***************************************************************************)
(* TwitterApiIoProvider.subscribe of backend/providers/twitterapi_io.py:   *)
(* the generator that keeps a WebSocket open and yields the tweets that    *)
(* come over it, and close(), which another task may call.                 *)
(*                                                                         *)
(* Messages wait in the inbox of the library while the consumer has the    *)
(* control.  A connection that the server closes ends the inner loop; one  *)
(* that breaks, and a message that cannot be read, raise an exception.     *)
(***************************************************************************)
EXTENDS Integers, Sequences, SequencesExt

CONSTANTS
  BackoffMax,     \* _WS_BACKOFF_MAX; _WS_BACKOFF_INITIAL is 1
  MaxMessages     \* bound on the messages of the server

ASSUME StreamAssumption == BackoffMax \in Nat \ {0} /\ MaxMessages \in Nat

VARIABLES
  running,    \* _running
  phase,      \* where the generator is: "handed" is its yield
  backoff,
  link,       \* how the connection is, or how it ended
  inbox,      \* the messages that were not read yet, as indices of sent
  sent,       \* history: all messages the library received
  opened,     \* history: how many of them were sent before this connection
  handed,     \* history: the messages that were yielded
  failures    \* history: exceptions since a connection was made

client == <<running, phase, backoff>>
server == <<link, inbox, sent, opened>>
vars == <<client, server, handed, failures>>

(* "quiet" is a message to ignore: connected, ping or another type without   *)
(* a tweet.  A "garbled" one makes _decode or _parse_tweet raise.            *)
Texts == {"tweet", "quiet", "garbled"}

(* After so many failures the wait has its greatest length.                  *)
Enough == BackoffMax + 1

TypeOK ==
  /\ running \in BOOLEAN
  /\ phase \in {"connecting", "open", "handed", "waiting", "stopped"}
  /\ backoff \in 1 .. BackoffMax
  /\ link \in {"up", "closed", "broken"}
  /\ sent \in Seq([text : Texts, first : 1 .. MaxMessages])
  /\ inbox \in Seq(1 .. Len(sent)) /\ handed \in Seq(1 .. Len(sent))
  /\ opened \in 0 .. Len(sent) /\ failures \in 0 .. Enough

Init ==
  /\ running = TRUE
  /\ phase = "connecting"
  /\ backoff = 1
  /\ link = "closed"
  /\ inbox = <<>> /\ sent = <<>> /\ opened = 0
  /\ handed = <<>> /\ failures = 0

-----------------------------------------------------------------------------
Connected == phase \in {"open", "handed"} /\ link = "up"

Send(text) ==
  /\ Connected
  /\ Len(sent) < MaxMessages
  /\ sent' = Append(sent, [text |-> text, first |-> opened + 1])
  /\ inbox' = Append(inbox, Len(sent'))
  /\ UNCHANGED <<client, link, opened, handed, failures>>

Hang(how) ==
  /\ Connected
  /\ link' = how
  /\ UNCHANGED <<client, inbox, sent, opened, handed, failures>>

Close ==
  /\ running
  /\ running' = FALSE
  /\ UNCHANGED <<phase, backoff, server, handed, failures>>

-----------------------------------------------------------------------------
(* Variants with a defect are kept before the action they differ from.       *)
ConnectKeepingBackoff ==   \* the wait is not reset
  /\ phase = "connecting"
  /\ phase' = "open" /\ link' = "up" /\ inbox' = <<>>
  /\ opened' = Len(sent) /\ failures' = 0
  /\ UNCHANGED <<running, backoff, sent, handed>>

Connect ==
  /\ phase = "connecting"
  /\ phase' = "open" /\ link' = "up" /\ inbox' = <<>>
  /\ opened' = Len(sent) /\ failures' = 0
  /\ backoff' = 1
  /\ UNCHANGED <<running, sent, handed>>

(* The head of the outer loop. *)
Again == phase' = IF running THEN "connecting" ELSE "stopped"

(* The handler of exceptions, up to its sleep. *)
Except ==
  /\ phase' = IF running THEN "waiting" ELSE "stopped"
  /\ failures' = IF failures < Enough THEN failures + 1 ELSE failures
  /\ inbox' = <<>>
  /\ link' = "broken"
  /\ UNCHANGED <<running, backoff, sent, opened, handed>>

ConnectRaises ==      \* the connection is made outside of the try
  /\ phase = "connecting"
  /\ phase' = "stopped"
  /\ UNCHANGED <<running, backoff, server, handed, failures>>

ConnectFails == phase = "connecting" /\ Except

Wake ==
  /\ phase = "waiting"
  /\ backoff' = IF 2 * backoff < BackoffMax THEN 2 * backoff ELSE BackoffMax
  /\ Again
  /\ UNCHANGED <<running, server, handed, failures>>

HeadText == sent[Head(inbox)].text

Read ==
  /\ phase = "open" /\ inbox # <<>>
  /\ inbox' = Tail(inbox)
  /\ \/ /\ HeadText = "tweet"
        /\ phase' = "handed"
        /\ handed' = Append(handed, Head(inbox))
     \/ /\ HeadText = "quiet"
        /\ UNCHANGED <<phase, handed>>
  /\ UNCHANGED <<running, backoff, link, sent, opened, failures>>

ReadGarbled ==
  /\ phase = "open" /\ inbox # <<>>
  /\ HeadText = "garbled"
  /\ Except

EndedForEver ==       \* the outer loop does not look at _running
  /\ phase = "open" /\ inbox = <<>> /\ link = "closed"
  /\ phase' = "connecting"
  /\ UNCHANGED <<running, backoff, server, handed, failures>>

Ended ==
  /\ phase = "open" /\ inbox = <<>> /\ link = "closed"
  /\ Again
  /\ UNCHANGED <<running, backoff, server, handed, failures>>

BrokenEarly ==        \* what was received before the break is not read
  /\ phase = "open" /\ link = "broken"
  /\ Except

Broken ==
  /\ phase = "open" /\ inbox = <<>> /\ link = "broken"
  /\ Except

(* The consumer asks for the next tweet, or leaves its loop. *)
Resume ==
  /\ phase = "handed"
  /\ phase' = "open"
  /\ UNCHANGED <<running, backoff, server, handed, failures>>

Leave ==
  /\ phase = "handed"
  /\ phase' = "stopped"
  /\ UNCHANGED <<running, backoff, server, handed, failures>>

-----------------------------------------------------------------------------
Attempt == Connect \/ ConnectFails

Progress == Wake \/ Read \/ ReadGarbled \/ Ended \/ Broken \/ Resume \/ Leave

Next ==
  \/ \E text \in Texts : Send(text)
  \/ \E how \in {"closed", "broken"} : Hang(how)
  \/ Close \/ Attempt \/ Progress

Spec == Init /\ [][Next]_vars

(* The generator and its consumer are coroutines; an attempt to connect has  *)
(* a timeout, and the server is not unreachable for ever.                    *)
FairSpec == Spec /\ WF_vars(Progress) /\ WF_vars(Attempt) /\ SF_vars(Connect)

-----------------------------------------------------------------------------
(* The consumer gets the tweets in the order in which they were received,    *)
(* each one once; a tweet is dropped only behind a message of its connection *)
(* that could not be read.  (subscribe, the inner loop)                      *)
HandedInOrder ==
  /\ \A i, j \in DOMAIN handed : i < j => handed[i] < handed[j]
  /\ phase # "stopped" =>
       \A n \in DOMAIN sent : sent[n].text = "tweet" =>
         \/ n \in ToSet(handed) \cup ToSet(inbox)
         \/ \E g \in sent[n].first .. n - 1 : sent[g].text = "garbled"

(* Two to the power of k, and the wait after k more exceptions. *)
Doubled[k \in Nat] == IF k = 0 THEN 1 ELSE 2 * Doubled[k - 1]

Wait(k) == IF Doubled[k] < BackoffMax THEN Doubled[k] ELSE BackoffMax

(* The k-th wait since a connection was made is 2^(k-1) seconds, at most the *)
(* limit.  (the handler of exceptions)                                       *)
WaitsDouble == phase = "waiting" => backoff = Wait(failures - 1)

(* A stream without a connection gets one, unless somebody closes it,        *)
(* however it lost the last one.                                             *)
Recovers == phase \in {"connecting", "waiting"} ~> (phase = "open" \/ ~running)

(* A stream that was closed ends with its connection: it does not connect    *)
(* again.                                                                    *)
CloseEnds ==
  (~running /\ phase \in {"open", "handed", "waiting"} /\ link # "up") ~> phase = "stopped"

(* BACKLOG.md, ING-02: "Reconnexion exponentielle 1->60 s sur deconnexion".  *)
(* A connection that the server closes is opened again without a wait.       *)
WaitsToReconnect == [][phase = "open" => phase' # "connecting"]_vars
=============================================================================
