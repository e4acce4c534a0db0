------------------------------ MODULE MonitorList ------------------------------
(***************************************************************************)
(* The accounts that twitterapi.io monitors for us, and the accounts that  *)
(* we watch: sync_watched_accounts of                                      *)
(* backend/services/watched_accounts_sync.py, over the REST client of      *)
(* backend/providers/twitterapi_io.py with its retries.                    *)
(*                                                                         *)
(* A sync reads the active accounts, asks for the monitored ones, and then *)
(* adds and removes, one request after the other.  A request whose answer  *)
(* is lost is sent again, although the server may have executed it, or may *)
(* still execute it when the client has given up: a straggler.             *)
(*                                                                         *)
(* An account is a number, its rank in the order of names.                 *)
(***************************************************************************)
EXTENDS Integers, FiniteSets

CONSTANTS
  Accounts,
  Syncs,           \* calls of sync_watched_accounts
  RetryMax,        \* _HTTP_RETRY_MAX
  MaxToggles,      \* bound on the changes to watched_accounts
  MaxStragglers    \* bound on the requests executed late

ASSUME MonitorAssumption ==
  /\ Accounts \subseteq Nat
  /\ RetryMax \in Nat \ {0} /\ MaxToggles \in Nat /\ MaxStragglers \in Nat

VARIABLES
  active,      \* the rows of watched_accounts with active set
  toggles,
  remote,      \* the list of the server
  stragglers,  \* the requests that it may still execute
  late,        \* how many requests became stragglers
  pc,          \* pc[s]: where the sync s is
  snapshot,    \* snapshot[s]: the active accounts that it read
  toAdd, toRemove,  \* what it has still to do
  attempt,     \* attempt[s]: how often its request failed
  settled      \* history: settled[s], see Begin

database == <<active, toggles>>
server == <<remote, stragglers, late>>
sync == <<pc, snapshot, toAdd, toRemove, attempt>>
vars == <<database, server, sync, settled>>

Requests == [op : {"add", "remove"}, account : Accounts]

TypeOK ==
  /\ active \subseteq Accounts /\ remote \subseteq Accounts
  /\ toggles \in Nat /\ late \in Nat
  /\ \A r \in stragglers : r.number \in 1 .. late /\ r.request \in Requests
  /\ pc \in [Syncs -> {"idle", "list", "update", "done", "failed"}]
  /\ snapshot \in [Syncs -> SUBSET Accounts]
  /\ toAdd \in [Syncs -> SUBSET Accounts] /\ toRemove \in [Syncs -> SUBSET Accounts]
  /\ attempt \in [Syncs -> 0 .. RetryMax - 1]
  /\ settled \in [Syncs -> SUBSET Accounts]

Init ==
  /\ active \in SUBSET Accounts /\ remote \in SUBSET Accounts
  /\ toggles = 0 /\ late = 0 /\ stragglers = {}
  /\ pc = [s \in Syncs |-> "idle"]
  /\ snapshot = [s \in Syncs |-> {}]
  /\ toAdd = [s \in Syncs |-> {}] /\ toRemove = [s \in Syncs |-> {}]
  /\ attempt = [s \in Syncs |-> 0]
  /\ settled = [s \in Syncs |-> {}]

Running(s) == pc[s] \in {"list", "update"}

(* Somebody adds, enables or disables an account. *)
Toggle(a) ==
  /\ toggles < MaxToggles
  /\ toggles' = toggles + 1
  /\ active' = IF a \in active THEN active \ {a} ELSE active \cup {a}
  /\ settled' = [s \in Syncs |-> settled[s] \ {a}]
  /\ UNCHANGED <<server, sync>>

-----------------------------------------------------------------------------
(* What an execution of a request makes of the list. *)
Executed(r, list) ==
  IF r.op = "add" THEN list \cup {r.account} ELSE list \ {r.account}

(* A straggler is executed. *)
Arrive(r) ==
  /\ stragglers' = stragglers \ {r}
  /\ remote' = Executed(r.request, remote)
  /\ UNCHANGED <<database, late, sync, settled>>

(* A request that would put the account a where it does not belong. *)
Wrong(r, a) == r.account = a /\ (r.op = "add") # (a \in active)

(* The SELECT.  An account is settled for this sync if every running sync    *)
(* and every straggler agrees with the table about it; until it is toggled,  *)
(* or the request of this sync about it is redirected.                       *)
Begin(s) ==
  /\ ~Running(s)
  /\ pc' = [pc EXCEPT ![s] = "list"]
  /\ snapshot' = [snapshot EXCEPT ![s] = active]
  /\ settled' = [settled EXCEPT ![s] =
       {a \in Accounts :
          /\ \A t \in Syncs : Running(t) => (a \in snapshot[t]) = (a \in active)
          /\ \A r \in stragglers : ~Wrong(r.request, a)}]
  /\ UNCHANGED <<database, server, toAdd, toRemove, attempt>>

List(s) ==
  /\ pc[s] = "list"
  /\ pc' = [pc EXCEPT ![s] = "update"]
  /\ toAdd' = [toAdd EXCEPT ![s] = snapshot[s] \ remote]
  /\ toRemove' = [toRemove EXCEPT ![s] = remote \ snapshot[s]]
  /\ attempt' = [attempt EXCEPT ![s] = 0]
  /\ UNCHANGED <<database, server, snapshot, settled>>

First(set) == CHOOSE a \in set : \A b \in set : a <= b

Pending(s) == pc[s] = "update" /\ toAdd[s] \cup toRemove[s] # {}

(* All accounts are added before one is removed. *)
Current(s) ==
  IF toAdd[s] # {} THEN [op |-> "add", account |-> First(toAdd[s])]
                   ELSE [op |-> "remove", account |-> First(toRemove[s])]

GoOn(s) ==
  /\ IF toAdd[s] # {}
     THEN toAdd' = [toAdd EXCEPT ![s] = @ \ {First(@)}] /\ UNCHANGED toRemove
     ELSE toRemove' = [toRemove EXCEPT ![s] = @ \ {First(@)}] /\ UNCHANGED toAdd
  /\ attempt' = [attempt EXCEPT ![s] = 0]

Update(s) ==
  /\ Pending(s)
  /\ remote' = Executed(Current(s), remote)
  /\ GoOn(s)
  /\ UNCHANGED <<database, stragglers, late, pc, snapshot, settled>>

Raise(s) ==
  /\ pc' = [pc EXCEPT ![s] = "failed"]
  /\ attempt' = [attempt EXCEPT ![s] = 0]

(* 3xx: the client follows no redirect, and takes the answer to a request    *)
(* that was not executed for success.  The account is settled no more.       *)
Redirect(s) ==
  /\ Pending(s)
  /\ GoOn(s)
  /\ settled' = [settled EXCEPT ![s] = @ \ {Current(s).account}]
  /\ UNCHANGED <<database, server, pc, snapshot>>

(* 4xx, or a list that cannot be read, as that of a redirect: the request is *)
(* not executed, and the sync ends.                                          *)
Refuse(s) ==
  /\ pc[s] = "list" \/ Pending(s)
  /\ Raise(s)
  /\ UNCHANGED <<database, server, snapshot, toAdd, toRemove, settled>>

(* The server executed the request whose answer is lost, or never will, or   *)
(* will later.                                                               *)
Fate(s) ==
  \/ UNCHANGED server
  \/ /\ Pending(s)
     /\ remote' = Executed(Current(s), remote)
     /\ UNCHANGED <<stragglers, late>>
  \/ /\ Pending(s)
     /\ late < MaxStragglers
     /\ late' = late + 1
     /\ stragglers' = stragglers \cup {[number |-> late', request |-> Current(s)]}
     /\ UNCHANGED remote

(* Variants with a defect are kept before the action they differ from.       *)
LoseSilently(s) ==     \* a 5xx counts as an answer
  /\ Pending(s)
  /\ Fate(s)
  /\ GoOn(s)
  /\ UNCHANGED <<database, pc, snapshot, settled>>

LoseUncounted(s) ==    \* the attempts are not counted
  /\ pc[s] = "list" \/ Pending(s)
  /\ Fate(s)
  /\ UNCHANGED <<database, pc, snapshot, toAdd, toRemove, attempt, settled>>

(* 5xx, or no answer: another attempt, or the sync ends. *)
Lose(s) ==
  /\ pc[s] = "list" \/ Pending(s)
  /\ Fate(s)
  /\ \/ /\ attempt[s] + 1 < RetryMax
        /\ attempt' = [attempt EXCEPT ![s] = @ + 1]
        /\ UNCHANGED pc
     \/ /\ attempt[s] + 1 = RetryMax
        /\ Raise(s)
  /\ UNCHANGED <<database, snapshot, toAdd, toRemove, settled>>

Return(s) ==
  /\ pc[s] = "update" /\ ~Pending(s)
  /\ pc' = [pc EXCEPT ![s] = "done"]
  /\ UNCHANGED <<database, server, snapshot, toAdd, toRemove, attempt, settled>>

-----------------------------------------------------------------------------
Progress(s) == List(s) \/ Update(s) \/ Redirect(s) \/ Refuse(s) \/ Lose(s) \/ Return(s)

Next ==
  \/ \E a \in Accounts : Toggle(a)
  \/ \E r \in stragglers : Arrive(r)
  \/ \E s \in Syncs : Begin(s) \/ Progress(s)

Spec == Init /\ [][Next]_vars

(* A sync is a coroutine; the client of the server has a timeout. *)
FairSpec == Spec /\ \A s \in Syncs : WF_vars(Progress(s))

-----------------------------------------------------------------------------
(* When a sync returns, the server's list is right about every account that  *)
(* nobody toggled, about which no other sync and no straggler was wrong, and *)
(* whose request was not redirected: lost answers, repeated requests and     *)
(* syncs that overlap do not matter.                                         *)
SettledAligned ==
  \A s \in Syncs : pc[s] = "done" =>
    \A a \in settled[s] : (a \in remote) = (a \in active)

(* A sync returns or raises, however many answers are lost. *)
SyncEnds == \A s \in Syncs : Running(s) ~> ~Running(s)
=============================================================================
