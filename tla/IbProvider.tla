------------------------------ MODULE IbProvider ------------------------------
(***************************************************************************)
(* The connection to Interactive Brokers: backend/providers/ib.py.         *)
(*                                                                         *)
(* connect makes an ib_insync client, tries up to RetryMax times to open a *)
(* session with the gateway, and asks the session for its accounts:        *)
(*                                                                         *)
(*   dial   connectAsync waits for the gateway                             *)
(*   up     the session is open, the coroutine has yet to look at it       *)
(*   sleep  the attempt failed, wait before the next one                   *)
(*                                                                         *)
(* All attempts, and all calls of connect, use the same client id, and the *)
(* gateway has one session at most for a client id.  A session that the    *)
(* client closed, or gave up, may keep the id busy for a while.  Calls of  *)
(* connect and disconnect may overlap: nothing in the class forbids it.    *)
(*                                                                         *)
(* place_order and cancel_all raise NotImplementedError.                   *)
(***************************************************************************)
EXTENDS Naturals

CONSTANTS
  Clients,     \* ib_insync clients; each call of connect takes a fresh one
  None,        \* no client
  RetryMax

ASSUME ClientsAssumption == None \notin Clients /\ RetryMax \in Nat \ {0}

VARIABLES
  ib,        \* IBProvider._ib
  pc,        \* pc[c]: what the call of connect that made c does next
  failures,  \* failures[c]: how many of its attempts failed
  line,      \* line[c]: the session of c, by whether it names the expected account
  held       \* the gateway holds a session that no client knows of

session == <<ib, pc, failures, line, held>>

SessionTypeOK ==
  /\ ib \in Clients \cup {None}
  /\ pc \in [Clients -> {"idle", "dial", "up", "sleep"}]
  /\ failures \in [Clients -> 0 .. RetryMax]
  /\ line \in [Clients -> {"closed", "expected", "other"}]
  /\ held \in BOOLEAN

SessionInit ==
  /\ ib = None
  /\ pc = [c \in Clients |-> "idle"]
  /\ failures = [c \in Clients |-> 0]
  /\ line = [c \in Clients |-> "closed"]
  /\ held = FALSE

Open == {c \in Clients : line[c] # "closed"}

(* _require_connected: reading raises unless this holds. *)
Connected == ib \in Open

Goto(c, next) == pc' = [pc EXCEPT ![c] = next]

Return(c) == Goto(c, "idle") /\ failures' = [failures EXCEPT ![c] = 0]

Hang(c) == line' = [line EXCEPT ![c] = "closed"]

-----------------------------------------------------------------------------
(* Variants with a defect are kept before the action they differ from.       *)
ConnectEarly(c) ==     \* _ib is set before the account was looked at
  /\ pc[c] = "idle" /\ c # ib /\ c \notin Open
  /\ ib' = c
  /\ Goto(c, "dial")
  /\ UNCHANGED <<failures, line, held>>

Connect(c) ==
  /\ pc[c] = "idle" /\ c # ib /\ c \notin Open
  /\ Goto(c, "dial")
  /\ UNCHANGED <<ib, failures, line, held>>

(* The gateway opens the session; it says which accounts it manages. *)
Accept(c) ==
  /\ pc[c] = "dial"
  /\ Open = {} /\ ~held
  /\ \E account \in {"expected", "other"} : line' = [line EXCEPT ![c] = account]
  /\ Goto(c, "up")
  /\ UNCHANGED <<ib, failures, held>>

(* The gateway refuses, cannot be reached, or is too slow.  ib_insync closes *)
(* a session that did not come up in time; the gateway may have opened it,   *)
(* or open it now, all the same.                                             *)
AttemptUncounted(c) == \* a failure is not counted
  /\ pc[c] \in {"dial", "up"}
  /\ Hang(c)
  /\ held' \in {held} \cup (IF Open \subseteq {c} THEN {TRUE} ELSE {})
  /\ Goto(c, "sleep")
  /\ UNCHANGED <<ib, failures>>

AttemptFails(c) ==
  /\ pc[c] \in {"dial", "up"}
  /\ Hang(c)
  /\ held' \in {held} \cup (IF Open \subseteq {c} THEN {TRUE} ELSE {})
  /\ failures' = [failures EXCEPT ![c] = @ + 1]
  /\ Goto(c, "sleep")
  /\ UNCHANGED ib

(* The wait after a failed attempt, the last one too; then another attempt,  *)
(* or IBConnectionError.                                                     *)
Wake(c) ==
  /\ pc[c] = "sleep"
  /\ IF failures[c] < RetryMax THEN Goto(c, "dial") /\ UNCHANGED failures ELSE Return(c)
  /\ UNCHANGED <<ib, line, held>>

Verify(c) ==
  /\ pc[c] = "up"
  /\ line[c] = "expected"
  /\ ib' = c
  /\ Return(c)
  /\ UNCHANGED <<line, held>>

(* The account is another: disconnect, and IBConnectionError. *)
MismatchOpen(c) ==     \* the session is not closed
  /\ pc[c] = "up"
  /\ line[c] = "other"
  /\ Return(c)
  /\ UNCHANGED <<ib, line, held>>

Mismatch(c) ==
  /\ pc[c] = "up"
  /\ line[c] = "other"
  /\ Hang(c)
  /\ held' = TRUE
  /\ Return(c)
  /\ UNCHANGED ib

Disconnect ==
  /\ ib # None
  /\ ib' = None
  /\ Hang(ib)
  /\ held' = (held \/ Connected)
  /\ UNCHANGED <<pc, failures>>

-----------------------------------------------------------------------------
(* The gateway and the network. *)

(* A session that breaks while it comes up is an attempt that fails. *)
Drop(c) ==
  /\ c \in Open /\ pc[c] # "up"
  /\ Hang(c)
  /\ held' \in BOOLEAN
  /\ UNCHANGED <<ib, pc, failures>>

(* The gateway notices that the client of a session is gone. *)
Notice ==
  /\ held
  /\ held' = FALSE
  /\ UNCHANGED <<ib, pc, failures, line>>

-----------------------------------------------------------------------------
Connecting(c) ==
  Accept(c) \/ AttemptFails(c) \/ Wake(c) \/ Verify(c) \/ Mismatch(c)

SessionStep ==
  \/ \E c \in Clients : Connect(c) \/ Connecting(c) \/ Drop(c)
  \/ Disconnect
  \/ Notice

-----------------------------------------------------------------------------
(* The account check of connect covers every read: whatever calls overlap,   *)
(* and although a session is open before connect has looked at its accounts, *)
(* get_positions and the other reads find no session of another account.     *)
VerifiedOnly == Connected => line[ib] = "expected"

(* No session is left behind: one that is open is the provider's, or that of *)
(* a call of connect that will take it or close it.  Otherwise it would keep *)
(* the only client id busy for as long as the process lives.                 *)
SessionsOwned == \A c \in Open : c = ib \/ pc[c] = "up"

(* A call of connect ends, however its attempts fail. *)
ConnectEnds == \A c \in Clients : pc[c] # "idle" ~> pc[c] = "idle"
=============================================================================
