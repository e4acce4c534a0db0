---------------------------- MODULE AbstractSwitch ----------------------------
(***************************************************************************)
(* What the kill switch promises to the processes that consult it, with    *)
(* nothing said of Redis, of the database or of sessions.                  *)
(*                                                                         *)
(*   - an activation that was acknowledged stands until a deactivation is  *)
(*     acknowledged, whatever is lost or crashes in between;               *)
(*   - an acknowledged deactivation leaves no source on, except the        *)
(*     environment of a process;                                           *)
(*   - an answer is a value the switch had at some moment between the call *)
(*     of is_active and its return.                                        *)
(*                                                                         *)
(* An activation that nobody acknowledged may already have raised the      *)
(* switch, and may be forgotten.                                           *)
(***************************************************************************)
CONSTANT Readers

VARIABLES
  env,      \* env[r]: the environment of r's process holds the switch on
  held,     \* the shared sources hold the switch on
  acked,    \* the latest acknowledged request was an activation
  window,   \* window[r]: the values of the switch since r's call began
  answer    \* answer[r]: "none" before r's first answer, then "on" or "off"

vars == <<env, held, acked, window, answer>>

TypeOK ==
  /\ env \in [Readers -> BOOLEAN]
  /\ held \in BOOLEAN
  /\ acked \in BOOLEAN
  /\ window \in [Readers -> SUBSET BOOLEAN]
  /\ answer \in [Readers -> {"none", "on", "off"}]

On(r) == env[r] \/ held

(* A call in progress also sees the value the switch has after the step. *)
Watch == window' = [r \in Readers |->
                      IF window[r] = {} THEN {} ELSE window[r] \cup {On(r)'}]

Init ==
  /\ env \in [Readers -> BOOLEAN]
  /\ held = FALSE
  /\ acked = FALSE
  /\ window = [r \in Readers |-> {}]
  /\ answer = [r \in Readers |-> "none"]

Raise ==
  /\ held' = TRUE
  /\ Watch
  /\ UNCHANGED <<env, acked, answer>>

Forget ==
  /\ ~acked
  /\ held' = FALSE
  /\ Watch
  /\ UNCHANGED <<env, acked, answer>>

Acknowledge(on) ==
  /\ held' = on
  /\ acked' = on
  /\ Watch
  /\ UNCHANGED <<env, answer>>

Call(r) ==
  /\ window[r] = {}
  /\ window' = [window EXCEPT ![r] = {On(r)}]
  /\ UNCHANGED <<env, held, acked, answer>>

Answer(r) ==
  /\ \E value \in window[r] :
       answer' = [answer EXCEPT ![r] = IF value THEN "on" ELSE "off"]
  /\ window' = [window EXCEPT ![r] = {}]
  /\ UNCHANGED <<env, held, acked>>

GiveUp(r) ==
  /\ window' = [window EXCEPT ![r] = {}]
  /\ UNCHANGED <<env, held, acked, answer>>

Restart(r) ==
  /\ env' \in {[env EXCEPT ![r] = on] : on \in BOOLEAN}
  /\ window' = [window EXCEPT ![r] = {}]
  /\ UNCHANGED <<held, acked, answer>>

Next ==
  \/ Raise
  \/ Forget
  \/ \E on \in BOOLEAN : Acknowledge(on)
  \/ \E r \in Readers : Call(r) \/ Answer(r) \/ GiveUp(r) \/ Restart(r)

Spec == Init /\ [][Next]_vars
=============================================================================
