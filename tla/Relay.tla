--------------------------------- MODULE Relay ---------------------------------
(***************************************************************************)
(* What a stage of the tweet pipeline promises about the items it hands to *)
(* the next stage through a Redis list: an item is committed to the        *)
(* database before it is sent, and it is sent once at most.  It may never  *)
(* be sent: nothing is promised after a failure.                           *)
(***************************************************************************)
EXTENDS Naturals

CONSTANT Items

VARIABLES
  stored,   \* the items with a committed row
  sent      \* sent[i]: how many times i was pushed

Init ==
  /\ stored = {}
  /\ sent = [i \in Items |-> 0]

(* One commit may store several items. *)
Store ==
  /\ stored' \in SUBSET Items
  /\ stored \subseteq stored'
  /\ UNCHANGED sent

Send(i) ==
  /\ i \in stored
  /\ sent[i] = 0
  /\ sent' = [sent EXCEPT ![i] = 1]
  /\ UNCHANGED stored

Next == Store \/ \E i \in Items : Send(i)

Spec == Init /\ [][Next]_<<stored, sent>>
=============================================================================
