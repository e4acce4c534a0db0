----------------------------- MODULE MCKillSwitch -----------------------------
(* Two requests that may overlap, two processes that consult the switch, one *)
(* other session that contends for the write lock.                           *)
EXTENDS KillSwitch, TLC

CONSTANTS q1, q2, r1, r2, o1

MCRequests == {q1, q2}
MCReaders == {r1, r2}
MCOneReader == {r1}
MCOthers == {o1}

Symmetry == Permutations(MCRequests) \cup Permutations(MCReaders)
=============================================================================
