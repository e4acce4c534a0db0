----------------------------- MODULE MCMonitorList -----------------------------
(* Two accounts, two syncs that may overlap. *)
EXTENDS MonitorList

CONSTANTS s1, s2

MCSyncs == {s1, s2}
=============================================================================
