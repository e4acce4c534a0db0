---------------------------- MODULE MCPositionSync ----------------------------
(* Two calls of connect that may overlap, two syncs, a share and an option   *)
(* with one symbol, or two symbols.                                          *)
EXTENDS PositionSync, TLC

CONSTANTS c1, c2, s1, s2

MCClients == {c1, c2}
MCSyncs == {s1, s2}

MCOneContract == {"TSLA"}
MCContracts == {"TSLA", "TSLA option"}
MCSymbolOf == [k \in {"TSLA", "TSLA option"} |-> "TSLA"]

Held(halves, price) == [halves |-> halves, price |-> price]

MCFewHoldings == {Held(2, 10), Held(5, 20)}
=============================================================================
