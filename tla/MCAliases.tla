------------------------------- MODULE MCAliases -------------------------------
(* Two cores, one of which spells a ticker; three tickers, two of them with  *)
(* the same first letter; tables of three rows at most.                      *)
EXTENDS Aliases

MCCores == {"tsla", "car company"}
MCTickers == {<<1, 1>>, <<1, 2>>, <<2, 1>>}
MCSpelled == [core \in {"tsla"} |-> <<2, 1>>]

MCRows == [text : [dollar : BOOLEAN, core : MCCores], ticker : MCTickers, priority : {1, 2}]

MCTables == {{}} \cup {{a, b, c} : a, b, c \in MCRows}
=============================================================================
