----------------------------- MODULE MCRuleEngine -----------------------------
(* Three files, one of them a draft, and rules that match, do not match,     *)
(* raise, are disabled, tie or share an id.                                  *)
EXTENDS RuleEngine, TLC

CONSTANTS l1, l2

MCLoaders == {l1, l2}
MCOneLoader == {l1}

Number(n) == [kind |-> "number", is |-> n]
Text(t) == [kind |-> "text", is |-> t]
List(values) == [kind |-> "list", is |-> values]

Condition(field, op, value) == [field |-> field, op |-> op, value |-> value]

Bullish == Condition("intent", "eq", Text("bullish"))
Sure == Condition("confidence", "gte", Number(60))
Soon == Condition("time_horizon", "in", List({Text("intraday"), Text("swing")}))
Odd == Condition("ticker", "gt", Number(1))
OddIn == Condition("intent", "in", Text("bullish"))
Unsure == Condition("confidence", "lt", Number(60))
NotNvda == Condition("ticker", "neq", Text("NVDA"))
Above == Condition("confidence", "gt", Number(50))
AtMost == Condition("confidence", "lte", Number(50))

Rule(id, priority, enabled, conditions) ==
  [id |-> id, priority |-> priority, enabled |-> enabled, conditions |-> conditions]

(* Files change while reloads read them. *)
FewRules == {Rule(1, 1, TRUE, <<Bullish>>), Rule(2, 1, TRUE, <<Bullish, Sure, Soon>>),
             Rule(1, 2, TRUE, <<Bullish, Odd>>)}

(* Every kind of condition, and ties, over directories that do not change.   *)
ManyRules == {Rule(1, 1, TRUE, <<Bullish>>), Rule(2, 1, TRUE, <<Bullish, Sure, Soon>>),
              Rule(1, 2, TRUE, <<Bullish, Odd>>), Rule(4, 2, TRUE, <<OddIn>>),
              Rule(5, 3, FALSE, <<Bullish>>), Rule(6, 0, TRUE, <<Unsure, NotNvda>>),
              Rule(7, 3, TRUE, <<Above>>), Rule(8, 0, TRUE, <<AtMost>>)}

Event(intent, confidence) ==
  [intent |-> Text(intent), ticker |-> Text("NVDA"),
   confidence |-> Number(confidence), time_horizon |-> Text("swing")]

MCEvents == {Event("bullish", 80), Event("bullish", 50), Event("bearish", 60)}
MCOneEvent == {Event("bullish", 80)}
=============================================================================
