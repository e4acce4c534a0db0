------------------------------- MODULE MCTrading -------------------------------
(* One analyst, one executor, a tweet that is analyzed twice, one ticker. *)
EXTENDS Trading

CONSTANTS a1, x1

MCAnalysts == {a1}
MCExecutors == {x1}

PlanA == [strategy |-> "a", side |-> "BUY", live |-> FALSE, type |-> "MARKET",
          priced |-> FALSE, notional |-> 10]

(* The second one is a LIMIT order without a price: the broker takes it, the *)
(* table does not.  LiveTrading is off, and INV-1 rejects the third.         *)
MCPlans == {PlanA, [PlanA EXCEPT !.type = "LIMIT"], [PlanA EXCEPT !.live = TRUE]}
=============================================================================
