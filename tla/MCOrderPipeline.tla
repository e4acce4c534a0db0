---------------------------- MODULE MCOrderPipeline ----------------------------
(* Two workers, one request for the kill switch, and small sets of events    *)
(* and plans.  The market is closed in the first second of day 1, at 2,      *)
(* except in MCDailyCapMidnight, where it is open then only.                 *)
EXTENDS OrderPipeline, TLC

CONSTANTS w1, w2, q1

MCWorkers == {w1, w2}
MCOneWorker == {w1}
MCRequests == {q1}
MCNoRequests == {}
MCOpenTimes == {0, 1, 3}

Buy(strategy, type, priced, notional) ==
  [strategy |-> strategy, side |-> "BUY", live |-> FALSE, type |-> type,
   priced |-> priced, notional |-> notional]

PlanA == Buy("a", "MARKET", FALSE, 10)
PlanB == Buy("b", "LIMIT", TRUE, 10)

OnePlan == {PlanA}
TwoPlans == {PlanA, PlanB}

(* The second one sells. *)
MCPlans == {PlanA, [PlanB EXCEPT !.side = "SELL"]}

Symmetry == Permutations(MCWorkers)
=============================================================================
