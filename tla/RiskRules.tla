------------------------------ MODULE RiskRules ------------------------------
(***************************************************************************)
(* The risk manager's verdict on one proposed order: backend/risk/rules.py *)
(* assembled by backend/risk/factory.py.  Amounts are whole dollars and    *)
(* percentages whole numbers.                                              *)
(*                                                                         *)
(* An order is a record with at least strategy and notional (quantity      *)
(* times reference price); a context is the snapshot that                  *)
(* build_validation_context took: event, now, exposure, trades and seen    *)
(* (the event or the idempotency key already has an orders row).           *)
(***************************************************************************)
EXTENDS Integers

CONSTANTS
  Capital,              \* NetLiquidation, as the broker reports it
  MaxPositionPct,
  MaxTotalExposurePct,
  MaxTradesPerDay,
  MaxDrawdownPct,
  DailyPnl,             \* what the caller of build_validation_context passes
  AllowAfterHours,
  OpenTimes             \* the instants at which the market is open

ASSUME LimitsAssumption ==
  /\ Capital \in Int
  /\ MaxPositionPct \in Nat
  /\ MaxTotalExposurePct \in Nat
  /\ MaxTradesPerDay \in Nat
  /\ MaxDrawdownPct \in Nat
  /\ DailyPnl \in Int
  /\ AllowAfterHours \in BOOLEAN
  /\ OpenTimes \subseteq Nat

PositionSize(order, ctx) == 100 * order.notional <= MaxPositionPct * Capital

TotalExposure(order, ctx) ==
  100 * (ctx.exposure + order.notional) <= MaxTotalExposurePct * Capital

MaxTrades(order, ctx) == ctx.trades < MaxTradesPerDay

(* The peak of the day is the capital.  The drawdown is that of the profit   *)
(* and loss handed in, never below 0, and 0 when there is no peak.           *)
DailyDrawdown(order, ctx) ==
  IF Capital > 0 /\ DailyPnl < 0
  THEN 100 * (-DailyPnl) < MaxDrawdownPct * Capital
  ELSE 0 < MaxDrawdownPct

MarketHours(order, ctx) == AllowAfterHours \/ ctx.now \in OpenTimes

(* A variant with a defect. *)
NeverSeen(order, ctx) == TRUE

Idempotency(order, ctx) == ~ctx.seen

(* Every rule is evaluated: there is no short circuit. *)
Failures(order, ctx) ==
  {rule \in {"position_size", "total_exposure", "max_trades_per_day",
             "daily_drawdown", "market_hours", "idempotency"} :
     ~CASE rule = "position_size" -> PositionSize(order, ctx)
        [] rule = "total_exposure" -> TotalExposure(order, ctx)
        [] rule = "max_trades_per_day" -> MaxTrades(order, ctx)
        [] rule = "daily_drawdown" -> DailyDrawdown(order, ctx)
        [] rule = "market_hours" -> MarketHours(order, ctx)
        [] rule = "idempotency" -> Idempotency(order, ctx)}

Validated(order, ctx) == Failures(order, ctx) = {}
=============================================================================
