----------------------------- MODULE Rebalancing -----------------------------
(***************************************************************************)
(* Plans and executions (src/src/rebalancing/): RebalancingService executes *)
(* the trades that RebalancingPlannerService plans, with costs and slippage *)
(* that FeeCalculatorService and getSlippageEstimate compute by formulas of *)
(* their own.  No operation awaits anything.  Costs and slippage are in     *)
(* units of 1e-4; a request lists an asset once.                            *)
(***************************************************************************)
EXTENDS Integers, FiniteSetsExt, SequencesExt

CONSTANTS
  RebalanceRequests, \* requests for a plan
  MaxExecutions,     \* bound on executions
  MaxMillis          \* bound on the clock, in milliseconds

Strategies == {"min-cost", "min-time", "balanced"}
Holding == [current: Nat, target: Nat, liquidity: Nat, volatility: Nat]

ASSUME RebalancingAssumption ==
  /\ \A r \in RebalanceRequests :
       /\ r.strategy \in Strategies \union {"auto"}
       /\ r.assets \in [DOMAIN r.assets -> Holding] /\ r.tolerance \in Nat
  /\ MaxExecutions \in Nat /\ MaxMillis \in Nat

VARIABLES
  millis,        \* the clock
  executions     \* RebalancingService.history

executionVars == <<millis, executions>>

ExecutionInit == millis = 0 /\ executions = <<>>

-----------------------------------------------------------------------------
(* RebalancingPlannerService, FeeCalculatorService and RebalancingService *)

\* A strategy that has no such name, "auto" say, is chosen by the mean liquidity.
ResolveStrategy(strategy, assets) ==
  CASE strategy \in Strategies -> strategy
    [] strategy \notin Strategies
         /\ MapThenSumSet(LAMBDA a : assets[a].liquidity, DOMAIN assets) > 3 * Cardinality(DOMAIN assets)
         -> "min-cost"
    [] OTHER -> "balanced"

Amount(holding) ==
  IF holding.target >= holding.current THEN holding.target - holding.current
                                       ELSE holding.current - holding.target

\* calculateTradeCost of the planner
TradeCost(holding, strategy) ==
  LET rate == [s \in Strategies |-> CASE s = "min-time" -> 120 [] s = "balanced" -> 110 [] OTHER -> 95]
  IN Amount(holding) * rate[strategy] + 10 * holding.volatility

\* estimateSlippage of the planner
PlannedSlippage(holding) ==
  LET liquidity == Max({holding.liquidity, 1})
  IN Min({800, (200 * Amount(holding) + liquidity) \div (2 * liquidity)})

BuildTrade(holding, strategy) ==
  [direction |-> IF holding.target > holding.current THEN "buy" ELSE "sell",
   amount |-> Amount(holding),
   cost |-> TradeCost(holding, strategy),
   slippage |-> PlannedSlippage(holding)]

Plan(request) ==
  LET strategy == ResolveStrategy(request.strategy, request.assets) IN
  [id |-> millis, strategy |-> strategy,
   trades |-> [a \in DOMAIN request.assets |-> BuildTrade(request.assets[a], strategy)]]

\* The formula of FeeCalculatorService
FeeRate(strategy) == CASE strategy = "min-time" -> 120 [] strategy = "balanced" -> 110 [] OTHER -> 95
Fees(assets, rate) ==
  MapThenSumSet(LAMBDA a : Amount(assets[a]) * rate + 10 * assets[a].volatility, DOMAIN assets)

\* Defect: the estimate forgets that the strategy may have to be chosen.
EstimateFeesUnresolved(request) == Fees(request.assets, FeeRate(request.strategy))

EstimateFees(request) ==
  Fees(request.assets, FeeRate(ResolveStrategy(request.strategy, request.assets)))

\* getSlippageEstimate of RebalancingService, with a formula of its own
Blocked(liquidity, tradeSize, tolerance) ==
  LET depth == Max({liquidity, 1})
  IN Min({800, (200 * tradeSize + depth) \div (2 * depth)}) > tolerance

Result(request) ==
  LET plan == Plan(request) IN
  [id |-> plan.id, strategy |-> plan.strategy, trades |-> plan.trades,
   totalFees |-> MapThenSumSet(LAMBDA a : plan.trades[a].cost, DOMAIN plan.trades),
   slippageEvents |-> Cardinality({a \in DOMAIN plan.trades : plan.trades[a].slippage > request.tolerance}),
   request |-> request]   \* request: history

\* execute makes a plan of its own, with an identifier of its own.
Execute(request) ==
  /\ Len(executions) < MaxExecutions
  /\ executions' = Append(executions, Result(request))
  /\ UNCHANGED millis

\* plan and dryRun compute the same and save nothing.
DryRun == UNCHANGED executionVars

\* getTrades: the first execution with the identifier, or <<>>
GetTrades(id) ==
  LET found == {i \in DOMAIN executions : executions[i].id = id}
  IN IF found = {} THEN <<>> ELSE executions[Min(found)].trades

MillisPass ==
  /\ millis < MaxMillis
  /\ millis' = millis + 1
  /\ UNCHANGED executions

ExecutionNext == (\E request \in RebalanceRequests : Execute(request)) \/ DryRun \/ MillisPass

ExecutionSpec == ExecutionInit /\ [][ExecutionNext]_executionVars

-----------------------------------------------------------------------------
(* Properties *)

\* An execution costs what estimateFees says of the same request, has as many
\* slippage events as getSlippageEstimate would block trades, and getTrades
\* finds its trades unless another execution was made earlier in that millisecond.
ExecutionsAsEstimated ==
  \A i \in DOMAIN executions :
    LET e == executions[i] IN
    /\ e.totalFees = EstimateFees(e.request)
    /\ e.slippageEvents =
         Cardinality({a \in DOMAIN e.trades :
           Blocked(e.request.assets[a].liquidity, e.trades[a].amount, e.request.tolerance)})
    /\ GetTrades(e.id) = e.trades \/ \E j \in 1..(i - 1) : executions[j].id = e.id
=============================================================================
