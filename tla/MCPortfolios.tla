----------------------------- MODULE MCPortfolios -----------------------------
(***************************************************************************)
(* Instances of DriftDetection, Rebalancing and EmergencyUnstake for TLC:   *)
(* what is done with portfolios and with staking positions.  They share no  *)
(* state, so a history is about one of them.                                *)
(***************************************************************************)
EXTENDS MCDriftDetection, Rebalancing, EmergencyUnstake, TLC

CONSTANTS btc, eth

Holds(current, target, liquidity, volatility) ==
  [current |-> current, target |-> target, liquidity |-> liquidity, volatility |-> volatility]
Ask(strategy, assets) == [strategy |-> strategy, assets |-> assets, tolerance |-> 250]

MCRebalanceRequests ==
  {Ask("auto", [a \in Symbols |-> Holds(2, 12, 3, 7)]),
   Ask("auto", [a \in {btc} |-> Holds(40, 30, 4, 5)]),
   Ask("min-time", (btc :> Holds(0, 900, 1, 3)) @@ (eth :> Holds(5, 5, 0, 1)))}

-----------------------------------------------------------------------------
(* One of them to a history *)

VARIABLE subject  \* what the history is about

allVars == <<driftVars, executionVars, vars, subject>>

PortfoliosInit ==
  DriftInit /\ ExecutionInit /\ Init /\ subject \in {"drift", "executions", "unstakes"}

PortfoliosNext ==
  /\ \/ subject = "drift" /\ DriftNext /\ UNCHANGED <<executionVars, vars>>
     \/ subject = "executions" /\ ExecutionNext /\ UNCHANGED <<driftVars, vars>>
     \/ subject = "unstakes" /\ Next /\ UNCHANGED <<driftVars, executionVars>>
  /\ UNCHANGED subject

PortfoliosSpec == PortfoliosInit /\ [][PortfoliosNext]_allVars

PortfolioSymmetry ==
  Permutations(Portfolios) \union Permutations(Handlers) \union Permutations(Stakers)
=============================================================================
