--------------------------- MODULE StakingPortfolio ---------------------------
(***************************************************************************)
(* Staking of several assets (src/src/staking/portfolio.service.ts): stakes *)
(* append positions, withdrawals take from them, and the two views of a     *)
(* staker are cached for five minutes.  The methods are async but await     *)
(* nothing, so each is one step.                                            *)
(*                                                                          *)
(* Time passes in days, the unit of a term; the five minutes are over at    *)
(* any moment of a day.  A yield is the product of its factors.  Advice on  *)
(* the allocation is computed from the positions with the view and is left  *)
(* out, as is the registry's minStake, maxStake, which nobody asks.  The    *)
(* names have a prefix where a component is composed with this one.         *)
(***************************************************************************)
EXTENDS Integers, FiniteSetsExt, SequencesExt

CONSTANTS
  Stakers,
  Assets,       \* what a request may name
  Rates,        \* yieldRate of the assets that are supported
  MaxAmount,    \* bound on amounts
  MaxTerm,      \* bound on terms, in days
  MaxItems,     \* bound on the items of a request
  MaxStakes     \* bound on positions that are made

ASSUME StakingAssumption ==
  /\ DOMAIN Rates \subseteq Assets /\ Rates \in [DOMAIN Rates -> Nat]
  /\ MaxAmount \in Nat /\ MaxTerm \in Nat /\ MaxItems \in Nat /\ MaxStakes \in Nat

VARIABLES
  positions,   \* portfolioData: the positions of the stakers who ever staked
  views,       \* cache: the portfolio views that are good
  yields,      \* cache: the aggregated yields that are good
  staked,      \* history: what was staked, by staker and asset
  matured,     \* history: the part of it whose term has ended
  withdrawn,   \* history: what withdrawMulti said it paid
  made         \* history: positions so far

stakingVars == <<positions, views, yields, staked, matured, withdrawn, made>>

Supported == DOMAIN Rates
Position == [asset: Supported, amount: Nat \ {0}, yield: Nat, daysLeft: 0..MaxTerm]
StakeItem == [asset: Assets, amount: 1..MaxAmount, term: 1..MaxTerm]
WithdrawItem == [asset: Assets, amount: 1..MaxAmount]
Requests(Item) == UNION {[1..n -> Item] : n \in 1..MaxItems}
Amounts == [Stakers -> [Supported -> Nat]]

StakingInit ==
  /\ positions = <<>>
  /\ views = <<>>
  /\ yields = <<>>
  /\ staked = [s \in Stakers |-> [a \in Supported |-> 0]]
  /\ matured = [s \in Stakers |-> [a \in Supported |-> 0]]
  /\ withdrawn = [s \in Stakers |-> [a \in Supported |-> 0]]
  /\ made = 0

\* The function without the key s.
Forget(f, s) == [k \in (DOMAIN f) \ {s} |-> f[k]]

\* The function with v as the value of the key s.
Remember(f, s, v) ==
  [k \in (DOMAIN f) \union {s} |-> IF k = s THEN v ELSE f[k]]

SumOf(ps, Amount(_), Test(_)) ==
  MapThenSumSet(LAMBDA i : Amount(ps[i]), {i \in DOMAIN ps : Test(ps[i])})

\* What the items of a request, or positions, have of the asset a.
Total(ps, a) == SumOf(ps, LAMBDA p : p.amount, LAMBDA p : p.asset = a)

-----------------------------------------------------------------------------
(* PortfolioService *)

\* Defect: the aggregated yield stays.
InvalidateViewOnly(s) ==
  /\ views' = Forget(views, s)
  /\ UNCHANGED yields

InvalidateCache(s) ==
  /\ views' = Forget(views, s)
  /\ yields' = Forget(yields, s)

\* validateStakeRequest refuses the request for any asset of it.
Valid(items) == \A i \in DOMAIN items : items[i].asset \in Supported

NewPosition(item) ==
  [asset |-> item.asset, amount |-> item.amount,
   yield |-> item.amount * Rates[item.asset] * item.term, daysLeft |-> item.term]

StakeMulti(s, items) ==
  /\ Valid(items)
  /\ made + Len(items) <= MaxStakes
  /\ LET before == IF s \in DOMAIN positions THEN positions[s] ELSE <<>>
     IN positions' = Remember(positions, s,
          before \o [i \in DOMAIN items |-> NewPosition(items[i])])
  /\ InvalidateCache(s)
  /\ staked' = [staked EXCEPT ![s] = [a \in Supported |-> @[a] + Total(items, a)]]
  /\ made' = made + Len(items)
  /\ UNCHANGED <<matured, withdrawn>>

\* Defect: a position is removed when anything of it was taken.
TakenAll(ps, i, amount) == RemoveAt(ps, i)

\* A position is removed when nothing is left of it.
Taken(ps, i, amount) ==
  IF ps[i].amount = amount THEN RemoveAt(ps, i) ELSE [ps EXCEPT ![i].amount = @ - amount]

\* One item takes from the first position of its asset that has enough, and is
\* refused if that one is locked, whatever the later ones have.
WithdrawOne(account, item) ==
  LET ps == account.positions
      enough == {i \in DOMAIN ps : ps[i].asset = item.asset /\ ps[i].amount >= item.amount}
      unlocked == {i \in enough : i = Min(enough) /\ ps[i].daysLeft = 0}
  IN IF unlocked = {} THEN account
     ELSE [positions |-> Taken(ps, Min(unlocked), item.amount),
           paid |-> Append(account.paid, item)]

\* The items are taken in turn; those that are refused do not stop the others.
WithdrawMulti(s, items) ==
  /\ s \in DOMAIN positions /\ positions[s] # <<>>
  /\ LET account == FoldLeft(WithdrawOne, [positions |-> positions[s], paid |-> <<>>], items) IN
     /\ positions' = [positions EXCEPT ![s] = account.positions]
     /\ withdrawn' = [withdrawn EXCEPT ![s] = [a \in Supported |-> @[a] + Total(account.paid, a)]]
  /\ InvalidateCache(s)
  /\ UNCHANGED <<staked, matured, made>>

ViewOf(ps) ==
  [totalValue |-> SumOf(ps, LAMBDA p : p.amount, LAMBDA p : TRUE),
   totalYield |-> SumOf(ps, LAMBDA p : p.yield, LAMBDA p : TRUE),
   positions |-> ps]

\* A view that is cached is served as it is; the days left of its copies are
\* counted from unlockedAt by who reads it.
GetPortfolioView(s) ==
  /\ s \in (DOMAIN positions) \ DOMAIN views
  /\ views' = Remember(views, s, ViewOf(positions[s]))
  /\ UNCHANGED <<positions, yields, staked, matured, withdrawn, made>>

YieldOf(ps) ==
  [totalYield |-> SumOf(ps, LAMBDA p : p.yield, LAMBDA p : TRUE),
   assets |-> [i \in DOMAIN ps |-> [asset |-> ps[i].asset, yield |-> ps[i].yield]]]

GetAggregatedYield(s) ==
  /\ s \in (DOMAIN positions) \ DOMAIN yields
  /\ yields' = Remember(yields, s, YieldOf(positions[s]))
  /\ UNCHANGED <<positions, views, staked, matured, withdrawn, made>>

\* The five minutes of a cached value are over.
Expire(s) ==
  /\ s \in (DOMAIN views) \union DOMAIN yields
  /\ \/ views' = Forget(views, s) /\ UNCHANGED yields
     \/ yields' = Forget(yields, s) /\ UNCHANGED views
  /\ UNCHANGED <<positions, staked, matured, withdrawn, made>>

\* Whoever was cached a day ago is not any more.
Day ==
  /\ \E s \in DOMAIN positions : \E i \in DOMAIN positions[s] : positions[s][i].daysLeft > 0
  /\ positions' = [s \in DOMAIN positions |-> [i \in DOMAIN positions[s] |->
       [positions[s][i] EXCEPT !.daysLeft = Max({@ - 1, 0})]]]
  /\ matured' = [s \in Stakers |-> [a \in Supported |-> matured[s][a] +
       IF s \in DOMAIN positions
         THEN SumOf(positions[s], LAMBDA p : p.amount, LAMBDA p : p.asset = a /\ p.daysLeft = 1)
         ELSE 0]]
  /\ views' = <<>> /\ yields' = <<>>
  /\ UNCHANGED <<staked, withdrawn, made>>

StakingNext ==
  \/ \E s \in Stakers, items \in Requests(StakeItem) : StakeMulti(s, items)
  \/ \E s \in Stakers, items \in Requests(WithdrawItem) : WithdrawMulti(s, items)
  \/ \E s \in Stakers : GetPortfolioView(s) \/ GetAggregatedYield(s) \/ Expire(s)
  \/ Day

StakingSpec == StakingInit /\ [][StakingNext]_stakingVars

-----------------------------------------------------------------------------
(* Properties *)

StakingTypeOK ==
  /\ DOMAIN positions \subseteq Stakers
  /\ \A s \in DOMAIN positions : positions[s] \in Seq(Position)
  /\ DOMAIN views \subseteq DOMAIN positions /\ DOMAIN yields \subseteq DOMAIN positions
  /\ staked \in Amounts /\ matured \in Amounts /\ withdrawn \in Amounts
  /\ made \in 0..MaxStakes

\* A cached view, or aggregated yield, never shows positions from before a stake
\* or a withdrawal: it is what the service would compute now.
ViewsCurrent ==
  /\ \A s \in DOMAIN views : views[s] = ViewOf(positions[s])
  /\ \A s \in DOMAIN yields : yields[s] = YieldOf(positions[s])

\* Nothing is lost, invented or paid before its term: of each asset a staker
\* holds in locked positions what has not matured of the stakes, and in unlocked
\* ones what has, less what withdrawMulti said it paid, also when one request
\* takes several times from one asset.
BalancesKept ==
  /\ StakingTypeOK
  /\ \A s \in Stakers, a \in Supported :
       LET held(locked) ==
             IF s \in DOMAIN positions
               THEN SumOf(positions[s], LAMBDA p : p.amount,
                          LAMBDA p : p.asset = a /\ (p.daysLeft > 0) = locked)
               ELSE 0
       IN /\ held(TRUE) = staked[s][a] - matured[s][a]
          /\ held(FALSE) = matured[s][a] - withdrawn[s][a]

\* Balances and what is shown of them are right (PortfolioService).
PortfoliosRight == BalancesKept /\ ViewsCurrent
=============================================================================
