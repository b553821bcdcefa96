SPECIFICATION PortfoliosSpec
CONSTANTS
  Portfolios = {q1, q2}
  Symbols = {btc, eth}
  btc = btc
  eth = eth
  Target <- MCTarget
  Weights <- MCWeights
  Configs <- MCConfigs
  EventSets <- MCEventSets
  HistoryLimit = 1
  MaxSnapshots = 2
  MaxHooks = 2
  RebalanceRequests <- MCRebalanceRequests
  MaxExecutions = 3
  MaxMillis = 1
  Handlers = {h1, h2}
  Stakers = {s1, s2}
  Positions = {p1}
  MaxAmount = 2
  MaxRemaining = 2
  RateLimitDays = 2
  LockupDays = 1
  MinRate = 5
  MaxRate = 25
  MaxRecords = 2
SYMMETRY PortfolioSymmetry
INVARIANTS AlertsFollowBreaches WebhooksTold StatusFollowsAssets ExecutionsAsEstimated RecordsMatchWithdrawals OverlapBoundsUnstakes
PROPERTIES PenaltyDue
