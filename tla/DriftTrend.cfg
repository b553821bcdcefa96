SPECIFICATION DriftSpec
CONSTANTS
  Portfolios = {p1}
  Symbols = {btc, eth}
  Target <- MCTarget
  Weights <- TrendWeights
  Configs <- MCConfigs
  EventSets <- MCEventSets
  HistoryLimit = 4
  MaxSnapshots = 4
  MaxHooks = 0
INVARIANTS AnalysisAsDocumented
