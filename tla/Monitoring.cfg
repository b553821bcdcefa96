SPECIFICATION FairSpec
CONSTANTS
  Handlers = {h1, h2}
  Evaluations = {e1, e2}
  Routes = {r1}
  RuleOrder <- SomeRules
  MinRequests = 2
  ErrorRate = 7000
  BufferSize = 1
  MaxHistory = 4
  MaxRequests = 2
  MaxTests = 1
INVARIANTS CountersAgree NewestFollowsState
PROPERTIES DatabaseAlertSettles
