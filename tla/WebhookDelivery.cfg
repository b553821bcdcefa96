SPECIFICATION FairSpec
CONSTANTS
  NumSubs = 2
  NumEvents = 1
  Kinds = {k1}
  Handlers = {h1, h2}
  MaxAttempts = 1
INVARIANTS RecordsConsistent OverlapBoundsAttempts
PROPERTIES SettledNotTakenUp SettledChangesOnlyInFlight ImplementsLedger RetryingResolves PublishReachesAll
