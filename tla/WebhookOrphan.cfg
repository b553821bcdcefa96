SPECIFICATION FairSpec
CONSTANTS
  NumSubs = 2
  NumEvents = 1
  Kinds = {k1}
  Handlers = {h1}
  MaxAttempts = 1
PROPERTIES DueDeliveriesRetried
