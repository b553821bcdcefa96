SPECIFICATION FairSpec
CONSTANTS
  Handlers = {h1, h2}
  NumFiles = 2
  MaxSize = 2
  MaxBytes = 3
  StatedSizes = {1, 4}
  RetentionDays = 1
  Broken = {1}
INVARIANTS QuotaRight ObjectsMatchRecords
PROPERTIES RetentionKept DeletedDisappears
