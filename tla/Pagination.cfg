SPECIFICATION PagesSpec
CONSTANTS
  MaxRows = 4
  Keys = {1, 2, 3}
  Limits = {1, 2}
CONSTRAINT StillPromises
INVARIANTS WalksComplete
