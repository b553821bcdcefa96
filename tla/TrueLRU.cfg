SPECIFICATION LRUSpec
CONSTANTS
  Keys = {k1, k2, k3, k4}
  MaxKeys = 3
  MaxTtl = 1
PROPERTIES TrueLRU
