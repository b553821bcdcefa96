SPECIFICATION FairSpec
CONSTANTS
  Handlers = {h1, h2}
  Ttl = 2
  MaxVersion = 2
INVARIANTS PromotionKeepsFreshness CoherentUndisturbed
PROPERTIES SupersededDisappears
