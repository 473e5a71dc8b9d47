CONSTANTS
  b1 = b1
  b2 = b2
  b3 = b3
  a1 = a1
  a2 = a2
  c1 = c1
  e1 = e1
  NoPart = NoPart
  None = None
  Dispatchers = {d1, d2}
  Bundles <- MCReplyBundles
  Parts <- MCReplyParts
  BundleOf <- MCReplyBundleOf
  Order <- MCReplyOrder
  KeyOf <- MCReplyKeyOf
  ExpiresAt <- MCReplyExpiresAt
  Decorative <- MCDecorative
  Progress <- MCProgress
  Replaces <- MCReplyReplaces
  ActionBundles = {}
  MaxTime = 2
  MaxRestarts = 1
SPECIFICATION FairSpec
INVARIANTS
  SentPlanIsOver
PROPERTIES
  QueueDrains
