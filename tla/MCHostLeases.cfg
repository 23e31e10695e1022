CONSTANTS
  e1 = e1
  e2 = e2
  e3 = e3
  j1 = j1
  j2 = j2
  shop = shop
  edge = edge
  NoKey = NoKey
  Nobody = Nobody
  Keys = {shop, edge}
  Execs = {e1, e2, e3}
  JobOf <- MCJobOf
  ShopOf <- MCShopOf
  EdgeOf <- MCEdgeOf
  Tuned = {shop}
  MaxSlot = 2
  MayLapse = TRUE
SPECIFICATION FairSpec
INVARIANTS
  KeptWhileBeating
  NoStrandedSlot
PROPERTIES
  LoweredLimitDrains
  EveryJobServed
CHECK_DEADLOCK FALSE
