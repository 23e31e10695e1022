CONSTANTS
  w1 = w1
  w2 = w2
  w3 = w3
  s1 = s1
  Nobody = Nobody
  Jobs = {j1}
  Sources = {s1}
  SourceOf <- MCSourceOf
  NeedBrowser = {}
  Staggered = {j1}
  Workers = {w1, w2}
  BackendsOf <- MCBackendsOf
  Provider = "nats"
  MaxAttempts = 2
  MaxGen = 1
  MayOperate = TRUE
  MayLapse = FALSE
  MayStop = FALSE
  MayFail = FALSE
SPECIFICATION FairSpec
PROPERTIES
  EveryJobEnds
CHECK_DEADLOCK FALSE
