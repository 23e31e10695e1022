CONSTANTS
  w1 = w1
  w2 = w2
  w3 = w3
  s1 = s1
  Nobody = Nobody
  Jobs = {j1}
  Sources = {s1}
  SourceOf <- MCSourceOf
  NeedBrowser = {}
  Staggered = {}
  Workers = {w1, w2}
  BackendsOf <- MCBackendsOf
  Provider = "cloudflare"
  MaxAttempts = 1
  MaxGen = 2
  MayOperate = FALSE
  MayLapse = FALSE
  MayStop = FALSE
  MayFail = FALSE
SPECIFICATION Spec
INVARIANTS
  RightWorker
  DeliveriesRouted
CHECK_DEADLOCK FALSE
