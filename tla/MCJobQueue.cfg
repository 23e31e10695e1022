CONSTANTS
  w1 = w1
  w2 = w2
  w3 = w3
  s1 = s1
  Nobody = Nobody
  Jobs = {j1}
  Sources = {s1}
  SourceOf <- MCSourceOf
  NeedBrowser = {}
  Staggered = {}
  Workers = {w2, w3}
  BackendsOf <- MCBackendsOf
  Provider = "nats"
  MaxAttempts = 2
  MaxGen = 2
  MayOperate = TRUE
  MayLapse = TRUE
  MayStop = TRUE
  MayFail = TRUE
SPECIFICATION Spec
INVARIANTS
  TokenOfExecution
  AttemptBudget
  NothingStartsOnHold
  
PROPERTIES
  OnlyOperatorsRevive
  FinishedByItsLoader
SYMMETRY PlainSlots
CHECK_DEADLOCK FALSE
