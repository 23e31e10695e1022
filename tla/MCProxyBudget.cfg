SPECIFICATION BudgetSpec
CONSTANTS
  r1 = r1
  r2 = r2
  a1 = a1
  Res = {r1, r2}
  Probes = {r2}
  Att = {a1}
  Operational = 3
  Daily = 4
  PilotBytes = 4
  Allocated = 4
  DaysLeft = 1
  Requested = {2}
  Estimates = {1}
  Actuals = {1, 2}
  Reports = {0, 3}
  MaxGen = 1
  MaxMoves = 2
INVARIANTS SpendFitsCeiling ExhaustedIsShut
PROPERTY EnvelopeSettles
CHECK_DEADLOCK FALSE
