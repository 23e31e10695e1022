SPECIFICATION Spec
CONSTANTS
  t1 = t1
  t2 = t2
  Tasks = {t1, t2}
  Modes = {"fallback", "always", "failover"}
  Retries = 1
  Permits = 1
  Attempts = 3
  MaxLeases = 3
  MaxFaults = 3
INVARIANTS PermitsConserved RouteKeptWhileUsed  BlockedIdentityLeft
PROPERTY EverybodyEnds
CHECK_DEADLOCK FALSE
