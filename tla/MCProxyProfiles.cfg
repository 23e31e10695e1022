SPECIFICATION Spec
CONSTANTS
  q1 = q1
  q2 = q2
  q3 = q3
  r1 = r1
  Reqs = {q1, q2, q3}
  Res = {r1}
  Kinds = {"decodo", "webshare"}
  MaxGen = 2
  MaxFaults = 1
INVARIANTS LeasedSecretKept CompletedSecretInstalled RetiredUserUnused
PROPERTY DrainEnds
CHECK_DEADLOCK FALSE
