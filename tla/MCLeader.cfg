CONSTANTS
  a = a
  b = b
  w1 = w1
  w2 = w2
  daily = daily
  Null = Null
  Nobody = Nobody
  Workers = {w1, w2}
  Scheds = {daily}
  Sources = {a, b}
  Crons = {2, 3}
  Selections <- MCSelections
  Skews <- MCSkews
  MissedCap = 2
  RequiredOk = 2
  Ailing = {b}
  Poisonable = {a}
  MaxTime = 6
  MaxEvents = 2
SPECIFICATION FairSpec
INVARIANTS
  OncePerOccurrence
  NoCatchUpHerd
  DisabledIsProbed
PROPERTIES
  DueScheduleFires
CHECK_DEADLOCK FALSE
