CONSTANTS
  Jobs = {j1, j2, j3}
  MaxRetries = 1
  NoOne = NoOne
SPECIFICATION Spec
INVARIANTS
  OutcomeRecorded
CHECK_DEADLOCK FALSE
