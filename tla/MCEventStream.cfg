CONSTANTS
  listen = listen
  reconcile = reconcile
  Tasks = {listen, reconcile}
  BUFFER_SIZE = 1
  MAX_REPLAY = 2
  QUEUE_LIMIT = 2
  DrainLimit = 2
  MaxId = 3
  MaxPlain = 1
  MaxNotes = 1
  MaxFaults = 1
  Null = Null
SPECIFICATION FairSpec
INVARIANTS
  NoSilentGap
  
PROPERTIES
  FeedPromise
CHECK_DEADLOCK FALSE
