SPECIFICATION HSpec
CONSTANTS
  N = 3
  Clients = {1, 2}
  MaxOps <- OneEach
  Inserters = {}
  MaxInserts = 0
  MaxCrashes = 0
INVARIANTS NoStaleRead
CHECK_DEADLOCK FALSE
