SPECIFICATION FairSpec
CONSTANTS
  N = 3
  Clients = {1, 2}
  MaxOps <- OneEach
  Inserters = {1}
  MaxInserts = 1
  MaxCrashes = 1
INVARIANTS TypeOK SettledTagsHeld FreshResponseCollected
PROPERTIES OperationsReturn
CHECK_DEADLOCK FALSE
