SPECIFICATION CSpec
CONSTANTS
  N = 3
  Clients = {0, 1, 2}
  MaxWrites <- Writers
  MaxReads <- Readers
  MaxLost = 1
  Key = {k1, k2}
INVARIANTS IInv TopStaysUntilPopped QueuedAreUncounted KeepsNewest ClientsInv OnlyUncountedBreakCausality
PROPERTIES DeliversInOrder
CHECK_DEADLOCK FALSE
