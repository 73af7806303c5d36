SPECIFICATION CSpec
CONSTANTS
  N = 3
  Clients = {0, 1, 2}
  MaxWrites <- Writers
  MaxReads <- Readers
  MaxLost = 0
  Key = {k1}
INVARIANTS CausalReads
CHECK_DEADLOCK FALSE
