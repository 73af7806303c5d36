SPECIFICATION FairSpec
CONSTANTS
  NumClients <- ThreeTwo
INVARIANTS LogInv LogAlternates OnlyRebuiltValueMisleads OperationsHaveClients
PROPERTIES Ends
CHECK_DEADLOCK FALSE
