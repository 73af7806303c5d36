SPECIFICATION Spec
CONSTANTS MaxLen = 4
 MaxInteger = 2
 MaxClient = 1
INVARIANTS IInv LoopComputesOperator NoUseAfterDelete
CHECK_DEADLOCK FALSE
