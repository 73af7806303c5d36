SPECIFICATION QuickSpec
CONSTANTS
  N = 3
  Key = {k1}
  MaxWrites <- FiveOne
  MaxLost = 0
INVARIANTS OnlyLongQueuesHide
PROPERTIES HeapIsQueue DeliversInOrder OnlyHiddenMessagesStall
CHECK_DEADLOCK FALSE
