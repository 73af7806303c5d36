SPECIFICATION HSpec
CONSTANTS
  N = 3
  Key = {k1}
  MaxWrites <- FiveOne
  MaxLost = 0
INVARIANTS TopIsMinimal
CHECK_DEADLOCK FALSE
