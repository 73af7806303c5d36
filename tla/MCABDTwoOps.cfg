SPECIFICATION HSpec
CONSTANTS
  N = 3
  Clients = {1, 2}
  MaxOps <- FirstTwo
  Inserters = {}
  MaxInserts = 0
  MaxCrashes = 0
INVARIANTS IInv OwnersInv HistoryInv WriterOwnsTag OnlyDiscardsMakeReadsStale
PROPERTIES TagsNeverRegress
CHECK_DEADLOCK FALSE
