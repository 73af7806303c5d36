SPECIFICATION HSpec
CONSTANTS
  N = 3
  Clients = {0, 1}
  MaxOps <- OneEach
  Types <- Reader0
  Slots = 2
  MaxNum <- Retries
  Address = 3
  MaxLate = 1
INVARIANTS HistoryInv IInv OneCommandPerProposal InsertedByMajority OnlyDeviationsBreakAgreement OnlyKnownCausesMakeReadsStale
CHECK_DEADLOCK FALSE
