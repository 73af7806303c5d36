SPECIFICATION FairSpec
CONSTANTS
  Threads = {t1, t2}
  Ids = {0, 1}
  Protocols = {"ABD", "CM"}
  N = 5
  Nobody = Nobody
  MaxClients = 2
  MaxLate = 2
INVARIANTS OperationsUseOwnConnections TableHoldsLiveClients MutexHeldInside IInv
PROPERTIES EveryCallReturns
CHECK_DEADLOCK FALSE
