SPECIFICATION FairSpec
CONSTANTS
  None = None
  t1 = t1
  t2 = t2
  w1 = w1
  w2 = w2
  v1 = v1
  v2 = v2
  Targets = {t1,t2}
  Processes = {w1}
  Views = {v1,v2}
  Objects = {o1, o2}
  ProcessOf <- SharedProcess
  ViewOf <- TwoViews
  PoolSize = 2
  MaxPools = 3
  ResizeBacklog = 0
  AllocMayFail = FALSE
  Orders <- ViewThenPage
  RecvMayFail = FALSE
  MaxHeld = 1

CHECK_DEADLOCK FALSE
INVARIANTS
  HeapInv PoolsExist MapsPointToLive
PROPERTIES
  InitializeReturns
