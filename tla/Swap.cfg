SPECIFICATION Spec
CONSTANTS
  None = None
  t1 = t1
  t2 = t2
  w1 = w1
  w2 = w2
  v1 = v1
  v2 = v2
  Targets = {t1,t2}
  Processes = {w1,w2}
  Views = {v1}
  Objects = {o1, o2, o3}
  ProcessOf <- TwoProcesses
  ViewOf <- SharedView
  PoolSize = 2
  MaxPools = 2
  ResizeBacklog = 0
  AllocMayFail = FALSE
  Orders <- PageByPage
  RecvMayFail = FALSE
  MaxHeld = 1
SYMMETRY Handles
CHECK_DEADLOCK FALSE
INVARIANTS
  NoNullCommit SteadyInv
PROPERTIES
  ReleaseUnlocksReturned
