SPECIFICATION FairSpec
CONSTANTS
  None = None
  t1 = t1
  t2 = t2
  w1 = w1
  w2 = w2
  v1 = v1
  v2 = v2
  Targets = {t1}
  Processes = {w1}
  Views = {v1}
  Objects = {o1, o2, o3}
  ProcessOf <- OneTarget
  ViewOf <- OneView
  PoolSize = 2
  MaxPools = 1
  ResizeBacklog = 2
  AllocMayFail = FALSE
  Orders <- AnyOrder
  RecvMayFail = FALSE
  MaxHeld = 1

CHECK_DEADLOCK FALSE
PROPERTIES
  InitializeReturns FrameCompletes ReplacedBufferReturns
