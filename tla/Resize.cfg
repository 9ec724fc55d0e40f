SPECIFICATION Spec
CONSTANTS
  None = None
  t1 = t1
  t2 = t2
  w1 = w1
  w2 = w2
  v1 = v1
  v2 = v2
  Targets = {t1}
  Processes = {w1}
  Views = {v1}
  Objects = {o1, o2, o3, o4, o5, o6}
  ProcessOf <- OneTarget
  ViewOf <- OneView
  PoolSize = 4
  MaxPools = 1
  ResizeBacklog = 2
  AllocMayFail = TRUE
  Orders <- AnyOrder
  RecvMayFail = TRUE
  MaxHeld = 1
SYMMETRY Handles
CHECK_DEADLOCK FALSE
INVARIANTS
  TypeOK NoRenderWhileShown NoNullCommit HeldBuffersAlive HostHeapConsistent LockedBuffersHeld OwnerInv MirrorInv TurnInv
PROPERTIES
  ReleaseUnlocksReturned FramesLostByFailure ImplementsOwnership
