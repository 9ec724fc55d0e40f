SPECIFICATION FairSpec
CONSTANTS
  MaxFrames = 3
  Backlog = 3
CHECK_DEADLOCK FALSE
INVARIANTS
  TypeOK StreamInv FenceOfItsCommit CrashOnlyWithoutFence
PROPERTIES
  ImplementsChannel LoopReturns
