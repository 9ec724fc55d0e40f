SPECIFICATION FairSpec
CONSTANTS
  MaxFrames = 3
  Backlog = 3
CHECK_DEADLOCK FALSE
PROPERTIES
  GivesUp
