SPECIFICATION FairSpec
CONSTANTS
  MaxQueued = 1
  MaxBlocks = 1
  MaxRuns = 1
  MaxPosted = 1
PROPERTIES StopReturns
CHECK_DEADLOCK FALSE
