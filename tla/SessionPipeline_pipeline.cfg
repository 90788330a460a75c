SPECIFICATION FairSpec
CONSTANTS
  MaxQueued = 2
  MaxBlocks = 3
  MaxRuns = 2
  MaxPosted = 2
INVARIANTS WorkerOnLiveChain IInv
PROPERTIES QueuedBlockLeaves PagerDeathIsTold StopReturnsUnlessMissed
CHECK_DEADLOCK FALSE
