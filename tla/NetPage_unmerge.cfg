SPECIFICATION Spec
CONSTANTS
  Networks <- MCNetworks
  Order <- MCOrder
  TwinGap = 4
  Near = 6
  VeryNear = 2
  ClashCap = 3
  Heard <- MCHeard
  Pool <- MCPool
  Files <- MCFiles
  Fams = {"dmr", "p25"}
  MaxActs = 3
INVARIANT UnmergeStays
CHECK_DEADLOCK FALSE
