SPECIFICATION FairSpec
CONSTANTS
  Networks <- MCNetworks
  Order <- MCOrder
  TwinGap = 4
  Near = 6
  VeryNear = 2
  ClashCap = 3
  Heard <- MCHeard
  Pool <- MCPool
  Files <- MCFiles
  Fams = {"dmr", "p25"}
  MaxActs = 2
INVARIANTS RulesAreTheServers 
PROPERTIES PageSettles
CHECK_DEADLOCK FALSE
