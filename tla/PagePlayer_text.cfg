SPECIFICATION Spec
CONSTANTS
  Recordings = {"x"}
  Models = {"m1"}
  MaxLen = 2
  MaxWaits = 1
  MaxActs = 2
INVARIANT FinalTextIsWhole
CHECK_DEADLOCK FALSE
