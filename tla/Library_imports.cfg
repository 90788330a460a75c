SPECIFICATION Spec
CONSTANTS
  KeyOrder <- Keys
  MaxRules = 2
  TwinGap = 0
  MaxCalls = 9
  HomeName = "home"
  World <- Transmissions
  NetKind <- Kinds
  PerReceiver = TRUE
  Files <- ExportFiles
  RuleKeys <- MergeKeys
  Uploaders = {u1, u2}
  AudioMax = 2
  MaxTime = 3
  MaxRuns = 2
  MaxSaved = 1
  MaxCommands = 3
INVARIANTS SpansDisjoint  AudioIsOnDisk
PROPERTIES ImportForgetsNothing RulesTakeEffect
CHECK_DEADLOCK FALSE
