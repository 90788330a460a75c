SPECIFICATION ServerSpec
CONSTANTS
  Parts = {"ports", "send", "keys", "switch", "tables"}
  Sessions = {s1, s2}
  Ports = {1, 2, 3}
  KeyFiles = {"f1", "f2"}
  Offsets = {0}
  MaxStarts = 3
  Payloads = {p1, p2}
  MaxSends = 4
  Nets <- KeyNets
  Ids <- KeyIds
  Typed <- KeyValues
  Numbers = {0, 7}
  Kinds = {"ep", "tytep", "rtap"}
  Hints = {"auto", "p25"}
  Freqs = {1}
  Streams = {1}
  MaxByte = 2
  MaxChanges = 2
  MaxKeyStarts = 2
  Requests = {1, 2, 3}
  Env = ""
  MaxRestarts = 1
  Protocols = {"dmr", "tetra"}
  HistoryLimit = 1
  MaxSessions = 2
  MaxRuns = 2
  MaxTime = 2
INVARIANTS PortsExclusive KeysSurvive StreamsHaveTheirKeys ChoiceIsRemembered TablesAreTheRuns
PROPERTIES StreamSpec EveryFrameArrives
CHECK_DEADLOCK FALSE
