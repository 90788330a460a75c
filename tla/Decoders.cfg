SPECIFICATION FairSpec
CONSTANTS
  Parts = {"dsd", "pager", "tetra", "lines"}
  Fds = {1, 2, 3, 4}
  TetraFds = {1, 2, 3}
  Datagrams <- TetraDatagrams
  Printed <- DsdPrinted
  NoFd = 0
  MaxStarts = 2
  MaxPrinted = 2
  PagerLines = 4
  PipeLines = 2
  MaxSent = 2
  LineLimit = 4
  MaxPackets = 1
  MaxStreams = 2
INVARIANTS OnlyItsOwn PagesAreTold EveryTextIsTold AudioIsVoice
PROPERTIES DeathIsReported StopReturns
CHECK_DEADLOCK FALSE
