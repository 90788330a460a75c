SPECIFICATION FairRecordings
CONSTANTS
  Parts = {"recorder", "capture", "player"}
  Fam = "dmr"
  MaxNetworks = 3
  ContinueMs = 1
  MaxCalls = 1
  MaxRadios = 5
  MaxTalkgroups = 5
  MinAudio = 2
  AudioCap = 1
  MaxAge = 0
  Sessions = {1, 2}
  Freqs = {1, 2}
  Families = {"dmr"}
  Begun <- MCBegun
  Lines <- MCLines
  Blocks <- MCBlocks
  PrerollMs = 1
  PrerollMax = 2
  MaxTime = 2
  MaxInputs = 3
  MaxCommands = 1
  Clients = {c1, c2}
  Togglers = {t1}
  MaxSamples = 3
  FrameSizes = {2}
  MaxSeconds = 1
  MaxStarts = 2
  MaxFrames = 2
  MaxFlips = 2
  MaxPosted = 1
  Recordings = {"x", "y"}
  Models = {"m1", "m2"}
  MaxLen = 2
  MaxWaits = 1
  MaxActs = 3
INVARIANTS ReplayShowsTheSame CaptureFollowsSwitch AnswersAreTheirOwn SoundIsTheButtons
PROPERTIES CapturesAreSafe OffReachesEverySession NothingHangs
CHECK_DEADLOCK FALSE
