SPECIFICATION CallSpec
CONSTANTS
 Fam = "dmr"
 MaxNetworks = 3
 ContinueMs = 0
 MaxCalls = 2
 MaxRadios = 5
 MaxTalkgroups = 5
 MinAudio = 2
 AudioCap = 2
 MaxAge = 0
 Sessions = {1, 2}
 Freqs = {1}
 Families = {"dmr"}
 Lines <- CallLines
 Blocks <- CallBlocks
 PrerollMs = 0
 PrerollMax = 2
 MaxTime = 2
 MaxInputs = 4
 MaxCommands = 1
INVARIANTS CountsAreTheCalls RecordingsAreCalls EndedRecordingsAreClear
PROPERTIES HeardTwiceCountedOnce
CHECK_DEADLOCK FALSE
