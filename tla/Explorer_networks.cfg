SPECIFICATION NetSpec
CONSTANTS
 Fam = "p25"
 MaxNetworks = 9
 ContinueMs = 1
 MaxCalls = 2
 MaxRadios = 5
 MaxTalkgroups = 5
 MinAudio = 2
 AudioCap = 3
 MaxAge = 0
 Sessions = {1, 2}
 Freqs = {0, 1}
 Families = {"auto"}
 Lines <- NetLines
 Blocks = {}
 PrerollMs = 1
 PrerollMax = 2
 MaxTime = 1
 MaxInputs = 4
 MaxCommands = 2
INVARIANTS  ChannelsStayApart
PROPERTIES KnowledgeStays
CHECK_DEADLOCK FALSE
