SPECIFICATION Spec
CONSTANTS
    Parts = {"client", "voice", "provisioning", "reports", "playback", "enrollment", "conversation"}
    Servers = {"core", "proxy"}
    HeartbeatTimeout = 3
    MaxLosses = 2
    MaxChanges = 1
    MaxSpeeches = 1
    MaxFrames = 5
    MinFrames = 2
    SilenceFrames = 2
    PreFrames = 1
    MaxTalks = 3
    MaxLost = 1
    Macs = {"m1", "m2"}
    Seeds = {"s1"}
    Names = {"n1"}
    MaxProvided = 3
    Levels = {1, 2}
    Versions = 2
    Calm = TRUE
    MaxSets = 2
    MaxRestarts = 3
    MaxCrashes = 1
    Announcers = {"a"}
    Questions = {"p", "q"}
    MaxRounds = 1
    MaxOdd = 1
    MaxQuestions = 2
    MaxUtterances = 3
    AskFails = FALSE
    MaxCommands = 4
    MaxMessages = 2
INVARIANTS SpeechIsWhole SeedPairsOnce ReportsAreTrue OverlaidOnlyAfterRace HeardOtherwise ContextIsCurrent
PROPERTIES KeepsInTouch DialogueEnds
CHECK_DEADLOCK FALSE
