SPECIFICATION Spec
CONSTANTS
    Parts = {"reports"}
    Servers = {"core", "proxy"}
    HeartbeatTimeout = 3
    MaxLosses = 2
    MaxChanges = 1
    MaxSpeeches = 1
    MaxFrames = 5
    MinFrames = 2
    SilenceFrames = 2
    PreFrames = 1
    MaxTalks = 3
    MaxLost = 1
    Macs = {"m1", "m2"}
    Seeds = {"s1"}
    Names = {"n1"}
    MaxProvided = 3
    Levels = {1, 2}
    Versions = 2
    Calm = FALSE
    MaxSets = 2
    MaxRestarts = 1
    MaxCrashes = 0
    Announcers = {"a"}
    Questions = {"p", "q"}
    MaxRounds = 1
    MaxOdd = 1
    MaxQuestions = 2
    MaxUtterances = 3
    AskFails = FALSE
    MaxCommands = 4
    MaxMessages = 2
PROPERTY BrightnessSettles
CHECK_DEADLOCK FALSE
