SPECIFICATION Spec
CONSTANTS
    Parts = {"delay", "conditions", "commands", "model"}
    Cooldown = 1
    Instant = FALSE
    Boot = 1
    MaxChanges = 2
    MaxDue = 1
    MaxRestarts = 1
    Unset = Unset
    StateIds = {door, lamp}
    Satellites = {"kitchen"}
    Texts = {"chat"}
    Devices = {"lamp", "blind"}
    Forbidden = {}
    MaxFlips = 1
    MaxLosses = 1
    MaxStates = 3
    Percents = {0, 30, 100}
INVARIANTS FiresOnlyOnTransition ConditionsJoin DevicesAsReported
PROPERTIES DelayEnds NobodyIsLeftWaiting
CHECK_DEADLOCK FALSE
