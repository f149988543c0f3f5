SPECIFICATION Spec
CONSTANTS
    Parts = {"updater", "migration", "capture", "automation", "agents"}
    Self = "autodeploy"
    Withdrawals = FALSE
    MaxReleases = 2
    MaxFailures = 2
    MaxKills = 2
    Rows = {"r1", "r2"}
    Routines = {"rt"}
    TornBoots = FALSE
    MaxRuns = 3
    Collectors = {"c1", "c2"}
    Speakers = {"p1"}
    Calm = TRUE
    MaxClaims = 3
    MaxOrders = 4
    MaxFaults = 2
    Automations = {"k1", "k2"}
    Callers = {"u1", "u2"}
    Services = {"s1"}
    MaxSwitches = 3
    MaxStreams = 2
    Adapters = {"a1"}
    Generations = "v1"
    Editors = {"e1"}
    Reloading = TRUE
    States = {"x1", "x2"}
    Devices = {"d1", "d2"}
    MaxChanges = 2
    MaxConnects = 3
INVARIANTS RowsSurvive NewerStands NoGapOnConnect
PROPERTIES InstallsInTheEnd HearsAgain
CHECK_DEADLOCK FALSE
