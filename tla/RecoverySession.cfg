SPECIFICATION Spec
CONSTANTS
    Ids = {i1, i2}
    Vals = {0, 1}
    BaseVal = 0
    Databases = {"master", "other"}
    LoginDb = "master"
    RetryCount = 1
    RetryInterval = 1
    ConnectTimeout = 1
    Timeouts = {0, 2}
    TicksPerSecond = 2
    MaxCommands = 3
    MaxFailures = 2
INVARIANTS MirrorMatches CancelStopsTheLoop
PROPERTIES RecoveryKeepsSession WithinBudget
SYMMETRY Symmetry
CHECK_DEADLOCK FALSE
