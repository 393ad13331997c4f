SPECIFICATION Spec
CONSTANTS
    Ids = {i1}
    Vals = {0, 1}
    BaseVal = 0
    Databases = {"master", "other"}
    LoginDb = "master"
    RetryCount = 1
    RetryInterval = 1
    ConnectTimeout = 1
    Timeouts = {0}
    TicksPerSecond = 1
    MaxCommands = 3
    MaxFailures = 2
PROPERTY ResetByLogin
CHECK_DEADLOCK FALSE
