SPECIFICATION FairSpec
CONSTANTS
    Threads = {t1, t2, t3}
    NoThread = none
    Kinds = {"Exec", "MoreResults", "FreeStmt", "Cancel"}
    MaxCalls = 4
INVARIANTS RegistryInv SignalReaches NoStrayCancel
PROPERTIES StatementIsMonitor CancelReturns AllReturn
CHECK_DEADLOCK FALSE
