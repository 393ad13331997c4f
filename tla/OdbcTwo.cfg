SPECIFICATION Spec
CONSTANTS
    Threads = {t1, t2}
    NoThread = NoThread
    Stmts = {s1, s2}
    Connection = Connection
    NoOwner = NoOwner
    LeaseIds = {1, 2, 3}
    MaxSessions = 1
    Calls = {"Exec", "Fetch", "Close", "EndTran", "Autocommit", "Isolation", "Reset", "Disconnect", "Connect"}
    AttrThreads = {t1}
    Levels = {RC, SER}
    ReadCommitted = RC
    RawSql = FALSE
    QuietConnect = FALSE
    MaxResets = 1
CHECK_DEADLOCK FALSE
INVARIANTS
    WorkIsFlagged
    AutocommitKeepsWork
    ReservationIsCursor
    IsolationCacheSound
PROPERTIES
    ClearFlagMeansNoWork
SYMMETRY StmtSymmetry
