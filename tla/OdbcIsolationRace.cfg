SPECIFICATION Spec
CONSTANTS
    Threads = {t1, t2}
    NoThread = NoThread
    Stmts = {s1}
    Connection = Connection
    NoOwner = NoOwner
    LeaseIds = {1, 2, 3}
    MaxSessions = 1
    Calls <- AllCalls
    AttrThreads = {t1}
    Levels = {RC, SER}
    ReadCommitted = RC
    RawSql = FALSE
    QuietConnect = TRUE
    MaxResets = 1
CHECK_DEADLOCK FALSE
INVARIANTS
    IsolationKeepsWork
