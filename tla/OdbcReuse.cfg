SPECIFICATION Spec
CONSTANTS
    Threads = {t1, t2}
    NoThread = NoThread
    Stmts = {s1}
    Connection = Connection
    NoOwner = NoOwner
    LeaseIds = {1, 2, 3}
    MaxSessions = 2
    Calls = {"Exec", "EndTran", "Reset", "UserName", "Autocommit", "Disconnect", "Connect"}
    AttrThreads = {t1}
    Levels = {RC, SER}
    ReadCommitted = RC
    RawSql = FALSE
    QuietConnect = FALSE
    MaxResets = 1
CHECK_DEADLOCK FALSE
INVARIANTS
    TypeOK
    WireInv
    UserNameFresh
PROPERTIES
    ClientExclusive
