SPECIFICATION Spec
CONSTANTS
    Threads = {t1, t2}
    NoThread = none
    Kinds = {"Exec", "MoreResults", "CloseCursor", "Cancel"}
    MaxCalls = 4
INVARIANT NoStrayCancel
CHECK_DEADLOCK FALSE
