SPECIFICATION Spec
CONSTANTS
    Threads = {t1, t2}
    NoThread = none
    ParamLists <- Lists
    MaxCalls = 8
    MaxCancels = 1
    MaxPlans = 2
    MaxOthers = 1
    MaxChunks = 2
INVARIANTS SequenceWhole NotStranded CleanWhenIdle ValuesArrive PlanKept
PROPERTY CancelEndsSequence
SYMMETRY Symmetry
CHECK_DEADLOCK FALSE
