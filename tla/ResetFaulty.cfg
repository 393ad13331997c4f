SPECIFICATION FairSpec
CONSTANTS
    Stmts = {s1}
    NoStmt = NoStmt
    Kinds <- GatedKinds
    ArmModes = {"Reset", "ResetSkipTran"}
    ServerHonors <- Faulty
    Negotiated = TRUE
INVARIANTS
    OkImpliesReset
    BitSpentOnce
    NoWriteOnDead
    HandlesAlive
    CaptureScoped
PROPERTIES
    ResponseEnds
