SPECIFICATION Spec
CONSTANTS
    Stmts = {s1}
    NoStmt = NoStmt
    Kinds <- AllKinds
    ArmModes = {"Reset"}
    ServerHonors <- Honest
    Negotiated = TRUE
INVARIANTS
    TypeOK
    NeverRunsUnreset
    NeverCondemnsHonest
    TxnMirror
