SPECIFICATION Spec
CONSTANTS
    None = "none"
    Procs = {"menu", "task"}
    ServerCount = 3
    Disks = {"one", "tmp", "mini"}
    MaxOps = 3
INVARIANTS
    TypeOK
    FallbackTries
PROPERTY ComesUp
CHECK_DEADLOCK FALSE
