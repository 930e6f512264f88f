SPECIFICATION Spec
CONSTANTS
    Kinds = {"core", "bak", "archive", "text", "show", "restart"}
    MaxSent = 4
    MaxKills = 2
    None = "none"
INVARIANTS
    TypeOK
    UsedAsAnnounced
PROPERTY KeepsPromise
CHECK_DEADLOCK FALSE
