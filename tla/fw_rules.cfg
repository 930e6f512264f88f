SPECIFICATION Spec
CONSTANTS
    Configs <- Rules
    Nets <- OneNet
    OwnInLan = TRUE
    MaxEdits = 2
    MaxCopies = 2
INVARIANTS
    TypeOK
    StopEndsDiversion
    CleanCycle
    ScopeRespected
