SPECIFICATION Spec
CONSTANTS
    ClashCores = {clash, meta}
    SingCores = {singbox}
    FullCores = {meta, singbox}
    None = None
    Formats = {"tar.gz", "upx"}
    Flash = {TRUE, FALSE}
    Writers = {"task", "menu", "upload", "cli"}
INVARIANTS
    TypeOK
    StartableAtRest
PROPERTIES
    InstallRepairs
    UpdateServes
CONSTRAINT Followed
CHECK_DEADLOCK FALSE
