SPECIFICATION Spec
CONSTANTS
    Watchdogs = {w1, w2, w3}
    Shells = {}
    Menus = {}
    Pids = {c1, c2}
    NoPid = NoPid
    Faults = {"core_exit", "prep_fails", "killed", "reboot"}
    UseSu = TRUE
    PidofZombies = FALSE
    AutoStart = TRUE
    InitStopsFirewall = FALSE
SYMMETRY Symmetry
INVARIANTS
    TypeOK
    LockExclusion
    LockReleased
    CoreRecorded
PROPERTIES
    SparesLiveCore
    ActAsOne
CHECK_DEADLOCK FALSE
