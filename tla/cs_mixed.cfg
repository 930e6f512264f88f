SPECIFICATION Spec
CONSTANTS
    Watchdogs = {w1}
    Shells = {s1}
    Menus = {}
    Pids = {c1, c2, c3}
    NoPid = NoPid
    Faults = {"core_exit", "killed", "reboot", "wipe"}
    UseSu = TRUE
    PidofZombies = FALSE
    AutoStart = FALSE
    InitStopsFirewall = FALSE
SYMMETRY Symmetry
INVARIANTS
    CoresBounded
CHECK_DEADLOCK FALSE
