SPECIFICATION FairSpec
CONSTANTS
    Watchdogs = {w1}
    Shells = {}
    Menus = {m1}
    Pids = {c1, c2}
    NoPid = NoPid
    Faults = {"core_exit"}
    UseSu = FALSE
    PidofZombies = TRUE
    AutoStart = TRUE
    InitStopsFirewall = TRUE
PROPERTIES
    FirewallFollows
    CoreRevived
CHECK_DEADLOCK FALSE
