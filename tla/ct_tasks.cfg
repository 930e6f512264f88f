SPECIFICATION Spec
CONSTANTS
    CronTasks = {c1, c2}
    RunTasks = {r1}
    HookTasks = {h1}
    Watchdog = Watchdog
    Bot = Bot
    Menus = {m1}
    Service = Service
    Stores = {TRUE, FALSE}
    MaxMishaps = 1
INVARIANTS
    TypeOK
    AskedIsKept
    ServedWhileUp
    RemovedIsGone
    StoreListsAll
    Supervised
CONSTRAINT Followed
CHECK_DEADLOCK FALSE
