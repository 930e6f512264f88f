------------------------------ MODULE Crontab ------------------------------
(***************************************************************************)
(* The system crontab and the files under CrashDir/task, which every part  *)
(* of ShellCrash rewrites whole from its own copy and without a lock: the  *)
(* task menu (taskctl), Controller.cronset, the goroutine AfterStart, the  *)
(* Telegram bot's switches, the conservative-mode toggle and boot.         *)
(*                                                                         *)
(* A line of the crontab or of a file is a task, the watchdog's line or    *)
(* the bot's.  The code removes lines by a keyword they contain; here a    *)
(* keyword stands for the set of lines it removes.  No task's description  *)
(* is part of another's.                                                   *)
(***************************************************************************)
EXTENDS Naturals, Sequences, FiniteSets

CONSTANTS
    CronTasks,      \* tasks of task/cron: run at a time, service or not
    RunTasks,       \* tasks of task/running: run while the service runs
    HookTasks,      \* tasks of task/bfstart, afstart, affirewall
    Watchdog,       \* the line "#ShellCrash保守模式守护进程"
    Bot,            \* the line "#ShellCrash-TG_BOT守护进程"
    Menus,          \* processes that edit tasks and switches
    Service,        \* the goroutine a start leaves behind
    Stores,         \* whether the device keeps a copy in /jffs or /etc/storage
    MaxMishaps      \* bound: how many of MishapKinds happen in one behaviour

Tasks == CronTasks \cup RunTasks \cup HookTasks
CronLines == CronTasks \cup RunTasks \cup {Watchdog, Bot}
Lines == CronLines \cup HookTasks
Procs == Menus \cup {Service}

\* What the properties below have to except, each named by the step it is.
MishapKinds == {"overlap", "abandoned", "unread", "unrestored", "cancelled", "legacy"}

ASSUME LinesAssumption ==
    /\ CronTasks \cap RunTasks = {}
    /\ HookTasks \cap (CronTasks \cup RunTasks) = {}
    /\ {Watchdog, Bot} \cap Tasks = {}
    /\ Watchdog # Bot
    /\ Service \notin Menus
    /\ Stores \subseteq BOOLEAN
    /\ MaxMishaps \in Nat

VARIABLES
    crontab,        \* lines of the system crontab
    taskCron,       \* lines of task/cron, none when the file is absent
    taskRunning,    \* lines of task/running
    taskHook,       \* lines of the three hook files
    store,          \* a persistent store exists; the crontab then is in memory
    wiped,          \* the crontab was lost and AfterStart has not rebuilt it
    core,           \* CrashCore runs
    recorded,       \* TmpDir/shellcrash.pid names a live core
    startOld,       \* start_old=ON
    disabled,       \* CrashDir/.dis_startup exists
    oldMode,        \* start_old as the goroutine's process read it
    pc,             \* what each process does next
    work,           \* the operations it still has to do, the first under way
    seen,           \* the crontab as it read, later as it wrote it
    asked,          \* history: tasks and bot line the operator asked for
    mishaps         \* history: which of MishapKinds happened

files == <<taskCron, taskRunning, taskHook>>
device == <<store, disabled>>
service == <<core, recorded, startOld, oldMode>>
procs == <<pc, work, seen>>
vars == <<crontab, files, device, wiped, service, procs, asked, mishaps>>

MenuPc == {"idle", "file", "read", "write", "store", "persist", "prune", "leave"}
ServicePc == {"idle", "af_wait", "af_write"}

Listed == (taskCron \cup taskRunning \cup taskHook) \cap Tasks
Busy(p) == pc[p] \notin {"idle", "af_wait"}
Overlap(p) == IF \E q \in Procs \ {p} : Busy(q) THEN {"overlap"} ELSE {}
Note(kinds) == /\ mishaps' = mishaps \cup kinds
               /\ Cardinality(mishaps') <= MaxMishaps

-----------------------------------------------------------------------------
\* Operations.  drop are the lines that contain the keyword.

AddOp(t) ==
    [kind |-> IF t \in CronTasks THEN "cron" ELSE IF t \in RunTasks THEN "running" ELSE "hook",
     drop |-> {t}, add |-> {t}]
RemoveOp(lines) == [kind |-> "remove", drop |-> lines, add |-> {}]
BotOp(lines) == [kind |-> "cronset", drop |-> {Bot}, add |-> lines]
LeaveOp == [kind |-> "leave", drop |-> {}, add |-> {}]

\* The lines an operation of a kind may add; it drops those it adds again, or its
\* keyword's.
Home(kind) ==
    CASE kind = "cron" -> CronTasks
      [] kind = "running" -> RunTasks
      [] kind = "hook" -> HookTasks
      [] kind = "cronset" -> {Bot}
      [] OTHER -> {}

Ops == {op \in [kind : {"cron", "running", "hook", "remove", "cronset", "leave"},
                drop : SUBSET Lines, add : SUBSET Lines] :
            /\ op.add \subseteq Home(op.kind)
            /\ op.kind \in {"cron", "running", "hook"} => op.drop = op.add
            /\ op.kind \in {"cronset", "leave"} => op.drop = Home(op.kind)}

\* Mutant of First: hooks go through the crontab like everything else.
FirstCronset(op) == IF op.kind = "running" THEN "file" ELSE "read"

\* setServiceTask writes the file first, everything else starts with cronset.
First(op) == IF op.kind \in {"running", "hook"} THEN "file" ELSE "read"

Begin(m, ops, wanted, kinds) ==
    /\ pc[m] = "idle"
    /\ pc' = [pc EXCEPT ![m] = First(Head(ops))]
    /\ work' = [work EXCEPT ![m] = ops]
    /\ asked' = wanted
    /\ Note(kinds \cup Overlap(m))
    /\ UNCHANGED <<crontab, files, device, wiped, service, seen>>

Continue(m) ==
    /\ work' = [work EXCEPT ![m] = Tail(@)]
    /\ pc' = [pc EXCEPT ![m] = IF Tail(work[m]) = <<>> THEN "idle"
                               ELSE First(work[m][2])]

Goto(m, label) ==
    /\ pc' = [pc EXCEPT ![m] = label]
    /\ UNCHANGED work

AddTask(m) == \E t \in Tasks : Begin(m, <<AddOp(t)>>, asked \cup {t}, {})

ApplyRecommendedTasks(m) ==
    \E r \in RunTasks, h \in HookTasks, c \in CronTasks :
        Begin(m, <<AddOp(r), AddOp(h), AddOp(c)>>, asked \cup {r, h, c}, {})

RemoveTask(m) == \E t \in Listed : Begin(m, <<RemoveOp({t})>>, asked \ {t}, {})

\* manageTaskFlow adds the new schedule, then removes by the old description.
ModifyTask(m) ==
    \E t \in Listed, u \in Tasks :
        /\ t # u
        /\ Begin(m, <<AddOp(u), RemoveOp({t})>>, (asked \ {t}) \cup {u}, {})

\* The same when taskTypeFlow returned early or chose the schedule it had: the
\* task is removed although the operator kept it.
CancelModify(m) ==
    \E t \in Listed, again \in BOOLEAN :
        Begin(m, IF again THEN <<AddOp(t), RemoveOp({t})>> ELSE <<RemoveOp({t})>>,
              asked, {"cancelled"})

\* Choice d removes by "task.sh", choice a by "#".
ClearTasks(m) == Listed # {} /\ Begin(m, <<RemoveOp(Tasks)>>, asked \ Tasks, {})
ClearLegacy(m) == Listed # {} /\ Begin(m, <<RemoveOp({Watchdog, Bot})>>, asked, {"legacy"})

\* With no core running SetTGService(ON) leaves the crontab alone.
BotOn(m) == core /\ Begin(m, <<BotOp({Bot})>>, asked \cup {Bot}, {})
BotOff(m) == Begin(m, <<BotOp({})>>, asked \ {Bot}, {})

\* The toggle to OFF removes by a keyword no line has, and so only rewrites.
ModeOff(m) == startOld /\ Begin(m, <<LeaveOp>>, asked, {})

-----------------------------------------------------------------------------
\* Steps of an operation.

\* A run task enters the crontab at once only when pidof finds the core.
File(m) ==
    LET op == Head(work[m]) IN
    /\ pc[m] = "file"
    /\ IF op.kind = "running"
       THEN /\ taskRunning' = (taskRunning \ op.drop) \cup op.add
            /\ UNCHANGED taskHook
       ELSE /\ taskHook' = (taskHook \ op.drop) \cup op.add
            /\ UNCHANGED taskRunning
    /\ IF op.kind = "running" /\ core THEN Goto(m, "read") ELSE Continue(m)
    /\ UNCHANGED <<crontab, taskCron, device, wiped, service, seen, asked, mishaps>>

\* crontab -l that fails without output reads as an empty crontab.
ReadCron(p, more) ==
    \/ /\ seen' = [seen EXCEPT ![p] = crontab \cup more]
       /\ Note(Overlap(p))
    \/ /\ seen' = [seen EXCEPT ![p] = more]
       /\ Note({"unread"} \cup Overlap(p))

Read(m) ==
    /\ pc[m] = "read"
    /\ ReadCron(m, {})
    /\ Goto(m, "write")
    /\ UNCHANGED <<crontab, files, device, wiped, service, asked>>

Write(m) ==
    LET op == Head(work[m])
        lines == (seen[m] \ op.drop) \cup op.add IN
    /\ pc[m] = "write"
    /\ crontab' = lines
    /\ seen' = [seen EXCEPT ![m] = lines]
    /\ Note(IF wiped THEN {"unrestored"} ELSE {})
    /\ Goto(m, "store")
    /\ UNCHANGED <<files, device, wiped, service, asked>>

AfterStore(kind) ==
    CASE kind = "cron" -> "persist"
      [] kind = "remove" -> "prune"
      [] kind = "leave" -> "leave"
      [] OTHER -> "done"

\* Mutants of Store: the copy is left to the caller; it is deleted with a store too.
StoreLeft(m) ==
    LET next == AfterStore(Head(work[m]).kind) IN
    /\ pc[m] = "store"
    /\ taskCron' = IF store THEN taskCron ELSE {}
    /\ seen' = [seen EXCEPT ![m] = {}]
    /\ IF next = "done" THEN Continue(m) ELSE Goto(m, next)
    /\ UNCHANGED <<crontab, taskRunning, taskHook, device, wiped, service, asked, mishaps>>
StoreDeletes(m) ==
    LET next == AfterStore(Head(work[m]).kind) IN
    /\ pc[m] = "store"
    /\ taskCron' = {}
    /\ seen' = [seen EXCEPT ![m] = {}]
    /\ IF next = "done" THEN Continue(m) ELSE Goto(m, next)
    /\ UNCHANGED <<crontab, taskRunning, taskHook, device, wiped, service, asked, mishaps>>

\* With a store task/cron becomes the crontab, without one it is deleted.
Store(m) ==
    LET next == AfterStore(Head(work[m]).kind) IN
    /\ pc[m] = "store"
    /\ taskCron' = IF store THEN seen[m] ELSE {}
    /\ seen' = [seen EXCEPT ![m] = {}]
    /\ IF next = "done" THEN Continue(m) ELSE Goto(m, next)
    /\ UNCHANGED <<crontab, taskRunning, taskHook, device, wiped, service, asked, mishaps>>

\* setCronTask, after cronset
Persist(m) ==
    LET op == Head(work[m]) IN
    /\ pc[m] = "persist"
    /\ taskCron' = (taskCron \ op.drop) \cup op.add
    /\ Continue(m)
    /\ UNCHANGED <<crontab, taskRunning, taskHook, device, wiped, service, seen, asked, mishaps>>

\* Mutant of Prune: the list of files lacks task/running.
PruneSkipsRunning(m) ==
    LET drop == Head(work[m]).drop IN
    /\ pc[m] = "prune"
    /\ taskCron' = taskCron \ drop
    /\ taskHook' = taskHook \ drop
    /\ Continue(m)
    /\ UNCHANGED <<crontab, taskRunning, device, wiped, service, seen, asked, mishaps>>

\* removeTaskByKeyword, after cronset
Prune(m) ==
    LET drop == Head(work[m]).drop IN
    /\ pc[m] = "prune"
    /\ taskCron' = taskCron \ drop
    /\ taskRunning' = taskRunning \ drop
    /\ taskHook' = taskHook \ drop
    /\ Continue(m)
    /\ UNCHANGED <<crontab, device, wiped, service, seen, asked, mishaps>>

\* The toggle then writes start_old=OFF and stops the service.
Leave(m) ==
    /\ pc[m] = "leave"
    /\ startOld' = FALSE
    /\ core' = FALSE
    /\ recorded' = FALSE
    /\ Continue(m)
    /\ UNCHANGED <<crontab, files, device, wiped, oldMode, seen, asked, mishaps>>

-----------------------------------------------------------------------------
\* The service.

\* A start, by whomever: the core of conservative mode is recorded, one that an
\* init system runs is not.  One AfterStart is under way at a time.
Start ==
    /\ pc[Service] = "idle"
    /\ core' = TRUE
    /\ recorded' = startOld
    /\ oldMode' = startOld
    /\ pc' = [pc EXCEPT ![Service] = "af_wait"]
    /\ UNCHANGED <<crontab, files, device, wiped, startOld, work, seen, asked, mishaps>>

WatchdogStart == Watchdog \in crontab /\ ~recorded /\ Start

\* GeneralInit, at boot.  It refuses when autostart is off, and when .start_error,
\* which is not modelled, was left by a start that failed.
BootRefused ==
    /\ crontab' = crontab \ {Watchdog}
    /\ Note(Overlap(Service))
    /\ UNCHANGED <<files, device, wiped, service, procs, asked>>

BootInit ==
    /\ ~core /\ pc[Service] = "idle"
    /\ BootRefused \/ (~disabled /\ Start)

\* A stop, or the core dies.
CoreGone ==
    /\ core
    /\ core' = FALSE
    /\ recorded' = FALSE
    /\ UNCHANGED <<crontab, files, device, wiped, startOld, oldMode, procs, asked, mishaps>>

\* Mutants of Merged: the tasks bound to the service are left out; the watchdog
\* only comes with autostart.
MergedCron == taskCron \cup (IF oldMode THEN {Watchdog} ELSE {})
MergedAutostart ==
    taskCron \cup taskRunning \cup (IF oldMode /\ ~disabled THEN {Watchdog} ELSE {})

\* What AfterStart adds to the crontab; LoadConfig reads bot_tg_service from
\* ShellCrash.cfg, where nothing sets it, so the bot's line is never among it.
Merged == taskCron \cup taskRunning \cup (IF oldMode THEN {Watchdog} ELSE {})

AfterStart ==
    /\ pc[Service] = "af_wait"
    /\ IF core
       THEN /\ ReadCron(Service, Merged)
            /\ pc' = [pc EXCEPT ![Service] = "af_write"]
       ELSE /\ pc' = [pc EXCEPT ![Service] = "idle"]
            /\ UNCHANGED <<seen, mishaps>>
    /\ oldMode' = FALSE
    /\ UNCHANGED <<crontab, files, device, wiped, core, recorded, startOld, work, asked>>

AfterStartWrite ==
    /\ pc[Service] = "af_write"
    /\ crontab' = seen[Service]
    /\ wiped' = FALSE
    /\ pc' = [pc EXCEPT ![Service] = "idle"]
    /\ seen' = [seen EXCEPT ![Service] = {}]
    /\ UNCHANGED <<files, device, service, work, asked, mishaps>>

\* ToggleConservativeMode to ON: disable autostart, write start_old, stop.
ModeOn(m) ==
    /\ pc[m] = "idle" /\ ~startOld
    /\ disabled' = TRUE
    /\ startOld' = TRUE
    /\ core' = FALSE
    /\ recorded' = FALSE
    /\ UNCHANGED <<crontab, files, store, wiped, oldMode, procs, asked, mishaps>>

SetAutostart(m) ==
    /\ pc[m] = "idle"
    /\ disabled' = ~disabled
    /\ UNCHANGED <<crontab, files, store, wiped, service, procs, asked, mishaps>>

\* p is killed, or a step of it returns an error: the rest is left undone.
Abandoned(p) ==
    /\ pc[p] # "idle"
    /\ pc' = [pc EXCEPT ![p] = "idle"]
    /\ work' = [work EXCEPT ![p] = <<>>]
    /\ seen' = [seen EXCEPT ![p] = {}]
    /\ Note({"abandoned"})
    /\ UNCHANGED <<crontab, files, device, wiped, service, asked>>

\* A device with a store keeps its crontab in memory.
Reboot ==
    /\ crontab' = IF store THEN {} ELSE crontab
    /\ wiped' = store
    /\ core' = FALSE
    /\ recorded' = FALSE
    /\ pc' = [p \in Procs |-> "idle"]
    /\ work' = [p \in Procs |-> <<>>]
    /\ seen' = [p \in Procs |-> {}]
    /\ oldMode' = FALSE
    /\ Note(IF \E p \in Procs : Busy(p) THEN {"abandoned"} ELSE {})
    /\ UNCHANGED <<files, device, startOld, asked>>

-----------------------------------------------------------------------------
Init ==
    /\ crontab = {}
    /\ taskCron = {} /\ taskRunning = {} /\ taskHook = {}
    /\ store \in Stores
    /\ wiped = FALSE
    /\ core = FALSE /\ recorded = FALSE
    /\ startOld \in BOOLEAN
    /\ disabled = startOld
    /\ oldMode = FALSE
    /\ pc = [p \in Procs |-> "idle"]
    /\ work = [p \in Procs |-> <<>>]
    /\ seen = [p \in Procs |-> {}]
    /\ asked = {}
    /\ mishaps = {}

Choose(m) ==
    \/ AddTask(m) \/ ApplyRecommendedTasks(m) \/ RemoveTask(m) \/ ModifyTask(m)
    \/ CancelModify(m) \/ ClearTasks(m) \/ ClearLegacy(m)
    \/ BotOn(m) \/ BotOff(m) \/ ModeOn(m) \/ ModeOff(m) \/ SetAutostart(m)

Step(m) == File(m) \/ Read(m) \/ Write(m) \/ Store(m) \/ Persist(m) \/ Prune(m) \/ Leave(m)

Next ==
    \/ \E m \in Menus : Choose(m) \/ Step(m)
    \/ Start \/ WatchdogStart \/ BootInit \/ CoreGone
    \/ AfterStart \/ AfterStartWrite
    \/ \E p \in Procs : Abandoned(p)
    \/ Reboot

Spec == Init /\ [][Next]_vars

-----------------------------------------------------------------------------
\* Every variable holds a value of its kind, and a process with work left stands
\* at a step of the operation it is in.
TypeOK ==
    /\ crontab \subseteq CronLines
    /\ taskCron \subseteq CronLines
    /\ taskRunning \subseteq RunTasks
    /\ taskHook \subseteq HookTasks
    /\ {store, wiped, core, recorded, startOld, disabled, oldMode} \subseteq BOOLEAN
    /\ seen \in [Procs -> SUBSET CronLines]
    /\ work \in [Procs -> Seq(Ops)]
    /\ pc \in [Procs -> MenuPc \cup ServicePc]
    /\ work[Service] = <<>> /\ pc[Service] \in ServicePc
    /\ \A m \in Menus : pc[m] \in MenuPc /\ (pc[m] = "idle" <=> work[m] = <<>>)
    /\ asked \subseteq Tasks \cup {Bot}
    /\ mishaps \subseteq MishapKinds

MenusIdle == \A m \in Menus : pc[m] = "idle"
Kept == crontab \cup taskCron \cup taskRunning \cup taskHook

\* Once every menu is done, each task and the bot line that was asked for is where
\* the next start or cron will find it, whatever sequence of edits, starts, mode
\* switches and reboots led there; the exceptions are the named mishaps.
AskedIsKept ==
    MenusIdle /\ mishaps = {} =>
        /\ asked \cap (CronTasks \cup {Bot}) \subseteq IF wiped THEN taskCron ELSE crontab
        /\ asked \cap RunTasks \subseteq taskRunning
        /\ asked \cap HookTasks \subseteq taskHook

\* While the service is up and its AfterStart is over, cron runs everything that
\* was asked for, the tasks bound to the service included.
ServedWhileUp ==
    core /\ pc[Service] = "idle" /\ MenusIdle /\ mishaps = {} =>
        asked \ HookTasks \subseteq crontab

\* What was removed is in no file and not in the crontab, so that no later
\* AfterStart, which merges the files into the crontab, brings it back.
RemovedIsGone ==
    MenusIdle /\ mishaps \cap {"overlap", "abandoned"} = {} =>
        Kept \ {Watchdog} \subseteq asked

\* On a device with a store every task cron runs is listed in the task menu, which
\* can remove only what it lists.
StoreListsAll ==
    store /\ MenusIdle /\ mishaps \cap {"overlap", "abandoned"} = {} =>
        crontab \cap Tasks \subseteq Listed

\* In conservative mode a core that runs, AfterStart over, has its watchdog line,
\* even while menus edit the crontab.
Supervised ==
    startOld /\ core /\ pc[Service] = "idle"
    /\ mishaps \cap {"overlap", "abandoned", "unread", "legacy"} = {} =>
        Watchdog \in crontab
=============================================================================
