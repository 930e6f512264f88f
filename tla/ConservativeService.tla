------------------------ MODULE ConservativeService ------------------------
(***************************************************************************)
(* The service in conservative mode (start_old=ON), where no init system   *)
(* supervises the core: startctl.Controller.Start and Stop, the goroutine  *)
(* startLegacy leaves behind (afterStart, handleStartError) and the        *)
(* watchdog that cron runs every minute.  Several short-lived processes    *)
(* run this code at once and meet only in files under CrashDir and TmpDir, *)
(* in the crontab, in the firewall and in the processes named CrashCore.   *)
(*                                                                         *)
(* A process has a main thread and at most one background goroutine.  A    *)
(* step is a run of code between two accesses to what processes share.     *)
(***************************************************************************)
EXTENDS Naturals, FiniteSets

CONSTANTS
    Watchdogs,          \* slots for cmd/startwatchdog processes, run by cron
    Shells,             \* slots for cmd/startctl processes: exit when main returns
    Menus,              \* long-lived callers: menuctl, the TUI, the Telegram bot
    Pids,               \* process ids a core can get
    NoPid,
    Faults,             \* what the environment may do, see FaultKinds
    UseSu,              \* startLegacy goes through su (user shellcrash exists)
    PidofZombies,       \* pidof lists dead children nobody waited for (busybox)
    AutoStart,          \* CrashDir/.dis_startup is absent
    InitStopsFirewall   \* the runtime's stop branch tears the firewall down

FaultKinds == {"core_exit", "prep_fails", "killed", "reboot", "wipe"}

ASSUME ConstantsAssumption ==
    /\ Watchdogs \cap (Shells \cup Menus) = {}
    /\ Shells \cap Menus = {}
    /\ NoPid \notin Pids
    /\ Faults \subseteq FaultKinds
    /\ {UseSu, PidofZombies, AutoStart, InitStopsFirewall} \subseteq BOOLEAN

VARIABLES
    lock,       \* TmpDir/start_shellcrash.lock exists
    stranded,   \* it is that of a watchdog that was killed inside (a history)
    pidFile,    \* content of TmpDir/shellcrash.pid, NoPid when absent
    marker,     \* TmpDir/crash_start_time exists
    binary,     \* TmpDir/CrashCore exists
    startErr,   \* CrashDir/.start_error exists
    cronWd,     \* the crontab holds the watchdog line of conservative mode
    fw,         \* the firewall rules are installed
    cores,      \* cores launched by startLegacy that are running
    probes,     \* processes whose two-second test core is running
    kids,       \* the core each process launched as its own child
    main,       \* program counter of each process's main thread
    bg,         \* program counter of its background goroutine
    ret,        \* where main continues after Stop
    snap,       \* Cfg.ShellCrashPID, read once by LoadConfig
    bgSnap,     \* the goroutine's copy of it
    child       \* pid of the core just launched, not yet in the pid file

files == <<lock, stranded, pidFile, marker, binary, startErr>>
procs == <<cores, probes, kids>>
locals == <<main, bg, ret, snap, bgSnap, child>>
vars == <<files, cronWd, fw, procs, locals>>

Procs == Watchdogs \cup Shells \cup Menus
PidOrNone == Pids \cup {NoPid}

StartPc == {"st_pidof", "st_clear", "st_prep", "st_launch", "st_pidw"}
StopPc == {"sp_pid", "sp_fw", "sp_kill"}
MainPc == {"idle", "wd_lock", "wd_pid", "wd_load", "wd_unlock", "exit"}
              \cup StartPc \cup StopPc
BgPc == {"none", "cut", "af_wait", "af_fw", "af_mark", "af_cron", "er_probe", "er_mark"}
              \cup StopPc

\* Release never waits: a core launched without su stays a zombie from its
\* end to its parent's, and answers kill(pid, 0).  Of one parent only the last
\* one launched counts, the only one a pid file can still name.
Zombies == UNION {kids[p] : p \in Procs} \ cores
Alive(pid) == pid \in cores \cup Zombies

\* pidof CrashCore
Running == cores # {} \/ probes # {} \/ (PidofZombies /\ Zombies # {})

\* p is a watchdog between its Mkdir and its Remove of the lock directory.
Holds(p) == p \in Watchdogs /\ main[p] \notin {"idle", "wd_lock", "exit"}

\* Watchdog guard: .start_error without crash_start_time.
Blocked == startErr /\ ~marker

\* Where the main thread goes when Start or Stop returns.
Done(p) == IF p \in Watchdogs THEN "wd_unlock"
           ELSE IF p \in Shells THEN "exit" ELSE "idle"

Goto(p, l) == main' = [main EXCEPT ![p] = l]
BgGoto(p, l) == bg' = [bg EXCEPT ![p] = l]

\* The process has no goroutine at work: it ended ("none") or the process did
\* before it could ("cut").
Resting(p) == bg[p] \in {"none", "cut"}

\* The process is gone: its goroutine with it, init adopts its children.
Gone(p) ==
    /\ Goto(p, "idle")
    /\ BgGoto(p, IF Resting(p) THEN bg[p] ELSE "cut")
    /\ snap' = [snap EXCEPT ![p] = NoPid]
    /\ bgSnap' = [bgSnap EXCEPT ![p] = NoPid]
    /\ child' = [child EXCEPT ![p] = NoPid]
    /\ kids' = [kids EXCEPT ![p] = {}]

(***************************************************************************)
(* A device that has just booted: TmpDir is empty, the persistent files    *)
(* and the crontab are what the last run left.                             *)
(***************************************************************************)
Init ==
    /\ lock = FALSE /\ stranded = FALSE /\ pidFile = NoPid
    /\ marker = FALSE /\ binary = FALSE
    /\ startErr \in BOOLEAN
    /\ cronWd \in BOOLEAN
    /\ fw = FALSE
    /\ cores = {} /\ probes = {} /\ kids = [p \in Procs |-> {}]
    /\ main = [p \in Procs |-> "idle"]
    /\ bg = [p \in Procs |-> "none"]
    /\ ret = [p \in Procs |-> "idle"]
    /\ snap = [p \in Procs |-> NoPid]
    /\ bgSnap = [p \in Procs |-> NoPid]
    /\ child = [p \in Procs |-> NoPid]

-----------------------------------------------------------------------------
(* watchdog.Run("shellcrash") *)

\* Cron starts the watchdog; it returns an error when startup is blocked.
WdCheck(p) ==
    /\ cronWd /\ main[p] = "idle" /\ ~Blocked
    /\ Goto(p, "wd_lock")
    /\ UNCHANGED <<files, cronWd, fw, procs, bg, ret, snap, bgSnap, child>>

\* Mutant of WdLock: os.MkdirAll, which does not fail on an existing directory.
WdLockMkdirAll(p) ==
    /\ main[p] = "wd_lock"
    /\ lock' = TRUE
    /\ Goto(p, "wd_pid")
    /\ UNCHANGED <<stranded, pidFile, marker, binary, startErr, cronWd, fw, procs,
                   bg, ret, snap, bgSnap, child>>

\* os.Mkdir(lockDir) is the lock; an existing directory means: return nil.
WdLock(p) ==
    /\ main[p] = "wd_lock"
    /\ lock' = TRUE
    /\ Goto(p, IF lock THEN "exit" ELSE "wd_pid")
    /\ UNCHANGED <<stranded, pidFile, marker, binary, startErr, cronWd, fw, procs,
                   bg, ret, snap, bgSnap, child>>

\* Mutants of WdPid: the return for a live pid leaves the lock behind; the pid
\* file of a dead process stays; a live pid is taken for a stale one.
WdPidReturnsEarly(p) ==
    /\ main[p] = "wd_pid"
    /\ pidFile' = IF Alive(pidFile) THEN pidFile ELSE NoPid
    /\ Goto(p, IF Alive(pidFile) THEN "exit" ELSE "wd_load")
    /\ UNCHANGED <<lock, stranded, marker, binary, startErr, cronWd, fw, procs,
                   bg, ret, snap, bgSnap, child>>

WdPidKeepsStale(p) ==
    /\ main[p] = "wd_pid"
    /\ Goto(p, IF Alive(pidFile) THEN "wd_unlock" ELSE "wd_load")
    /\ UNCHANGED <<files, cronWd, fw, procs, bg, ret, snap, bgSnap, child>>

WdPidIgnoresAlive(p) ==
    /\ main[p] = "wd_pid"
    /\ Goto(p, "wd_load")
    /\ UNCHANGED <<files, cronWd, fw, procs, bg, ret, snap, bgSnap, child>>

\* checkPIDAlive: a pid file of a dead process is removed.
WdPid(p) ==
    /\ main[p] = "wd_pid"
    /\ pidFile' = IF Alive(pidFile) THEN pidFile ELSE NoPid
    /\ Goto(p, IF Alive(pidFile) THEN "wd_unlock" ELSE "wd_load")
    /\ UNCHANGED <<lock, stranded, marker, binary, startErr, cronWd, fw, procs,
                   bg, ret, snap, bgSnap, child>>

\* defaultStartShellCrash: LoadConfig, then Controller.Start.
WdLoad(p) ==
    /\ main[p] = "wd_load"
    /\ snap' = [snap EXCEPT ![p] = pidFile]
    /\ Goto(p, "st_pidof")
    /\ UNCHANGED <<files, cronWd, fw, procs, bg, ret, bgSnap, child>>

\* Mutant of WdUnlock: the lock is removed only when Start succeeded.
WdUnlockOnSuccess(p) ==
    /\ main[p] = "wd_unlock"
    /\ lock' = (lock /\ pidFile \notin cores)
    /\ Goto(p, "exit")
    /\ UNCHANGED <<stranded, pidFile, marker, binary, startErr, cronWd, fw, procs,
                   bg, ret, snap, bgSnap, child>>

\* The deferred os.Remove(lockDir).
WdUnlock(p) ==
    /\ main[p] = "wd_unlock"
    /\ lock' = FALSE /\ stranded' = FALSE
    /\ Goto(p, "exit")
    /\ UNCHANGED <<pidFile, marker, binary, startErr, cronWd, fw, procs,
                   bg, ret, snap, bgSnap, child>>

\* The process exits and its goroutine dies with it; a test core it had
\* running is left behind.
Exit(p) ==
    /\ main[p] = "exit"
    /\ Gone(p)
    /\ UNCHANGED <<files, cronWd, fw, cores, probes, ret>>

\* A menu is left, the bot ends.
Quit(p) ==
    /\ p \in Menus /\ main[p] = "idle"
    /\ ~Resting(p) \/ kids[p] # {}
    /\ Gone(p)
    /\ UNCHANGED <<files, cronWd, fw, cores, probes, ret>>

-----------------------------------------------------------------------------
(* Commands of an operator: RunWithArgs on a freshly loaded configuration. *)

Idle(p) == p \in Shells \cup Menus /\ main[p] = "idle"

Load(p) == snap' = [snap EXCEPT ![p] = pidFile]

\* A menu starts again only after its goroutine has ended (a bound: the
\* program could have several).
RunStart(p) ==
    /\ Idle(p) /\ Resting(p)
    /\ Load(p) /\ Goto(p, "st_pidof")
    /\ UNCHANGED <<files, cronWd, fw, procs, bg, ret, bgSnap, child>>

RunStop(p) ==
    /\ Idle(p)
    /\ Load(p) /\ Goto(p, "sp_pid")
    /\ ret' = [ret EXCEPT ![p] = Done(p)]
    /\ UNCHANGED <<files, cronWd, fw, procs, bg, bgSnap, child>>

RunRestart(p) ==
    /\ Idle(p) /\ Resting(p)
    /\ Load(p) /\ Goto(p, "sp_pid")
    /\ ret' = [ret EXCEPT ![p] = "st_pidof"]
    /\ UNCHANGED <<files, cronWd, fw, procs, bg, bgSnap, child>>

\* lifecycle.GeneralInit: no start after a failed one or with autostart
\* off, and the watchdog line is taken out of the crontab.
RunInit(p) ==
    /\ Idle(p) /\ Resting(p)
    /\ IF startErr \/ ~AutoStart
       THEN cronWd' = FALSE /\ UNCHANGED <<snap, main>>
       ELSE Load(p) /\ Goto(p, "st_pidof") /\ UNCHANGED cronWd
    /\ UNCHANGED <<files, fw, procs, bg, ret, bgSnap, child>>

-----------------------------------------------------------------------------
(* Controller.Start, conservative branch *)

\* Mutant of StPidof: Start does not stop what runs.
StPidofNoStop(p) ==
    /\ main[p] = "st_pidof"
    /\ ret' = [ret EXCEPT ![p] = "st_clear"]
    /\ Goto(p, "st_clear")
    /\ UNCHANGED <<files, cronWd, fw, procs, bg, snap, bgSnap, child>>

\* if isRunning("CrashCore") { c.Stop() }
StPidof(p) ==
    /\ main[p] = "st_pidof"
    /\ ret' = [ret EXCEPT ![p] = "st_clear"]
    /\ Goto(p, IF Running THEN "sp_pid" ELSE "st_clear")
    /\ UNCHANGED <<files, cronWd, fw, procs, bg, snap, bgSnap, child>>

\* stopFirewall and the removal of .start_error
StClear(p) ==
    /\ main[p] = "st_clear"
    /\ fw' = FALSE
    /\ startErr' = FALSE
    /\ Goto(p, "st_prep")
    /\ UNCHANGED <<lock, stranded, pidFile, marker, binary, cronWd, procs,
                   bg, ret, snap, bgSnap, child>>

\* ensureCoreConfig, beforeStart and runCorePreChecks: a failure returns
\* from Start, success leaves a usable TmpDir/CrashCore.
StPrep(p) ==
    /\ main[p] = "st_prep"
    /\ \/ /\ startErr \/ "prep_fails" \in Faults
          /\ binary' \in {binary, binary \/ ~startErr}
          /\ Goto(p, Done(p))
       \/ /\ ~startErr
          /\ binary' = TRUE
          /\ Goto(p, "st_launch")
    /\ UNCHANGED <<lock, stranded, pidFile, marker, startErr, cronWd, fw, procs,
                   bg, ret, snap, bgSnap, child>>

\* The core is started.  Without its binary su still prints a pid, of a
\* process that is dead at once; a direct start returns the error.
StLaunch(p) ==
    /\ main[p] = "st_launch"
    /\ \/ /\ binary
          /\ \E c \in Pids \ (cores \cup Zombies) :
                /\ cores' = cores \cup {c}
                /\ child' = [child EXCEPT ![p] = c]
                /\ kids' = IF UseSu THEN kids ELSE [kids EXCEPT ![p] = @ \cup {c}]
          /\ Goto(p, "st_pidw")
       \/ /\ ~binary /\ UseSu
          /\ \E c \in Pids \ (cores \cup Zombies) : child' = [child EXCEPT ![p] = c]
          /\ Goto(p, "st_pidw")
          /\ UNCHANGED <<cores, kids>>
       \/ /\ ~binary /\ ~UseSu
          /\ Goto(p, Done(p))
          /\ UNCHANGED <<cores, kids, child>>
    /\ UNCHANGED <<files, cronWd, fw, probes, bg, ret, snap, bgSnap>>

\* Mutant of StPidWrite: startDetachedCore with writePID = false.
StPidWriteSkipped(p) ==
    /\ main[p] = "st_pidw"
    /\ child' = [child EXCEPT ![p] = NoPid]
    /\ kids' = [kids EXCEPT ![p] = @ \cap {child[p]}]
    /\ BgGoto(p, "af_wait")
    /\ bgSnap' = [bgSnap EXCEPT ![p] = snap[p]]
    /\ snap' = [snap EXCEPT ![p] = NoPid]
    /\ Goto(p, Done(p))
    /\ UNCHANGED <<files, cronWd, fw, cores, probes, ret>>

\* The pid is recorded, `go c.afterStart(false)` and Start returns nil.
StPidWrite(p) ==
    /\ main[p] = "st_pidw"
    /\ pidFile' = child[p]
    /\ child' = [child EXCEPT ![p] = NoPid]
    /\ kids' = [kids EXCEPT ![p] = @ \cap {child[p]}]
    /\ BgGoto(p, "af_wait")
    /\ bgSnap' = [bgSnap EXCEPT ![p] = snap[p]]
    /\ snap' = [snap EXCEPT ![p] = NoPid]
    /\ Goto(p, Done(p))
    /\ UNCHANGED <<lock, stranded, marker, binary, startErr, cronWd, fw, cores, probes, ret>>

-----------------------------------------------------------------------------
(* Controller.Stop, on the main thread or in the goroutine *)

\* SIGTERM to the pid the configuration was loaded with, pid file removed.
KillRecorded(pid) ==
    /\ cores' = cores \ {pid}
    /\ pidFile' = IF pid = NoPid THEN pidFile ELSE NoPid
    /\ UNCHANGED <<lock, stranded, marker, binary, startErr, cronWd, fw, probes,
                   kids, ret, snap, bgSnap, child>>

\* stopFirewall, which the branch without a pid leaves to the runtime.
DropFirewall(pid) ==
    /\ fw' = (fw /\ pid = NoPid /\ ~InitStopsFirewall)
    /\ UNCHANGED <<files, cronWd, procs, ret, snap, bgSnap, child>>

\* killall CrashCore, RemoveAll(TmpDir/CrashCore)
KillAll ==
    /\ cores' = {} /\ probes' = {}
    /\ binary' = FALSE
    /\ UNCHANGED <<lock, stranded, pidFile, marker, startErr, cronWd, fw, kids,
                   ret, snap, child>>

SpPid(p) == /\ main[p] = "sp_pid" /\ Goto(p, "sp_fw") /\ UNCHANGED bg
            /\ KillRecorded(snap[p])
SpFw(p) == /\ main[p] = "sp_fw" /\ Goto(p, "sp_kill") /\ UNCHANGED bg
           /\ DropFirewall(snap[p])
SpKill(p) == /\ main[p] = "sp_kill" /\ Goto(p, ret[p]) /\ UNCHANGED <<bg, bgSnap>>
             /\ KillAll

\* Mutant of BgSpKill: the goroutine goes on where the main thread would.
BgSpKillResumes(p) == /\ bg[p] = "sp_kill" /\ BgGoto(p, ret[p]) /\ UNCHANGED <<main, bgSnap>>
                      /\ KillAll

BgSpPid(p) == /\ bg[p] = "sp_pid" /\ BgGoto(p, "sp_fw") /\ UNCHANGED main
              /\ KillRecorded(bgSnap[p])
BgSpFw(p) == /\ bg[p] = "sp_fw" /\ BgGoto(p, "sp_kill") /\ UNCHANGED main
             /\ DropFirewall(bgSnap[p])
BgSpKill(p) == /\ bg[p] = "sp_kill" /\ BgGoto(p, "none") /\ UNCHANGED main
               /\ KillAll /\ bgSnap' = [bgSnap EXCEPT ![p] = NoPid]

-----------------------------------------------------------------------------
(* The goroutine: lifecycle.AfterStart, or handleStartError *)

\* Mutant of AfWait: the firewall is started only when the marker says that
\* this is not the first start.
AfWaitSkipsFirewall(p) ==
    /\ bg[p] = "af_wait"
    /\ BgGoto(p, IF ~Running THEN "er_probe" ELSE IF marker THEN "af_fw" ELSE "af_mark")
    /\ UNCHANGED <<files, cronWd, fw, procs, main, ret, snap, bgSnap, child>>

\* isCoreReady, after the start delay: the API answers or pidof finds a core.
AfWait(p) ==
    /\ bg[p] = "af_wait"
    /\ BgGoto(p, IF Running THEN "af_fw" ELSE "er_probe")
    /\ UNCHANGED <<files, cronWd, fw, procs, main, ret, snap, bgSnap, child>>

AfFirewall(p) ==
    /\ bg[p] = "af_fw"
    /\ fw' = TRUE
    /\ BgGoto(p, "af_mark")
    /\ UNCHANGED <<files, cronWd, procs, main, ret, snap, bgSnap, child>>

AfMarker(p) ==
    /\ bg[p] = "af_mark"
    /\ marker' = TRUE
    /\ BgGoto(p, "af_cron")
    /\ UNCHANGED <<lock, stranded, pidFile, binary, startErr, cronWd, fw, procs,
                   main, ret, snap, bgSnap, child>>

\* The crontab is merged with task files and gets the watchdog line.
AfCron(p) ==
    /\ bg[p] = "af_cron"
    /\ cronWd' = TRUE
    /\ BgGoto(p, "none")
    /\ bgSnap' = [bgSnap EXCEPT ![p] = NoPid]
    /\ UNCHANGED <<files, fw, procs, main, ret, snap, child>>

\* killall -9 CrashCore, then the core runs two seconds for its log.
ErProbe(p) ==
    /\ bg[p] = "er_probe"
    /\ cores' = {}
    /\ probes' = IF binary THEN {p} ELSE {}
    /\ BgGoto(p, "er_mark")
    /\ UNCHANGED <<files, cronWd, fw, kids, main, ret, snap, bgSnap, child>>

\* The test core is killed, .start_error written, then Stop.
ErMark(p) ==
    /\ bg[p] = "er_mark"
    /\ probes' = probes \ {p}
    /\ startErr' = TRUE
    /\ BgGoto(p, "sp_pid")
    /\ UNCHANGED <<lock, stranded, pidFile, marker, binary, cronWd, fw, cores, kids,
                   main, ret, snap, bgSnap, child>>

-----------------------------------------------------------------------------
(* The environment *)

\* A core, or a test core, ends by itself.
CoreExit ==
    /\ "core_exit" \in Faults
    /\ \/ \E c \in cores : cores' = cores \ {c} /\ UNCHANGED probes
       \/ \E p \in probes : probes' = probes \ {p} /\ UNCHANGED cores
    /\ UNCHANGED <<files, cronWd, fw, kids, locals>>

\* A process is killed (out of memory, a closed terminal) where it stands.
Killed(p) ==
    /\ "killed" \in Faults
    /\ main[p] # "idle" \/ ~Resting(p) \/ kids[p] # {}
    /\ Gone(p)
    /\ stranded' = (stranded \/ (lock /\ Holds(p)))
    /\ UNCHANGED <<lock, pidFile, marker, binary, startErr, cronWd, fw, cores,
                   probes, ret>>

\* Power cycle: TmpDir is a tmpfs, the crontab may be one.
Reboot ==
    /\ "reboot" \in Faults
    /\ lock' = FALSE /\ stranded' = FALSE /\ pidFile' = NoPid
    /\ marker' = FALSE /\ binary' = FALSE
    /\ cronWd' \in {cronWd, FALSE}
    /\ fw' = FALSE
    /\ cores' = {} /\ probes' = {} /\ kids' = [p \in Procs |-> {}]
    /\ main' = [p \in Procs |-> "idle"]
    /\ bg' = [p \in Procs |-> "none"]
    /\ snap' = [p \in Procs |-> NoPid]
    /\ bgSnap' = [p \in Procs |-> NoPid]
    /\ child' = [p \in Procs |-> NoPid]
    /\ UNCHANGED <<startErr, ret>>

\* setbootctl.ToggleMiniFlash leaving small-flash mode: RemoveAll(TmpDir).
WipeTmp ==
    /\ "wipe" \in Faults
    /\ lock' = FALSE /\ stranded' = FALSE /\ pidFile' = NoPid
    /\ marker' = FALSE /\ binary' = FALSE
    /\ UNCHANGED <<startErr, cronWd, fw, procs, locals>>

-----------------------------------------------------------------------------
Watchdog(p) == WdCheck(p) \/ WdLock(p) \/ WdPid(p) \/ WdLoad(p) \/ WdUnlock(p)

Start(p) == StPidof(p) \/ StClear(p) \/ StPrep(p) \/ StLaunch(p) \/ StPidWrite(p)

Stop(p) == SpPid(p) \/ SpFw(p) \/ SpKill(p)

Command(p) == RunStart(p) \/ RunStop(p) \/ RunRestart(p) \/ RunInit(p)

AfterStart(p) == AfWait(p) \/ AfFirewall(p) \/ AfMarker(p) \/ AfCron(p)

StartError(p) == ErProbe(p) \/ ErMark(p) \/ BgSpPid(p) \/ BgSpFw(p) \/ BgSpKill(p)

Background(p) == AfterStart(p) \/ StartError(p)

Next ==
    \/ \E p \in Watchdogs : Watchdog(p)
    \/ \E p \in Procs : Command(p) \/ Start(p) \/ Stop(p) \/ Exit(p) \/ Quit(p)
                        \/ Background(p) \/ Killed(p)
    \/ CoreExit \/ Reboot \/ WipeTmp

Spec == Init /\ [][Next]_vars

(***************************************************************************)
(* Fairness: the kernel runs every thread that is not blocked, and cron    *)
(* starts the watchdog again and again.  Operators and faults owe nothing. *)
(***************************************************************************)
Fairness ==
    /\ \A p \in Watchdogs : WF_vars(Watchdog(p))
    /\ \A p \in Procs : /\ WF_vars(Start(p) \/ Stop(p) \/ Exit(p))
                        /\ WF_vars(Background(p))

FairSpec == Spec /\ Fairness

-----------------------------------------------------------------------------
(* Properties *)

\* Type invariant of the model.
TypeOK ==
    /\ lock \in BOOLEAN /\ stranded \in BOOLEAN /\ marker \in BOOLEAN /\ binary \in BOOLEAN
    /\ startErr \in BOOLEAN /\ cronWd \in BOOLEAN /\ fw \in BOOLEAN
    /\ pidFile \in PidOrNone
    /\ cores \subseteq Pids
    /\ probes \subseteq Procs
    /\ kids \in [Procs -> SUBSET Pids]
    /\ main \in [Procs -> MainPc]
    /\ bg \in [Procs -> BgPc]
    /\ ret \in [Procs -> {"idle", "exit", "wd_unlock", "st_pidof", "st_clear"}]
    /\ snap \in [Procs -> PidOrNone]
    /\ bgSnap \in [Procs -> PidOrNone]
    /\ child \in [Procs -> PidOrNone]

\* watchdog.Run: two watchdogs that cron started in overlapping minutes are
\* never both past os.Mkdir, and the directory exists while one is.
LockExclusion ==
    /\ \A p, q \in Watchdogs : Holds(p) /\ Holds(q) => p = q
    /\ \A p \in Watchdogs : Holds(p) => lock

\* watchdog.Run: every way out of the critical section removes the lock
\* directory, so the one that is found is that of a watchdog still inside, or
\* of one that was killed there.
LockReleased == lock => stranded \/ \E p \in Watchdogs : Holds(p)

\* Watchdogs alone, however they overlap, die or fail, never have two cores
\* running: Start stops what runs before it launches, and nobody launches in
\* between.
SingleCore == \A c, d \in cores : c = d

\* Watchdogs alone never leave an unrecorded core behind: the pid file names
\* the running core, or a watchdog is about to write it there, or the one that
\* was to write it was killed inside the lock, which then keeps all others out.
CoreRecorded ==
    stranded \/ \A c \in cores : pidFile = c \/ \E p \in Procs : child[p] = c

\* Whoever starts, stops or is killed, and however often, every running core
\* was launched by a different process slot: a process that launches again has
\* first seen no core running, or killed them all.
CoresBounded == Cardinality(cores) <= Cardinality(Procs)

\* watchdog.Run every minute: a core that is gone is launched again, unless the
\* failure is on record and blocks the watchdog, the crontab lost its line, an
\* operator is at work, or the pid file names the zombie of a core whose parent,
\* a menu or the bot, is still open.
CoreRevived ==
    (cronWd /\ cores = {}) ~>
        \/ cores # {} \/ Blocked \/ ~cronWd
        \/ \E p \in Shells \cup Menus : main[p] # "idle" \/ pidFile \in kids[p]

\* lifecycle.AfterStart: once a core has been launched and keeps running, the
\* firewall is started for it, unless the process that launched it ends before
\* its goroutine gets there, which those of cmd/startctl and the watchdog do.
FirewallFollows ==
    \A p \in Procs :
        (bg[p] = "af_wait" /\ pidFile \in cores)
            ~> (fw \/ pidFile \notin cores \/ bg[p] = "cut")

\* watchdog.Run skips the start when the recorded pid is alive: among watchdogs
\* a core that the pid file names ends by itself or with the device, or in the
\* killall of a handleStartError whose own start found no core running, never
\* in the Stop that a Start calls.
SparesLiveCore ==
    [][(pidFile \in cores /\ pidFile \notin cores') =>
         CoreExit \/ Reboot \/ \E p \in Watchdogs : StartError(p)]_vars

\* Watchdogs alone, wherever they are killed and whatever fails, act as one
\* Supervisor: seen through the lock, the pid file and the running cores, each
\* of their steps is one of its steps or none.
Inside == {p \in Watchdogs : Holds(p)}
One == INSTANCE Supervisor WITH
    Guards <- Watchdogs,
    shut <- lock,
    inside <- Inside,
    recorded <- pidFile
ActAsOne == One!Spec
=============================================================================
