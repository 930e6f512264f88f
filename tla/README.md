# A TLA+ model of ShellCrash (Go)

ShellCrash is the control plane of a transparent proxy on a router: it configures,
starts, supervises and stops a proxy core (mihomo or sing-box, always installed as
`CrashCore`), diverts the traffic of the LAN and of the device to it, and keeps
tasks in the system's crontab. It is not one server: it is some twenty short-lived
commands, a few long-lived menus and a bot, which meet only in files, in the
crontab, in the kernel's firewall and in the process table. What goes wrong in such a
program goes wrong between two of those commands, and that is what is modelled here.

Paths below are relative to `src/shellcrashgo/`; `internal/` is left out before a
package name.

Contents: [inventory](#1-inventory), [plan](#2-plan),
[service](#3-conservativeservice-the-service-without-an-init-system),
[firewall](#4-firewall-what-start-leaves-for-stop),
[crontab](#5-crontab-tasks-and-the-lines-of-cron),
[core files](#6-corefiles-where-the-core-lives-and-who-replaces-it),
[configuration](#7-coreconfig-and-providers-from-the-source-to-what-the-core-runs),
[settings](#8-settings-and-gateway-the-menus-over-shared-files),
[bot](#9-tgbot-implements-inbox), [proofs](#10-what-is-proved),
[what the checks do not show](#11-what-is-not-shown), [running](#running).

## 1. Inventory

### Shared state

| State | Where | Written by |
|---|---|---|
| configuration | `configs/ShellCrash.cfg`, `configs/gateway.cfg`, `configs/command.env` | every menu, `startctl`, `taskctl`, `tgbot`, `upgradectl`, each rewriting the file from its own copy |
| run state | `TmpDir`: `shellcrash.pid`, `start_*.lock`, `crash_start_time`, `CrashCore`, `config.yaml`, `webgroup` | `startctl`, `lifecycle`, `watchdog`, `setbootctl` (deletes it whole) |
| failed start | `CrashDir/.start_error`, `.dis_startup` | `startctl`, `setbootctl` |
| crontab, task files | system crontab, `task/*` | `startctl` (cronset), `lifecycle`, `taskctl`, `watchdog` callers |
| kernel | iptables, nftables, ipsets, policy routes, `/etc/resolv.conf` | `firewall` |
| processes | `CrashCore`, `bot_tg` | `startctl`, `watchdog`, cron |
| core's API | selections of the web panel | `lifecycle`, `taskctl` (hot reload) |

Almost none of it is locked. The one lock in the program is the directory
`start_<target>.lock` of the watchdog.

### Components

Lines are Go lines without tests.

| Component (lines) | State it keeps, operations | Hard behaviour | What makes it correct | Module |
|---|---|---|---|---|
| `startctl` (3225) | Controller over a configuration read once: Start, Stop, restart, init, Debug, Daemon, cronset, core_exchange, afterstart; one branch per init system, and the conservative one (`start_old=ON`) with no supervisor; which core file and which runtime configuration a start takes | Start and Stop interleave with those of other processes; a goroutine goes on after Start returned and dies with its process; a pid read at load time is killed later | one core, recorded; the firewall follows the core; a failed start is recorded and blocks restarts; a start finds a core and a configuration that run | ConservativeService, CoreFiles, CoreConfig, Crontab |
| `watchdog` (204) | lock directory, pid check, start of `shellcrash` or `bot_tg` | cron overlaps runs; the lock survives a kill; check and start are apart | mutual exclusion, release, revival, no kill of a live core | ConservativeService, TgBot |
| `lifecycle` (820) | BeforeStart (tasks, checks), AfterStart (firewall, marker, crontab), GeneralInit (boot), save and restore of web selections | order of core, firewall, marker; crontab rewritten without a lock | the firewall is up after a start for as long as its core serves it | ConservativeService, Crontab |
| `firewall` (1502) | kernel rules: Start, Stop, both backends, five areas, seven modes | Stop reads today's configuration, not the one the rules were installed for; errors of single commands are ignored | Stop ends diversion; Start then Stop leaves nothing but what it put in table fw4; scope; no loop | Firewall |
| `taskctl` (1920) | built-in tasks (update_core, update_config, hotupdate, update_mmdb, web_save...), task files, crontab lines, log | read-modify-write of the crontab; updates of several files with failures in between | a task added is run, one removed is gone; core file, configuration and running core agree | Crontab, CoreFiles, CoreConfig |
| `tgbot` (1157) | poll loop with an in-memory offset, upload state, commands that restart or switch the service | redelivery after a restart; a command that restarts the service while it runs | each command is carried out in order, and confirmed only then; a file is what it was announced as | TgBot, Inbox, Settings |
| `setbootctl` (471) | autostart, conservative mode, small-flash mode, BinDir | switches modes under a running service | no task and no watchdog line is lost | Crontab, ConservativeService, CoreFiles |
| `coreconfig` (2898) | downloads or generates the core's configuration; the list of providers; the operator's own rules, nodes, groups | fall-back over converters, one file in TmpDir for all, two files of providers | every converter gets its turn; a saved provider stays listed; a start with a good configuration comes up | CoreConfig, Providers |
| `upgradectl` (1705) | replaces core, scripts, geo data, certificates, panel | failure between two files | as for update_core | CoreFiles (the core) |
| `settingsctl` (786), `toolsctl` (1762) | menus over `ShellCrash.cfg`; SSH from outside, pushes, guide profiles | one operation is several writes; others write in between | keys that belong together agree | Settings |
| `gatewayctl` (2044) | menus over `ShellCrash.cfg`, `gateway.cfg`, `configs/mac`, `configs/ip_filter` | each answer is computed from an older picture of the files | limits and coupled keys hold | Gateway |
| `menuctl` (180) | long-lived caller of the controller | its goroutines outlive a choice | as for the controller | ConservativeService |
| `utils` (684) | validation and installation of a core; stateless helpers | as upgradectl | as upgradectl | CoreFiles |
| `initctl` (856), `installctl` (104), `installpathctl` (319), `uninstallctl` (297) | one-shot installation and removal | sequential file edits | not modelled | |
| `snapshotctl` (457) | boot glue for one vendor's firmware | waits for the system | not modelled | |
| `ddnsctl` (465), `tui` (267) | screens around system tools and the controller | none of its own | not modelled | |
| `logger` (266), `legacylaunch` (90), `minimalflow` (339) | helpers | none of its own | not modelled | |
| `cmd/*` (1984) | mains | a process ends, with its goroutines, when main returns | modelled where it matters (Exit) | ConservativeService |
| `scripts/`, `docker/`, `public/`, `rules/` | wrappers, service files, assets | none | not modelled | |

### How they interact

    cron --each minute--> watchdog --Start--+
    operator --> startctl / menuctl / tgbot +--> Controller --> CrashCore
    init script --> startctl init ----------+        |  \-goroutine--> AfterStart --> firewall.Start
                                                     |                     \--> crontab (watchdog line)
                                                     +--Stop--> firewall.Stop
    taskctl (from cron, or as a hook) --> Controller, firewall, core's API

`PROJECT.json` lists the hazards, each at its line, with the properties that would
catch it going wrong or the reason why none does yet.

## 2. Plan

Every component with state that more than one process changes, or that a cut can leave
half changed, has a module. They were written in this order, most important first:

1. **ConservativeService**: start, stop, watchdog and the goroutine of the one
   mode where ShellCrash supervises the core itself; watchdogs alone implement the abstract
   **Supervisor**.
2. **Firewall**: Start and Stop as transformers of kernel state.
3. **Crontab**: the crontab, the task files, and every read-modify-write of them, with
   the mode and autostart toggles that decide what AfterStart adds.
4. **CoreFiles**: packed core, unpacked core, `crashcore`, `COMMAND` and the running core,
   with the four programs that replace them.
5. **CoreConfig** and **Providers**: the configuration on its way from the source to the core, and the
   list of sources.
6. **Settings** and **Gateway**: rewrites of the shared configuration files: operations that take
   several writes, and answers computed from an older picture.
7. **TgBot**, which implements the abstract **Inbox**.

What is left, in order of interest: ConservativeService and Firewall composed, its Boolean `fw` refined by
the rules; the init systems' branches of `startctl`, where a supervisor restarts the core; the saved web
selections of `lifecycle`. Of proofs: what a composition of ConservativeService and Firewall promises.

## 3. ConservativeService: the service without an init system

`ConservativeService.tla`, `Supervisor.tla`, `MCConservativeService.tla`, `ConservativeServiceProofs.tla`.

### State and actions

A process is a slot with a program counter `main`, a goroutine `bg`, and the values the
code keeps in memory (`snap` is `Cfg.ShellCrashPID` read by `LoadConfig`, `bgSnap` the
goroutine's copy, `child` the pid just returned by the launcher). Slots are of three
kinds: Watchdogs (`cmd/startwatchdog`, run by cron), Shells (`cmd/startctl`: the process,
with its goroutine, ends when main returns) and Menus (long-lived callers). The rest
is the shared state of the table above, plus `cores`, the running cores by pid, and
`probes`, the two-second test core of `handleStartError`, and `kids`, the cores a process launched itself
and has not waited for. `stranded` is history: the lock directory was left by a watchdog killed inside.

| Actions | Code |
|---|---|
| WdCheck, WdLock, WdPid, WdLoad, WdUnlock | `watchdog.Run`, `checkPIDAlive`, `defaultStartShellCrash` |
| RunStart, RunStop, RunRestart, RunInit | `RunWithArgs`, `lifecycle.GeneralInit`, menu choices |
| StPidof, StClear, StPrep, StLaunch, StPidWrite | `Controller.Start`, `startLegacy`, `startDetachedCore` |
| SpPid, SpFw, SpKill and Bg... | `Controller.Stop`, on the main thread or in the goroutine |
| AfWait, AfFirewall, AfMarker, AfCron | `lifecycle.AfterStart` |
| ErProbe, ErMark | `handleStartError`, which then stops in the goroutine |
| Exit, Quit | the end of `main`; of a menu or the bot |
| CoreExit, Killed, Reboot, WipeTmp | a core that dies, a process killed, a power cycle, `ToggleMiniFlash` |

A step is the code between two accesses to what processes share. Merged where no
other process can see the difference or the difference is between two adjacent writes
of one actor: SIGTERM and removal of the pid file; killall and removal of the binary;
stopFirewall and removal of `.start_error`. Signals take effect at once. AfCron is
atomic here; its race is in the Crontab module.

`Supervisor` is what the watchdogs amount to when no one else starts or stops the service: one guard
at a time is inside; only there is a core launched, when none runs and none is on record; who
goes out leaves the running core on record; who vanishes inside leaves the door shut until the next boot. Its `shut` is the lock
directory, `inside` the watchdogs between `os.Mkdir` and `os.Remove` (`Inside`), `recorded` the pid file (`One`).

A core launched without `su` is a child of the process that launched it, which never waits for it
(`controller.go:827` releases the handle): once dead it is a zombie until that process ends (Zombies), and
`kill(pid, 0)` of `watchdog.go:101` takes it for alive (Alive). Whether `pidof` does too depends on the device's `pidof`
(`PidofZombies`). When a process ends while its goroutine is at work the goroutine is "cut".

Abstracted: the preparation (`ensureCoreConfig`, `beforeStart`, `runCorePreChecks`) either
fails or leaves a usable binary. A launch through `su` without a binary still records a
pid, of a dead process; a direct launch returns the error (`UseSu` selects). A stale
pid is not reused by a foreign process. The `core -t` validation is not counted as a core.
`firewall.Start` fails only on an unreadable configuration, so AfFirewall has no failure
branch. Area 5's start without a core and the service managers' branches are not here.

### Runs

| Run | Instance | Question and answer |
|---|---|---|
| cs_watchdogs | 3 watchdogs, 2 pids, cores die, preparation fails, watchdogs are killed, reboots (128,893 states) | Overlapping minutes never hold the lock together (LockExclusion), leave it behind only when killed inside (LockReleased), always record the core, or shut everybody out with the lock of the one that was killed before it could (CoreRecorded), and never stop a recorded core, on the main thread or in a goroutine, but in the killall of a start that failed (SparesLiveCore); each step seen through lock, pid file and cores is one of Supervisor's or none, so two cores never run (ActAsOne) |
| cs_menu | 1 watchdog, 1 menu that may be left, 2 pids, cores die, direct launches, fair (348,459 states) | After a start the firewall comes up for as long as the core runs, unless the process ended first (FirewallFollows); a core that is gone is launched again unless the failure is on record, the crontab line is gone, an operator is at work or the pid file names a zombie of an open menu (CoreRevived) |
| cs_mixed | 1 watchdog, 1 command, 3 pids, kills, reboots, wiped TmpDir (1,349,047 states) | With unlocked callers two cores can run; never more than there are processes (CoresBounded) |

Bounds. Three watchdogs are one more than needed to have one in its critical section, one
refused by the lock and one entering after a release. Two pids suffice for "an old and a new
core"; three in cs_mixed let the bound be exceeded if it could be. In cs_menu a menu starts
again only after its goroutine ended, and menus are left but not killed in the middle (cs_mixed has that). cs_menu
has no failing preparation and one watchdog: with failures for ever nothing
can promise a revival, and a lock left behind by a kill stays. Symmetry over watchdogs and pids is used in the safety runs only.

Deadlock is not an error in these runs: with no operator and no watchdog line the
system rests.

Fairness (`Fairness`): weak, per thread: the kernel runs a thread that is not blocked
(no step here blocks), and cron starts the watchdog again and again, which is its job.
Operators, faults and process exits by kill owe nothing.

### What the model shows besides

- `startctl/controller.go:271`: `startLegacy` leaves the firewall, the marker and the crontab
  line to a goroutine and returns; `startctl` and `startwatchdog` return from main next, and the goroutine
  may never run ("cut"). FirewallFollows excepts it: what it shows concerns menus and the bot, which live on.
- `watchdog/watchdog.go:101`: the zombie of a core that an open menu or the bot launched looks alive; the service
  stays down until that process ends. CoreRevived excepts exactly that.
- `watchdog/watchdog.go:66`: nobody removes the lock directory of a watchdog that was killed inside; there is no
  supervision until TmpDir is emptied.
- `watchdog/watchdog.go:68`: the pid check and the start are two steps under a lock
  that only watchdogs take. Between them a command may launch a core, which the watchdog's start then
  kills. SparesLiveCore is a property of watchdogs among themselves. Among them too, a watchdog whose own start found
  no core running (`handleStartError`) kills by name, and so a core that a later one has launched.
- `startctl/controller.go:164`: Stop leaves the watchdog's line in the crontab, and the next minute starts the
  service again. No property says that a stop lasts.

## 4. Firewall: what Start leaves for Stop

`Firewall.tla`, `MCFirewall.tla`, `FirewallProofs.tla`.

### State and actions

`firewall.Start` builds a list of commands from the configuration and runs them with errors
ignored; `Stop` builds another from the configuration it reads then. The model keeps the
kernel state those commands act on and gives each command its effect in the state it
finds: `-I` adds a copy of a rule to the bag `hooks`, `-D` removes one; `-N` keeps an existing
chain, `-A` appends, `-F` empties, `-X` is refused while a rule leads to the chain; an nft
table is replaced; a rule naming a set that does not exist is refused; a second policy rule or
route is refused. A rule is the set of packets it matches, over a packet space of family,
source, protocol, port class and destination class, and its target; `Diverted` is the set of
packets that end at the proxy.

| Definition | Code |
|---|---|
| StartHooks, StartChains, RedirChain, MarkChain, PortHooks, MarkHooks, WanHooks, QuicHooks | `buildStartCommands` and the iptables builders of `start.go` |
| NftChains, NftRedir, NftDns, NftVm | `appendNFTRules` and below |
| NewRoute, FwStart | policy routes; `Start` |
| StopHooks, StopChains, FwStop | `buildStopCommands`, `Stop` of `stop.go` |
| CheckCNIP | `ensureCNIPAssets`: CN lists and their ipsets |
| Edit | a menu writes the configuration and applies nothing |
| Reboot | the kernel forgets; `resolv.conf` may be on disk |

The history variables `live` (the starts since the last Stop: their configuration, and the CN lists there were), `tunnelled` (a start
under nftables in Tun or Mix since boot), `up`, `tidy` and `edits` only serve the properties and the bound.

What a configuration asks for is written down a second time, from its switches and not from its rules: OfArea, OfVm, AsksDns, AsksVm, AsksDevice,
AsksProxy and AsksPort say which packets it means to divert, by area, protocol, family, device filter, CN list and port. ScopeRespected
compares the two.

Not modelled: devices that lack one of the tools, the `clashpre` core, packets to the
proxy's own ports, a side gateway's own packets, custom host and reserved ranges, edits of port
numbers, the type and priority of an nft chain (a rerun under another mode would meet a
chain of another type). MAC and IP device lists are one device, `guest`. Mix mode's second
mark and its redirecting chain are one REDIRECT.

### Runs

| Run | Instance | Question and answer |
|---|---|---|
| fw_rules | 12 configurations, 2 edits, 2 copies of a rule (82,948 states) | Whatever was edited and however often Start ran, after Stop nothing is diverted (StopEndsDiversion); an unedited cycle leaves nothing but what Start put into table fw4 (CleanCycle); what is diverted one started configuration asks for, whatever is left over, except that a rule left by another start may bring packets of other ports to its chains (ScopeRespected) |
| fw_loop (violation) | device-only configurations | CoreExempt fails: the nat rules of the device's own traffic catch the core's |

Bounds. The twelve configurations (`Rules`) hold every area, mode and backend and each switch
both ways, and differ pairwise where leftovers can survive (port filter, DNS mode, IPv6,
backend). Two edits give install, change, stop, change back, install; two copies let a rule
outlive one Stop and be met again by the next Start. Deadlock is checked here: a Stop is
always possible.

### Finding

`firewall/start.go:383`: the core's connections carry mark `fwmark+2`; `shellcrash_out` returns
only for `fwmark` and `shellcrash_dns_out` for none, so in areas 2 and 3 the core is diverted to itself (run
fw_loop). The other chains exempt it, as `start_test.go:146` and `:280` check.

### What the model shows besides

- `firewall/start.go:783-791`: the rules for `utun` in the system's table fw4 are in none of Stop's commands: each start
  in Tun or Mix under nftables leaves one more copy until the next boot. CleanCycle states it.
- A rule left in a built-in chain under another port filter (Stop names the filter of now) leads packets of every port
  to a chain that a later start fills again. ScopeRespected allows this, once settings have been edited, and nothing wider.
- `firewall/start.go:385-388`: in the nat chains of iptables the redirect by source comes before the return for CN, so in Redir and
  Mix CN connections go through the proxy (ByNat). The device filter and the QUIC exception are only in the nftables
  rules, and `common_ports` only in those of iptables.
- `ip saddr` tests see IPv4 only: under nftables the chain for virtual machines takes all forwarded IPv6 (OfVm).

A fact no property claims otherwise: `ip saddr != <subnet> return` is emitted once per subnet
(`firewall/start.go:658`), so with two subnets each excludes the queries of the other and none is hijacked.

## 5. Crontab: tasks and the lines of cron

`Crontab.tla`, `MCCrontab.tla`, `CrontabProofs.tla`.

### State and actions

The crontab is edited by five parties: the task menu, the bot switch, the
conservative-mode toggle, `AfterStart` in its goroutine, and boot. Each reads it whole, edits its
copy and writes it whole, without a lock. Tasks are kept in up to three places at once: the
crontab, `task/cron` (all of it copied on devices with `/jffs` or `/etc/storage`, whose crontab
is in memory; deleted and rebuilt on others), and `task/running` or a hook file.

| State | Code |
|---|---|
| crontab, taskCron, taskRunning, taskHook | `crontab -l`; `task/cron`, `task/running`; `task/bfstart`, `afstart`, `affirewall` |
| store | `cronsetHasPersistentStore` |
| core, recorded, startOld, disabled | CrashCore; `shellcrash.pid` of a live core; `start_old`; `.dis_startup` |
| pc, work, seen | where a process is, the operations it still has to do, the copy in its memory |
| oldMode | `Cfg.StartOld` of the process whose goroutine is AfterStart |
| wiped | a reboot emptied the crontab and AfterStart has not run since |
| asked, mishaps | history: what the operator asked for; which excepted events happened |

| Actions | Code |
|---|---|
| AddTask, ApplyRecommendedTasks, RemoveTask, ModifyTask, CancelModify, ClearTasks, ClearLegacy | choices of `taskctl/menu.go`: each queues operations in `work` |
| BotOn, BotOff, ModeOn, ModeOff, SetAutostart | `SetTGService`, `ToggleConservativeMode`, `EnableAutostart`, `DisableAutostart` |
| File | `setServiceTask` up to its `pidof` |
| Read, Write, Store | `Controller.cronset`: `readSystemCron`; `writeSystemCron`; `task/cron` |
| Persist, Prune, Leave | what `setCronTask`, `removeTaskByKeyword` and the toggle do after cronset |
| Start, WatchdogStart, BootInit, CoreGone | `Controller.Start` by command or watchdog, `GeneralInit`, a stop or a death |
| AfterStart, AfterStartWrite | `lifecycle.AfterStart`: core check, merge, write |
| Abandoned, Reboot | a process killed or a step returning an error; a power cycle |

A line is a task, the watchdog's or the bot's, and a keyword stands for the set of lines that
contain it: `task.sh` for all tasks, `#` for the watchdog's and the bot's line, a description for
its task. That no description contains another is assumed. The five files of
`removeTaskByKeyword` are one step, as are the read and the write of a task file: the crontab,
between its read and its write, is the window kept open. One AfterStart is under way at a time. The
device has an init system, so a core is recorded when and only when conservative mode
started it; without one the toggle to OFF is refused. Running tasks, their logs and user
tasks' contents are not modelled.

### Mishaps

Six things the code does lose lines, and each is in the model, named, counted by
`MaxMishaps` and excepted by the properties it breaks, and by no others: AskedIsKept and
ServedWhileUp except all six, Supervised the four that can take the watchdog's line,
RemovedIsGone and StoreListsAll only an overlap and an abandoned operation. They are listed
as hazards.

| Mishap | What happens |
|---|---|
| overlap | a rewrite begins while another process is between its read and its write |
| abandoned | a process is killed, or a step returns an error, with operations left to do |
| unread | `crontab -l` fails without output and is taken for an empty crontab |
| unrestored | cronset on a device with a store between a reboot and AfterStart replaces `task/cron` by the empty crontab |
| cancelled | "modify" left without a new schedule, or with the same one: the task is deleted |
| legacy | "clear legacy tasks" removes by `#` and takes the watchdog's and the bot's line |

### Runs

| Run | Instance | Question and answer |
|---|---|---|
| ct_tasks | 2 cron tasks, 1 running task, 1 hook, 1 menu, store or none, 1 mishap (4,292,072 states) | What was asked for is kept (AskedIsKept), and served while the service is up (ServedWhileUp); what was removed never comes back through a merge (RemovedIsGone); with a store the menu lists every task that cron runs (StoreListsAll); a conservative core has its watchdog line (Supervised) |

Bounds. Two cron tasks make one a bystander of the other's edit; one running task and one hook
cover their files (tasks of one file differ only in name). One menu with the service's goroutine
gives every overlap of two; with one mishap each property is also checked after every
mishap that it does not except. The constraint `Followed`
does not explore past an overlap or an abandoned operation, of which no property speaks
then. No fairness is assumed: the properties are safety properties. Deadlock is not checked:
a step whose mishap would exceed `MaxMishaps` is not taken, which may leave nothing to do.

### What the model shows besides

- `setbootctl/setbootctl.go:274`: leaving conservative mode removes by a keyword no line
  contains; the watchdog stays, finds no pid file for a core run by the init system, and
  restarts the service every minute.
- `startctl/controller.go:520`: without a persistent store cronset removes `task/cron`, the
  list the task menu shows and removes by. StoreListsAll is a property of devices with a store.

## 6. CoreFiles: where the core lives and who replaces it

`CoreFiles.tla`, `MCCoreFiles.tla`, `CoreFilesProofs.tla`.

### State and actions

A file is the core it holds and whether it is whole. `bin` is BinDir with the bare core and its three packed
forms, `old` is CrashDir when small-flash mode puts BinDir elsewhere, `run` and `link` are TmpDir/CrashCore as a
file or as a link to a `.upx`. `cfg` and `env` are `crashcore` and the family of `COMMAND`; `needs` the families whose
configuration only a full core loads. `live` is the core that runs and `exec` whether it executes what
TmpDir/CrashCore leads to (then the file cannot be written). `start` and `repl` are the start and the replacement
under way. `spoiled` is history: the exceptions that have happened.

| Actions | Code |
|---|---|
| StartAlone, StartAfter | `Controller.Start`, by a person or as the last call of a task or an upload |
| CheckKeeps, SwitchDelete, SwitchCfg, SwitchEnv | `checkConfigCoreCompatibility`, `switchCrashCore` (`core_precheck.go`) |
| EnsureHas, EnsureUnpacks, EnsureFails | `ensureCrashCoreBinary`, `coreCandidates`, `unpackCoreCandidate` |
| Launch, LaunchFails, Stop, HotUpdate | the core stays up or dies at once; `Stop`; `hotUpdate` |
| TaskAccept, TaskRefuse, TaskMove, TaskCopy | `taskctl.runUpdateCore` |
| MenuInstall, MenuCore, MenuCoreBusy | `upgradectl.installCoreAsset` |
| CliInstall, CliFind, CliCore | `utils`: core-check, core-install, core-find |
| Upload | `tgbot.processUploadedFile` |
| Clear, Archive, SetCfg, SetEnv | what the replacements have in common, one write each |
| WriteFails | any of those writes returns an error: nothing, or part of the file, is there, and the replacement ends |
| NewConfig, Reboot | a configuration that asks for a full core; a loss of power |

A download writes only files nobody else reads, so a replacement begins where its checks are over. One start
at a time (two at once are ConservativeService's subject), one replacement at a time; the two interleave.

### Run

| Run | Instance | Question and answer |
|---|---|---|
| cf_files | cores `clash`, `meta`, `singbox`; `.tar.gz` and `.upx`; both places of BinDir; all four writers (2,075,517 states) | While nothing is under way a start would bring the right core up (StartableAtRest); a core installed by the menu repairs whatever went before, failed replacements and switches that deleted every core included (InstallRepairs); an update by the task ends with a core that runs (UpdateServes) |

Bounds. A plain and a full core of one family and one core of the other give a switch within a family, a change of
family and a configuration that needs a full core; `.gz` behaves as `.tar.gz` does. The constraint `Followed`
stops after the second exception, of which no property speaks.

Fairness: weak, for the steps of a start and of a replacement that have begun: a process that is not
killed goes on. Nothing is owed by operators, by cron or by Reboot.

The exceptions are things the code does, each named in `spoiled` at the step that does it:

| `spoiled` | What happens |
|---|---|
| busy | the menu, or the task with a `.upx`, replaces the archives and then cannot write the file the core executes |
| upx | update_core with a `.upx` truncates the archive through TmpDir's link to it |
| upload | a file sent to the bot is stored unchecked beside the others; a `.gz` or `.upx` is ignored while a `.tar.gz` is there |
| switch | a start that switches deletes every packed core before another is known to be there |
| flavour, config | a custom link leads to the other core of the family; a configuration asks for a full core |
| raw | no writer removes a bare BinDir/CrashCore, which a start takes before any archive |
| flash | in small-flash mode BinDir is lost at a reboot and CrashDir's old archive runs with the new settings |
| cut, failed | a loss of power between two of the writes; a write that fails. Between Clear and Archive either leaves no packed core |
| raced | a start that switches deletes the archives in the middle of a replacement |

StartableAtRest and UpdateServes except all of them, InstallRepairs only *raced* and a bare core (raw). Overlaps of starts and
replacements are not excepted.

Not modelled: the text of `command.env`, sizes, checksums and architectures, the boot-time copy of small-flash mode.

## 7. CoreConfig and Providers: from the source to what the core runs

`CoreConfig.tla`, `MCCoreConfig.tla`, `CoreConfigProofs.tla`; `Providers.tla`, `MCProviders.tla`.

### State and actions of CoreConfig

`gen` is one `coreconfig.Run` per process (menu, task or start), with the copy of `ShellCrash.cfg` it read when it
began; `tmp` the one file in TmpDir all of them download to; `file` the configuration of each core; `custom` the
operator's own files that are merged in: for clash `rules`, `proxies`, `proxy-groups` and `user` (user.yaml and others.yaml), for
sing-box every other file of `jsons/`; each is absent, fine, or such that the core refuses the result; `start`, `runtime` and `conf` the start, the configuration built for the core, and what the
running core serves. A configuration is good, empty of nodes (which `coreconfig` lets pass and the start refuses) or bad.

| Actions | Code |
|---|---|
| GenStart, AskFails, AskAnswered, Failed | `Run`: the loop over `servers.list`, three tries |
| Check, SaveCfg, Install, InstallFails | `validateConfig`, the write of the whole `ShellCrash.cfg` as read at the start, `replaceIfChanged` |
| GenKilled, Reboot | a process killed; power |
| UseProvider, UseAll, UseFile, SetServer, SwitchCore, DisableOverride | the menus of sources |
| AddRule, AddProxy, AddGroup, RemoveRule, RemoveProxy, ClearGroups | the menus of the operator's own lines |
| OwnFile, Upload | files the operator puts into `yamls/` or `jsons/` himself, or sends to the bot under a name of his choice |
| FillClash, FillSingbox | other writers of the configuration, which write in place |
| StartBegin, StartGenerates, StartChecks, PrechecksFail | `ensureCoreConfig`, `validateCoreConfigContent`, the other checks of `runCorePreChecks`, which may end the start |
| BuildClash, BuildSingbox, BuildFails, LinkOld, Launch | `prepareClashRuntimeConfig`, `prepareSingboxRuntimeConfig`, the link at the old place |

### State and actions of Providers

`subs` is `providers.cfg`, `uris` is `providers_uri.cfg`; every change writes the first and then the second, and
the terminal may go away in between (MenuKilled). Its Init, Next and Spec are called ListInit, ListNext and ListSpec, so that
one module can hold the proofs about both. `edit` is the provider on screen with the name it had. SaveProvider,
DeleteProvider and ClearProviders are the first write, SecondWrite is the other.

### Runs

| Run | Instance | Question and answer |
|---|---|---|
| cc_config | 2 processes, 3 converters, TmpDir on the same disk, in memory, or as BINDIR; 3 operations (2,256,692 states) | A generation gives up only after three converters, or all there are (FallbackTries); a start with a good configuration that passes the other pre-checks brings the service up: for clash whatever lines and files the operator added, for sing-box unless it refuses one of them (ComesUp) |
| pv_lists | 2 names (5,989 states) | What was saved and not deleted is listed, once (SavedIsListed) |

Bounds. Three converters are as many as there are tries, so the wrap-around falls inside them; that it is right
for fewer and more is proved. Three operations give a generation, an edit between its steps and a start. Two
names suffice: an operation of Providers touches two names, its old and its new one.

Fairness: weak, for the steps of a start that has begun (`Going`).

What the model shows besides: `prepareSingboxRuntimeConfig` merges every other file of `jsons/` with no check and no second
build, so one that sing-box refuses keeps a good configuration down until overrides are switched off; the clash merge keeps only lines that
begin with a dash (`extractYAMLListItems`), so a group added by the menu, which is written over several lines, is never served: clash
refuses the result and gets the configuration without any of the operator's lines, and an operator's node can do the same to the nodes of a
configuration that are written that way; in small-flash mode BINDIR is TmpDir, so `runtime_config.go:50-58` removes the file it just
wrote and links it to itself (ComesUp excepts `mini`); with TmpDir in memory `os.Rename` cannot move the new
configuration to another file system, and `replaceIfChanged` fails after `ShellCrash.cfg` was saved with its `Https` cleared;
two generations share the file in TmpDir, so what is installed need not be what was checked; Run writes back the whole
`ShellCrash.cfg` it read at its start; a subscription used directly loses its source, so the next update has none; the
checks of Run and of the start differ, so a nightly update can replace a good configuration by one the start refuses; a hot
update reloads the file without the operator's lines; after saving by `c` or `e` a rename leaves the old entry.

Not modelled: the texts of configurations, user agents, exclude and include filters, names with spaces.

## 8. Settings and Gateway: the menus over shared files

`Settings.tla`, `MCSettings.tla`; `Gateway.tla`, `MCGateway.tla`, `GatewayProofs.tla`.

All menus read `ShellCrash.cfg`, show it, wait for an answer, read it once more, and write it whole; so do the bot and the tasks. Two
questions follow, one per module.

### Settings: operations of several writes

An operation is a plan: a sequence of sets of steps, made in order, those of one set in any order (Go maps). A step of
type `set` is a Read and a Write; the other steps are a command of iptables, which may fail (Iptables), or an edit of `firewall.user` (Ssh), a
read, start or stop of the firewall (Firewall), a restored backup (Restore).

| Definition | Code |
|---|---|
| Redir, Ipv6 | `settingsctl`: `runRedirMenu`, `runIPv6MenuWithReader` |
| GatewayGuide, LocalGuide | `toolsctl`: guide profiles |
| Push, Syno, OpenSsh, CloseSsh, SetPort | `toolsctl`: push services, SSH from outside |
| StartRedir, StopRedir, BindPush | `tgbot` |
| Look, Answer; Told | a menu shows and is answered later; the bot reads when it is told |
| Backup, Restore, RestoreRefused | backup and restore |
| Killed, Reload, Reboot | a cut; the firewall rebuilt from `firewall.user`; power |

History: `stale[p]` are the groups others changed since p looked, `spoiled` the groups to which something happened
that no property speaks of: an operation cut, one that acted on a stale picture, a write that undid another's, a
backup taken of half an operation. `missed` are the ports whose iptables command has failed since the device's firewall was
last built: the code looks at no such error and marks or unmarks `firewall.user` all the same (`toolsctl.go:1585-1602`). The properties speak of the groups that are neither spoiled nor in the middle of an
operation (*Sound*).

### Gateway: answers from an older picture

`files` are `gateway.cfg`, `ShellCrash.cfg` and the two device lists; a value is the set of items it lists. A menu
Loads a picture (`snap`), its Answer becomes a change (`todo`) computed from the picture, while `copy` is the file as
read just before the Write. `behind` are the menus whose picture another has overtaken, and `overlapped` says that one of them has
written. An older version may have left keys in either file (Legacy, LegacyGw), among them the `fw_wan_ports` of `gateway.cfg`, which LoadState
reads first and no menu writes.

| Definition | Code (`gatewayctl.go`) |
|---|---|
| Get | `LoadState`: which file a key is read from |
| WanAnswers, CommonAnswers, HostAnswers, FlagAnswers | firewall, common ports, host ranges, traffic filter |
| ServiceAnswers, FieldAnswers, CipherAnswers | vmess, shadowsocks, Tailscale, WireGuard |
| LanAnswers | LAN device filter |
| Changed, Written, Write | `setCfgValue`, `setGatewayCfgValue`, `setKVValues`, `writeKVFile` |

### Runs

| Run | Instance | Question and answer |
|---|---|---|
| st_menus | 1 menu, 1 bot, the groups mode, ipv6, tg, syno, ssh; 2 SSH ports, 3 operations (1,177,233 states) | Keys that belong together agree (CoupledKeys); SSH is open as the menu shows, but for ports whose command failed (SshAsShown); once the bot said so, pure mode lasts (PureHolds) |
| gw_menus | 2 menus, 2 ports, limits of 1, seven of the nine topics, ports in gateway.cfg and a cipher in ShellCrash.cfg left by an older version; 3 answers (7,113,974 states) | The limits hold however menus overlap (ListsBounded); without an overlap a 2022 cipher has its password (CipherHasItsPassword) |

Bounds. Three operations let one process begin, another cut in and a third look at the result. `po` has the shape of
`tg` and `rest` is a key of its own, so both are left out of `st_menus`. Limits of one are reached by the first port
and exceeded, if the code let it, by the second. `vmess` and `wg` are served as `ss` and `ts` are
and left out of `gw_menus`, where menus are symmetric; ports are not, for the default differs. `Followed` stops st_menus after the second group was spoiled. Safety only: no fairness.

What the models show besides: with `fw_wan_ports` in `gateway.cfg` a port opened by the menu is written to ShellCrash.cfg and neither
shown nor let through; after start_redir the bot says that the proxy is on while area 4 keeps it off; `fw_wan_ports` and the Tailscale and WireGuard switches are read by the firewall from the file the
menu does not write; Tailscale and WireGuard cannot be switched off once their key is cleared; vmess and shadowsocks stay ON with
their port cleared; an emptied port list restores the defaults; SetTGService toggles by `gateway.cfg` alone while the bot reads
`ShellCrash.cfg`; no menu but the guide leaves area 4; SynoChat without a user id is shown OFF; a change of the SSH port that is
cut leaves the old rule.

Not modelled: menus that set one key on its own (they have no step to be cut in), input formats, checks that ports
differ from each other (there are none).

## 9. TgBot implements Inbox

`Inbox.tla`, `TgBot.tla`, `MCTgBot.tla`, `TgBotProofs.tla`.

`Inbox` is what the operator may rely on: commands are handled in the order sent, at most once in a life of the bot;
none is confirmed, and so forgotten by the server, before it was handled; a new life begins with the
first unconfirmed one; each is handled in the end.

`TgBot` is the loop of `bot.go`. `box` are the updates sent; `offset`, in memory only, is asked with, and asking confirms
what is before it; `batch` is what was received and not yet handled; `pending` is TmpDir/tgbot_state, the
announcement a button made; `doc` the file being handled.

| Actions | Code |
|---|---|
| Poll, PollFails | `pollUpdates`, and the loop that sleeps after an error |
| Show, Restart, Request | the handlers of messages and buttons |
| Unasked, Take, Use, Refuse, Clear | `handleDocumentUpload`, `processUploadedFile`, the deferred `clearUploadState` |
| Kill, Reboot, Watchdog | killed by name; power; started again by the watchdog's minute |

The mapping (`Promise`): `sent` is the length of `box`; `handled` is the number before the head of `batch`, or, between batches,
what the offset or the server's memory covers; `confirmed` is the server's.

| Run | Instance | Question and answer |
|---|---|---|
| tg_updates | 6 kinds of updates, 4 updates, 2 kills (546,640 states) | TgBot implements Inbox, liveness included (KeepsPromise); a file is used the first time as what it was announced as, or not at all (UsedAsAnnounced) |

Bounds. Four updates are an announcement, its file, another announcement and another file, each of which may be sent
again by two kills. Kinds that are handled alike are represented by one.

Fairness: weak for the handlers (the loop goes on) and the watchdog (a minute comes); strong for Poll: questions may be
lost, but of infinitely many one is answered.

A second use of a file, after a kill, may be under a newer announcement; the property is about the first.
A handler's error is never tried again. A restart of the service runs in the bot's process.

Not modelled: texts, binding, logs, backups being made.

## 10. What is proved

All proofs are checked by TLAPS (SMT, Zenon, and LS4 for the temporal steps), for every
value of the constants that satisfies the modules' assumptions: any number of watchdogs,
pids, configurations, edits, copies, tasks, menus, ports, converters, providers, updates and mishaps. A
property proved is also checked by a run, by the same name; only SingleCore, which ActAsOne implies, and StartsServe,
the safety half of UpdateServes, are not.

`ConservativeServiceProofs.tla`:

| Theorem | Statement | Assumption besides ConstantsAssumption |
|---|---|---|
| TypeCorrect | Spec => []TypeOK | |
| CoresStayBounded | Spec => []CoresBounded | finitely many slots |
| LockExcludes | Spec => []LockExclusion | TmpDir is not wiped |
| LockIsReleased | Spec => []LockReleased | |
| WatchdogsKeepOneCore | Spec => []SingleCore | watchdogs only, TmpDir not wiped |
| WatchdogsRecordCore | Spec => []CoreRecorded | the same |
| WatchdogsSpareCore | Spec => SparesLiveCore | the same |
| WatchdogsActAsOne | Spec => ActAsOne | the same |

The argument. *Typed* is TypeOK with *ReturnsToStart*: a watchdog calls Stop only from
Start, so Stop returns there and not to the end of the critical section. With it
LockExclusion is inductive: only WdLock enters the section, only when the directory is
absent, and every other step leaves the directory and who is inside alone
(OtherStepsLeaveLock). *OneCore* strengthens SingleCore for watchdogs alone: from
its pid check to its launch the holder of the lock sees no core at all; after the launch the
core is its `child`; outside, the running core is the recorded one, unless a watchdog was
killed inside and left the lock directory, and then nobody gets in (*Stranded*).
The same invariant gives the steps of Supervisor: a launch
finds no core and an empty pid file, and what runs at WdUnlock is what the pid file names; Stop has no pid to kill, and the
goroutine of a watchdog that has gone out can at most end a core, which Supervisor allows.
CoresBounded needs no lock and holds under every fault: *Owned* says that there is an injection
from the running cores to the processes that launched them; a process launches only after
it saw no core or killed all, so it owns none of those still running.

`FirewallProofs.tla`:

| Theorem | Statement |
|---|---|
| StopEnds | Spec => []StopEndsDiversion |
| StopUndoesStart | Spec => []CleanCycle |
| TypeCorrect | Spec => []TypeOK |
| ScopeKept | Spec => []ScopeRespected |

The argument. *Flushed*: every chain Start can fill is in StopChains, so after Stop every
chain of ours is empty or gone, whatever rules still lead there (lemma
StartedChainsAreFlushed), and an empty chain diverts nothing (FlushedDivertsNothing). That
is why StopEndsDiversion holds although Stop may leave rules behind. *Tidied*: in a tidy
history the bag of rules is one copy of what Start installs for the current configuration;
StopNamesEveryHook (Stop names every rule Start has, by cases over modes and areas) and
facts on bags give CleanCycle, with *Tunnels*: fw4 holds a rule of ours exactly if a start that asks for one was made since the last boot. *Scoped* is for ScopeRespected: what a chain decides, unless it is to
return, one configuration started since the last Stop decides in that chain (*Sourced*), however often
the chain was filled, for of two sequences of rules the first decides unless it misses (JoinedVerdict, by the least
rule that matches); a rule of a built-in chain leads only to chains of its own direction and family
(*Leads*); and, chain by chain and table by table (ChainScope, NftScope), a packet that the leading rules do not return
is in the scope of the configuration.

`CrontabProofs.tla`:

| Theorem | Statement |
|---|---|
| TypeCorrect | Spec => []TypeOK |
| RemovedStaysGone | Spec => []RemovedIsGone |
| NothingLost | Spec => []AskedIsKept |
| AllServed | Spec => []ServedWhileUp |
| WatchdogThere | Spec => []Supervised |
| StoreListed | Spec => []StoreListsAll |

The argument. *Typed* is TypeOK with *Located*: the step a menu stands at fits the operation at
the head of its queue. *Alone*: as long as no overlap was noted, at most one process is inside a
read-modify-write. The properties speak of idle menus only, so what they need during an
operation is said of its queue. *Removal*: a line that is in some place and not asked for
is among those the queue still drops, and once the operation wrote a place, among those the
rest of the queue drops there. *Keep* is its dual: a line that is due in a place and missing
there is among those the queue still adds; and no operation drops for good a line that is asked
for (*Spares*), which is what the mishaps `cancelled` and `legacy` break. What is due in the
crontab depends on the service (*Due*: cron tasks unless a reboot wiped them, running
tasks while it is up), and *Serving* ties the two: an AfterStart that is over has restored
the crontab. *Watched* is for Supervised: the watchdog's line is in the crontab and in every
copy that will be written back, no queue drops it, and an AfterStart still waiting knows the
mode of the core it waits for. *Listing* is for StoreListed: the crontab runs ahead of the files in tools/
only from the write of the crontab to the copy (*Copying*); a line that a removal is still to prune from the files has
left the crontab before; and all that AfterStart writes back is listed.

`CoreConfigProofs.tla`:

| Theorem | Statement |
|---|---|
| TypeCorrect | Spec => []TypeOK |
| AllTried | Spec => []FallbackTries |
| SavedStaysListed | ListSpec => []SavedIsListed (Providers, with ProvidersAssumption) |

The argument. *Tried*: the converters asked so far are the one that was selected first, s, and its successors around the list,
as many as there were tries, and the next one is the following. For three or more converters s, its second and its third are
different; for fewer they are all there are. Cardinalities of the three cases give FallbackTries.

Of Providers the inductive invariant (*Lists*) says that a name saved and not cut is in
exactly one of the two files at rest; between the two writes it is in exactly one of the first file and what the second is going to
be, and, unless it is the one being saved, also of the first file and what the second still is: so the menu may end there.

`CoreFilesProofs.tla`:

| Theorem | Statement |
|---|---|
| TypeCorrect | Spec => []TypeOK |
| StartableStays | Spec => []StartableAtRest |
| MenuRepairs | Spec => InstallRepairs |
| StartsKeepServing | Spec => StartsServe: `[][EnsureFails \/ LaunchFails => spoiled # {}]_vars` |

The argument. *Typed* is TypeOK with what the steps under way hold in hand; among it that a link and a file are never both
there. While nothing excepted has happened (*Usual*, which once false stays so) three things hold, and none without the others.
*Agreed*: settings and configuration speak of one core, and only small-flash mode looks at CrashDir. *Brought*: what a
replacement brings is a whole file of the core it will set. *Stored* goes through the steps of a replacement: before the old archives are cleared every
file is the configured core, then BinDir is empty, then it holds nothing but the new core; TmpDir/CrashCore follows one step later. A start may run
between any two of them: all it can find is one of the two cores, whole (UnpackKept), and with BinDir empty it finds none and
changes nothing. At rest all files are the configured core, so whatever the start takes is (NextIsConfigured).

InstallRepairs excepts nearly nothing, so *Repairing* cannot speak of whole files; it says what the installation has already undone. From Clear on no
archive but the new one is there, from Archive on the new one, from MenuCore on no other TmpDir/CrashCore. A start
in between may still write some other file through a link, but only to the `.upx`, which comes last (WriteRunFile,
NewIsFirst).

For StartsKeepServing, *Onward* says that while nothing at all is noted a start under way has no replacement beside it, that
`crashcore` and COMMAND are still what it read, and that it has found TmpDir/CrashCore before it launches it. With *Stored* the file it
finds is the configured core (Stocked). Here overlaps are excepted: between Clear and Archive there is no core to find.

`GatewayProofs.tla`:

| Theorem | Statement |
|---|---|
| TypeCorrect | Spec => []TypeOK |
| LimitsHold | Spec => []ListsBounded |
| PasswordStays | Spec => []CipherHasItsPassword |

The argument. *Sane* is what holds of the files, of every picture and of every copy: the lists are short, and
no key stands in a file that does not have it. Every answer is *Fitting* for the picture it was computed from (AnswerFits, topic by
topic): it names keys of one file, and lists that are at most one longer than a list that had room. So what is written is sane
whatever it overwrites, and the limits do not depend on who overlaps. CipherHasItsPassword needs that nobody does: *Fresh* says that picture
and copy of a menu that is not behind are the files themselves, so its write goes by what the operator saw.

`SettingsProofs.tla`:

| Theorem | Statement |
|---|---|
| TypeCorrect | Spec => []TypeOK |
| KeysStayCoupled | Spec => []CoupledKeys |
| SshStaysAsShown | Spec => []SshAsShown |
| PureStays | Spec => []PureHolds |

The argument, for each group of keys that no mishap befell (*Settled*). A plan is *on track* for a group if there is an
aim, a good file, that its steps still to make and the state as it is lead to; the order of its steps does not
matter for that, and without steps it says that all is well. As long as nobody is at work on the group all is well (*Kept*), a
menu that waits for an answer shows what is true unless it is known to be behind (*Shown*), and what is offered to
somebody who was shown what is true is on track (OffersLead, plan by plan). One who is alone at work stays on track with
each step (WriteTrack, SshTrack, FirewallTrack). Of two at work on a group the one that did not make the first step is
behind for good (*Doomed*): its own next step, or its end, is a mishap, and until then the group is not sound. *ReadRight* is for
PureHolds: a firewall that is starting has read the area that still stands.

`TgBotProofs.tla`:

| Theorem | Statement |
|---|---|
| TypeCorrect | Spec => []TypeOK |
| ImplementsInbox | Spec => Promise!Init /\ [][Promise!Next]_(Promise!vars) |
| NeverMistaken | Spec => []UsedAsAnnounced |

The argument. *Order*: the batch is the run of numbers that ends before the offset, none of it confirmed. With
it each action maps to a step of Inbox or to a stutter: a handler that is through to Handle, Poll to Confirm or, in a new life, to
nothing, Kill to Restart. *Announcing* ties the announcement on disk to the history: when the next update
that was never tried is a file, what `pending` says is what was announced last before it, or the updates being
repeated before it will still overwrite `pending` with that.

## 11. What is not shown

- Liveness (CoreRevived, FirewallFollows, UpdateServes, ComesUp and the liveness half of KeepsPromise) is
  checked by TLC on the instances above and not proved: liveness under fairness is out of the prover's reach.
- Every other property of a passing run is proved too, for every value of the constants.
- Nothing is shown of what follows an event that a property excepts: mishaps of Crontab, `spoiled` of CoreFiles and Settings,
  `overlapped` of Gateway, `missed` of Settings for the port it names, `cut` of Providers.
- Claims that no property makes because the code does not keep them are in the hazards and in the paragraphs "What
  the model shows besides".
- The components marked *not modelled* in section 1 and in `PROJECT.json`, and the parts named in
  the "Not modelled" and "Abstracted" paragraphs. Installation, removal, boot glue and screens are single
  sequential passes over files nobody else has yet, or no longer, in use: there is no order of events in them to
  check. Texts (generated configurations, menus, logs) are left out: no property is about them.

Each property of a passing run is paired in `PROJECT.json` with a mutant, a plausible bug in
one mapped definition under which TLC finds the property violated.

## Running

Modules are checked with `tlc -workers 2 -config <cfg> <module>`, and proofs with `tlapm <module>`:

| Run | Module | | Proofs |
|---|---|---|---|
| cs_watchdogs, cs_menu, cs_mixed | MCConservativeService | | ConservativeServiceProofs.tla |
| fw_rules, fw_loop | MCFirewall | | FirewallProofs.tla |
| ct_tasks | MCCrontab | | CrontabProofs.tla |
| cf_files | MCCoreFiles | | CoreFilesProofs.tla |
| cc_config | MCCoreConfig | | CoreConfigProofs.tla |
| pv_lists | MCProviders | | CoreConfigProofs.tla |
| st_menus | MCSettings | | SettingsProofs.tla |
| gw_menus | MCGateway | | GatewayProofs.tla |
| tg_updates | MCTgBot | | TgBotProofs.tla |

No run takes more than three minutes; CrontabProofs and TgBotProofs take a few, FirewallProofs and SettingsProofs one or two each, the other proofs seconds.
