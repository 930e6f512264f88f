----------------------------- MODULE CoreFiles -----------------------------
(***************************************************************************)
(* Where the proxy core lives on disk and who replaces it.  A start takes  *)
(* TmpDir/CrashCore when it is there, and else the first packed core of    *)
(* BinDir (then of CrashDir) that unpacks.  Four writers replace the       *)
(* packed core without a lock and without looking at each other: the task  *)
(* update_core (taskctl), the core menu (upgradectl), a file sent to the   *)
(* Telegram bot (tgbot) and the command line (utils); a start itself       *)
(* deletes every packed core when the configuration needs another one.    *)
(*                                                                         *)
(* A file is the core it holds and whether it is whole.  A file of at most *)
(* 2000 bytes counts as none, as everywhere in the code.  The family of a  *)
(* core (clash or sing-box) stands for COMMAND in command.env and for the  *)
(* format of the configuration.                                            *)
(***************************************************************************)
EXTENDS Naturals, FiniteSets

CONSTANTS
    ClashCores,     \* "clash" (plain) and "meta" (full), as far as looked at
    SingCores,      \* "singbox" (plain) and "singboxr" (full)
    FullCores,      \* the cores that run every configuration of their family
    None,           \* no core
    Formats,        \* endings of a packed core looked at
    Flash,          \* whether BinDir may be the memory file system TmpDir
    Writers         \* which of "task", "menu", "upload", "cli" replace cores

Cores == ClashCores \cup SingCores
Family(c) == IF c \in SingCores THEN "singbox" ELSE "clash"
Families == {"clash", "singbox"}
\* Mutant of FullOf: a switch to a core of no name.
FullOfNothing(fam) == None
FullOf(fam) == CHOOSE c \in FullCores : Family(c) = fam

\* coreCandidates' order of the endings in one directory; "raw" is none.
Endings == {"raw", "tar.gz", "gz", "upx"}
Rank == [f \in Endings |-> CASE f = "raw" -> 1 [] f = "tar.gz" -> 2 [] f = "gz" -> 3 [] f = "upx" -> 4]
Unchecked == {"raw", "upx"}     \* copied or linked, nothing to unpack

ASSUME CoresAssumption ==
    /\ ClashCores \cap SingCores = {}
    /\ FullCores \subseteq Cores
    /\ \A c \in Cores : \E f \in FullCores : Family(f) = Family(c)
    /\ None \notin Cores
    /\ Formats \subseteq {"tar.gz", "gz", "upx"}
    /\ Flash \subseteq BOOLEAN
    /\ Writers \subseteq {"task", "menu", "upload", "cli"}

VARIABLES
    mini,       \* BinDir is TmpDir (ToggleMiniFlash); CrashDir keeps old cores
    bin,        \* BinDir/CrashCore and its packed forms
    old,        \* the same in CrashDir, looked at when BinDir is elsewhere
    run,        \* TmpDir/CrashCore, when it is a file
    link,       \* TmpDir/CrashCore is a link: to the .upx of which directory
    cfg,        \* crashcore in ShellCrash.cfg
    env,        \* family of COMMAND in command.env
    needs,      \* families whose configuration only a full core loads
    live,       \* the core that runs
    exec,       \* what TmpDir/CrashCore leads to is being executed
    start,      \* the start under way: [pc, core, env]
    repl,       \* the replacement under way: [pc, by, fmt, file, core]
    spoiled     \* history: what the properties below have to except

disk == <<bin, old, run, link>>
settings == <<cfg, env>>
vars == <<mini, disk, settings, needs, live, exec, start, repl, spoiled>>

File == [core : Cores, ok : BOOLEAN]
NoFile == [core |-> None, ok |-> FALSE]
Packed == [Endings -> File \cup {NoFile}]
Empty == [f \in Endings |-> NoFile]
Reasons == {"busy", "upx", "upload", "switch", "raced", "cut", "failed", "flash", "raw", "flavour",
            "config", "overlap"}

IdleStart == [pc |-> "idle", core |-> None, env |-> "clash"]
IdleRepl == [pc |-> "idle", by |-> "menu", fmt |-> "gz", file |-> NoFile, core |-> None]
StartPc == {"idle", "check", "sw_cfg", "sw_env", "ensure", "launch"}
ReplPc == {"idle", "clear", "archive", "core", "cfg", "env", "start"}

TypeOK ==
    /\ mini \in BOOLEAN
    /\ bin \in Packed /\ old \in Packed
    /\ run \in File \cup {NoFile}
    /\ link \in {"no", "bin", "old"}
    /\ cfg \in Cores /\ env \in Families /\ needs \subseteq Families
    /\ live \in Cores \cup {None} /\ exec \in BOOLEAN
    /\ start \in [pc : StartPc, core : Cores \cup {None}, env : Families]
    /\ repl \in [pc : ReplPc, by : {"task", "menu", "upload", "cli"}, fmt : {"tar.gz", "gz", "upx"},
                 file : File \cup {NoFile}, core : Cores \cup {None}]
    /\ spoiled \subseteq Reasons

-----------------------------------------------------------------------------
\* What a start finds.

\* os.Stat of TmpDir/CrashCore follows a link.
RunFile == CASE link = "no" -> run [] link = "bin" -> bin["upx"] [] link = "old" -> old["upx"]

\* unpackCoreCandidate succeeds: only an archive shows that it is broken.
Accepted(dir, f) == dir[f] # NoFile /\ (f \in Unchecked \/ dir[f].ok)
\* Mutant of Takes: the candidates end before the .upx.
TakesArchives(dir) == {f \in Endings \ {"upx"} : Accepted(dir, f)}
Takes(dir) == {f \in Endings : Accepted(dir, f)}
FirstOf(dir) == CHOOSE f \in Takes(dir) : \A g \in Takes(dir) : Rank[f] <= Rank[g]
\* A broken archive may leave a part of the core where it was unpacked to.
Broken(dir) == {f \in Endings : dir[f] # NoFile /\ ~Accepted(dir, f)}

Candidate ==
    IF Takes(bin) # {} THEN bin[FirstOf(bin)]
    ELSE IF mini /\ Takes(old) # {} THEN old[FirstOf(old)] ELSE NoFile

\* The configuration of the core's family asks for another core.
Switches(core) == core \notin FullCores /\ Family(core) \in needs
\* The core stays up: it is whole, gets its own command line and loads the file.
Runs(file, command, core) ==
    /\ file.ok
    /\ Family(file.core) = command /\ Family(core) = command
    /\ command \in needs => file.core \in FullCores

\* What the next start would launch: a start stops a running core, and a stop
\* removes TmpDir/CrashCore.
NextCore == IF live = None /\ RunFile # NoFile THEN RunFile ELSE Candidate
Startable == Runs(NextCore, env, cfg)
AtRest == start.pc = "idle" /\ repl.pc = "idle"

-----------------------------------------------------------------------------
\* Writing TmpDir/CrashCore.

\* Opened for writing, a link is followed, and made good if it led nowhere.
WriteRun(file) ==
    CASE link = "no" -> run' = file /\ UNCHANGED <<bin, old>>
      [] link = "bin" -> bin' = [bin EXCEPT !["upx"] = file] /\ UNCHANGED <<old, run>>
      [] link = "old" -> old' = [old EXCEPT !["upx"] = file] /\ UNCHANGED <<bin, run>>
\* Controller.Stop: os.RemoveAll removes the link, not what it leads to.
RemoveRun == run' = NoFile /\ link' = "no" /\ exec' = FALSE

Goto(p) == start' = [start EXCEPT !.pc = p]
Step(p) == repl' = [repl EXCEPT !.pc = p]
Spoil(reasons) == spoiled' = spoiled \cup reasons
Overlap == IF start.pc # "idle" \/ repl.pc \notin {"idle", "start"} THEN {"overlap"} ELSE {}

-----------------------------------------------------------------------------
\* A start (a person's, a watchdog's, a task's).  One start at a time.

Start ==
    /\ start.pc = "idle"
    /\ start' = [pc |-> "check", core |-> cfg, env |-> env]
    /\ IF live # None THEN live' = None /\ RemoveRun
                      ELSE UNCHANGED <<run, link, live, exec>>
    /\ Spoil(Overlap)
    /\ UNCHANGED <<mini, bin, old, settings, needs>>

\* A start on its own, at any moment; or the last call of a task or an upload.
StartAlone == repl.pc # "start" /\ Start /\ UNCHANGED repl
StartAfter == repl.pc = "start" /\ Start /\ repl' = IdleRepl

\* checkConfigCoreCompatibility: nothing to switch.
CheckKeeps ==
    /\ start.pc = "check" /\ ~Switches(start.core)
    /\ Goto("ensure")
    /\ UNCHANGED <<mini, disk, settings, needs, live, exec, repl, spoiled>>

\* switchCrashCore: every form of the core in BinDir is deleted first.
SwitchDelete ==
    /\ start.pc = "check" /\ Switches(start.core)
    /\ start' = [pc |-> "sw_cfg", core |-> FullOf(Family(start.core)), env |-> Family(start.core)]
    /\ bin' = Empty /\ RemoveRun
    /\ Spoil({"switch"} \cup (IF repl.pc \notin {"idle", "start"} THEN {"raced"} ELSE {}))
    /\ UNCHANGED <<mini, old, settings, needs, live, repl>>
SwitchCfg ==
    /\ start.pc = "sw_cfg" /\ cfg' = start.core /\ Goto("sw_env")
    /\ UNCHANGED <<mini, disk, env, needs, live, exec, repl, spoiled>>
SwitchEnv ==
    /\ start.pc = "sw_env" /\ env' = start.env /\ Goto("ensure")
    /\ UNCHANGED <<mini, disk, cfg, needs, live, exec, repl, spoiled>>

\* ensureCrashCoreBinary: TmpDir/CrashCore serves, whatever it holds.
EnsureHas ==
    /\ start.pc = "ensure" /\ RunFile # NoFile /\ Goto("launch")
    /\ UNCHANGED <<mini, disk, settings, needs, live, exec, repl, spoiled>>

\* The candidates of one directory: a .upx is linked, the others are written
\* to TmpDir/CrashCore.
Unpack(dir, name) ==
    IF FirstOf(dir) = "upx"
      THEN link' = name /\ run' = NoFile /\ UNCHANGED <<bin, old>>
      ELSE WriteRun(dir[FirstOf(dir)]) /\ UNCHANGED link
EnsureUnpacks ==
    /\ start.pc = "ensure" /\ RunFile = NoFile
    /\ \/ Takes(bin) # {} /\ Unpack(bin, "bin")
       \/ Takes(bin) = {} /\ mini /\ Takes(old) # {} /\ Unpack(old, "old")
    /\ Goto("launch")
    /\ UNCHANGED <<mini, settings, needs, live, exec, repl, spoiled>>

\* No candidate unpacks.  What a broken archive left in TmpDir stays, and the
\* next start takes it.
EnsureFails ==
    /\ start.pc = "ensure" /\ RunFile = NoFile
    /\ Takes(bin) = {} /\ (mini => Takes(old) = {})
    /\ \/ UNCHANGED <<bin, old, run>>
       \/ \E f \in Broken(bin) : WriteRun([bin[f] EXCEPT !.ok = FALSE])
       \/ \E f \in Broken(old) : mini /\ WriteRun([old[f] EXCEPT !.ok = FALSE])
    /\ start' = IdleStart
    /\ UNCHANGED <<mini, link, settings, needs, live, exec, repl, spoiled>>

Launch ==
    /\ start.pc = "launch" /\ Runs(RunFile, start.env, start.core)
    /\ live' = RunFile.core /\ exec' = TRUE /\ start' = IdleStart
    /\ UNCHANGED <<mini, disk, settings, needs, repl, spoiled>>
\* The core dies at once: handleStartError stops the service.
LaunchFails ==
    /\ start.pc = "launch" /\ ~Runs(RunFile, start.env, start.core)
    /\ RemoveRun /\ start' = IdleStart
    /\ UNCHANGED <<mini, bin, old, settings, needs, live, repl, spoiled>>

\* hotUpdate, debugConfigCheck: the file goes, the core runs on.
HotUpdate ==
    /\ start.pc = "idle" /\ live # None /\ RemoveRun
    /\ UNCHANGED <<mini, bin, old, settings, needs, live, start, repl, spoiled>>
Stop ==
    /\ start.pc = "idle" /\ live # None /\ live' = None /\ RemoveRun
    /\ UNCHANGED <<mini, bin, old, settings, needs, start, repl, spoiled>>

-----------------------------------------------------------------------------
\* Replacing the core.  Downloads and checks write only Coretmp.* and core_new,
\* which nobody else reads, so a replacement begins when they are done.

Begin(by, fmt, file, core, reasons) ==
    /\ repl.pc = "idle" /\ by \in Writers
    /\ repl' = [pc |-> "clear", by |-> by, fmt |-> fmt, file |-> file, core |-> core]
    /\ Spoil(reasons \cup Overlap
             \cup (IF bin["raw"] # NoFile THEN {"raw"} ELSE {})
             \cup (IF mini THEN {"flash"} ELSE {})
             \cup (IF start.pc \in {"sw_cfg", "sw_env"} THEN {"raced"} ELSE {})
             \cup (IF Switches(core) THEN {"config"} ELSE {}))
    /\ UNCHANGED <<mini, disk, settings, needs, live, exec, start>>

\* runUpdateCore up to validateCoreBinary, which runs the new core: it is whole
\* and of the family of crashcore.  A link of one's own may lead to the other
\* core of the family.
TaskAccept ==
    \E fmt \in Formats, c \in Cores :
        /\ Family(c) = Family(cfg)
        /\ Begin("task", fmt, [core |-> c, ok |-> TRUE], cfg,
                 IF c # cfg THEN {"flavour"} ELSE {})
\* A core that does not unpack or is not of the family: nothing is replaced and
\* the service is started; without a new version not even that.
TaskRefuse ==
    /\ repl.pc = "idle" /\ "task" \in Writers
    /\ repl' = [IdleRepl EXCEPT !.pc = "start", !.by = "task"]
    /\ UNCHANGED <<mini, disk, settings, needs, live, exec, start, spoiled>>

\* installCoreAsset: the menu's choice; a .upx is taken as it comes.
MenuInstall ==
    \E fmt \in Formats, c \in Cores, whole \in BOOLEAN :
        /\ ~whole => fmt = "upx"
        /\ Begin("menu", fmt, [core |-> c, ok |-> whole], c, IF whole THEN {} ELSE {"upload"})

\* core-check and core-install of the command line: the check runs the core, as
\* the task's does; the settings and the service are left alone.
CliInstall ==
    \E fmt \in Formats, c \in Cores :
        /\ Family(c) = Family(cfg)
        /\ Begin("cli", fmt, [core |-> c, ok |-> TRUE], cfg, IF c # cfg THEN {"flavour"} ELSE {})

\* core-find: the first packed core by name, not in the order a start takes
\* them; CrashDir's are moved to BinDir before.
FindRank == [f \in Endings \ {"raw"} |-> CASE f = "gz" -> 1 [] f = "tar.gz" -> 2 [] f = "upx" -> 3]
CliFind ==
    /\ repl.pc = "idle" /\ "cli" \in Writers /\ RunFile = NoFile /\ link = "no"
    /\ LET here == [f \in Endings |->
                      IF mini /\ f # "raw" /\ old[f] # NoFile THEN old[f] ELSE bin[f]]
           there == {f \in DOMAIN FindRank : here[f] # NoFile} IN
       \E f \in there :
           /\ \A g \in there : FindRank[f] <= FindRank[g]
           /\ bin' = here
           /\ IF f = "upx" THEN link' = "bin" /\ UNCHANGED run
              ELSE run' \in (IF here[f].ok THEN {here[f]} ELSE {NoFile, here[f]}) /\ UNCHANGED link
    /\ old' = IF mini THEN [Empty EXCEPT !["raw"] = old["raw"]] ELSE old
    /\ Spoil(Overlap \cup (IF mini THEN {"flash"} ELSE {}))
    /\ UNCHANGED <<mini, settings, needs, live, exec, start, repl>>

\* Mutant of Clear: the old packed cores stay beside the new one.
ClearNothing ==
    /\ repl.pc = "clear" /\ Step("archive")
    /\ UNCHANGED <<mini, disk, settings, needs, live, exec, start, spoiled>>

\* The three packed forms are removed; a bare BinDir/CrashCore is not.
Clear ==
    /\ repl.pc = "clear"
    /\ bin' = [Empty EXCEPT !["raw"] = bin["raw"]]
    /\ exec' = (exec /\ link # "bin")
    /\ Step("archive")
    /\ UNCHANGED <<mini, old, run, link, settings, needs, live, start, spoiled>>

Archive ==
    /\ repl.pc = "archive"
    /\ bin' = [bin EXCEPT ![repl.fmt] = repl.file]
    /\ Step("core")
    /\ UNCHANGED <<mini, old, run, link, settings, needs, live, exec, start, spoiled>>

\* The task moves core_new over TmpDir/CrashCore.
TaskMove ==
    /\ repl.pc = "core" /\ repl.by = "task" /\ repl.fmt # "upx"
    /\ run' = repl.file /\ link' = "no" /\ exec' = FALSE /\ Step("cfg")
    /\ UNCHANGED <<mini, bin, old, settings, needs, live, start, spoiled>>
\* A .upx is copied there, unless the core executes what is there; a link makes
\* that a copy of the archive onto itself, which empties it.
TaskCopy ==
    /\ repl.pc = "core" /\ repl.by = "task" /\ repl.fmt = "upx"
    /\ IF exec THEN UNCHANGED <<bin, old, run>> /\ repl' = IdleRepl
               ELSE WriteRun(IF link = "bin" THEN NoFile ELSE repl.file) /\ Step("cfg")
    /\ Spoil(IF exec THEN {"busy"} ELSE IF link = "bin" THEN {"upx"} ELSE {})
    /\ UNCHANGED <<mini, link, settings, needs, live, exec, start>>

\* Mutant of MenuCore: a TmpDir/CrashCore that is there is left alone.
MenuCoreKeeps ==
    /\ repl.pc = "core" /\ repl.by = "menu" /\ ~exec
    /\ IF RunFile = NoFile THEN WriteRun(repl.file) ELSE UNCHANGED <<bin, old, run>>
    /\ Step("cfg")
    /\ UNCHANGED <<mini, link, settings, needs, live, exec, start, spoiled>>

\* The menu writes TmpDir/CrashCore in place: not while the core executes it.
MenuCore ==
    /\ repl.pc = "core" /\ repl.by = "menu" /\ ~exec
    /\ WriteRun(repl.file) /\ Step("cfg")
    /\ UNCHANGED <<mini, link, settings, needs, live, exec, start, spoiled>>
MenuCoreBusy ==
    /\ repl.pc = "core" /\ repl.by = "menu" /\ exec
    /\ repl' = IdleRepl /\ Spoil({"busy"})
    /\ UNCHANGED <<mini, disk, settings, needs, live, exec, start>>

\* CoreInstall: a .upx leaves the file that is there, or a link to nothing.
CliCore ==
    /\ repl.pc = "core" /\ repl.by = "cli"
    /\ IF repl.fmt = "upx" THEN UNCHANGED <<run, link, exec>>
                           ELSE run' = repl.file /\ link' = "no" /\ exec' = FALSE
    /\ repl' = IdleRepl
    /\ UNCHANGED <<mini, bin, old, settings, needs, live, start, spoiled>>

\* A write or a rename fails (no room, a file system gone read-only) and the
\* replacement returns.  What was cleared stays cleared; of the archive, or of a
\* TmpDir/CrashCore written in place, nothing or a part is there.  A settings
\* file is taken to be as before.
Part == {NoFile, [repl.file EXCEPT !.ok = FALSE]}
WriteFails ==
    /\ repl.pc \in {"clear", "archive", "core", "cfg", "env"}
    /\ \/ UNCHANGED <<bin, old, run>>
       \/ /\ repl.pc = "archive"
          /\ \E part \in Part : bin' = [bin EXCEPT ![repl.fmt] = part]
          /\ UNCHANGED <<old, run>>
       \/ /\ repl.pc = "core" /\ ~exec
          /\ repl.by = "menu" \/ (repl.by = "task" /\ repl.fmt = "upx")
          /\ \E part \in Part : WriteRun(part)
    /\ repl' = IdleRepl /\ Spoil({"failed"})
    /\ UNCHANGED <<mini, link, settings, needs, live, exec, start>>

SetCfg ==
    /\ repl.pc = "cfg" /\ cfg' = repl.core /\ Step("env")
    /\ UNCHANGED <<mini, disk, env, needs, live, exec, start, spoiled>>
SetEnv ==
    /\ repl.pc = "env" /\ env' = Family(repl.core)
    /\ IF repl.by = "task" THEN Step("start") ELSE repl' = IdleRepl
    /\ UNCHANGED <<mini, disk, cfg, needs, live, exec, start, spoiled>>

\* A file sent to the bot becomes one more packed core, unchecked, beside those
\* that are there; then the service is restarted.
Upload ==
    \E fmt \in Formats, c \in Cores, whole \in BOOLEAN :
        /\ repl.pc = "idle" /\ "upload" \in Writers
        /\ ~(exec /\ link = "bin" /\ fmt = "upx")
        /\ bin' = [bin EXCEPT ![fmt] = [core |-> c, ok |-> whole], !["raw"] = NoFile]
        /\ RemoveRun
        /\ repl' = [IdleRepl EXCEPT !.pc = "start", !.by = "upload"]
        /\ Spoil({"upload"} \cup Overlap)
        /\ UNCHANGED <<mini, old, settings, needs, live, start>>

-----------------------------------------------------------------------------
\* The operator's new configuration, which matters where a core is not full;
\* a loss of power.

NewConfig ==
    /\ AtRest /\ needs' \in SUBSET {Family(c) : c \in Cores \ FullCores}
    /\ Spoil(IF Family(cfg) \in needs' THEN {"config"} ELSE {})
    /\ UNCHANGED <<mini, disk, settings, live, exec, start, repl>>

\* TmpDir is in memory, BinDir too in mini mode; a replacement or a switch
\* under way stays half done.
Reboot ==
    /\ RemoveRun /\ live' = None
    /\ IF mini THEN bin' = Empty ELSE UNCHANGED bin
    /\ start' = IdleStart /\ repl' = IdleRepl
    /\ Spoil(IF AtRest THEN {} ELSE {"cut"})
    /\ UNCHANGED <<mini, old, settings, needs>>

-----------------------------------------------------------------------------
\* One packed core of the configured flavour, in BinDir or, in mini mode, in
\* CrashDir.
Init ==
    /\ mini \in Flash
    /\ cfg \in Cores /\ env = Family(cfg)
    /\ \E f \in Formats \cup {"raw"} :
        LET kept == [Empty EXCEPT ![f] = [core |-> cfg, ok |-> TRUE]] IN
        IF mini THEN old = kept /\ bin = Empty ELSE bin = kept /\ old = Empty
    /\ run = NoFile /\ link = "no" /\ needs = {}
    /\ live = None /\ exec = FALSE
    /\ start = IdleStart /\ repl = IdleRepl /\ spoiled = {}

StartSteps ==
    \/ CheckKeeps \/ SwitchDelete \/ SwitchCfg \/ SwitchEnv
    \/ EnsureHas \/ EnsureUnpacks \/ EnsureFails \/ Launch \/ LaunchFails
ReplSteps ==
    \/ Clear \/ Archive \/ TaskMove \/ TaskCopy \/ MenuCore \/ MenuCoreBusy \/ CliCore
    \/ WriteFails \/ SetCfg \/ SetEnv \/ StartAfter
Next ==
    \/ StartSteps \/ ReplSteps
    \/ StartAlone \/ HotUpdate \/ Stop
    \/ TaskAccept \/ TaskRefuse \/ MenuInstall \/ CliInstall \/ CliFind \/ Upload
    \/ NewConfig \/ Reboot

\* A process that was begun goes on.
Spec == Init /\ [][Next]_vars /\ WF_vars(StartSteps) /\ WF_vars(ReplSteps)

-----------------------------------------------------------------------------
\* Properties.

\* While nothing is under way, a start would bring the core up: the file it
\* would take is whole and is the one crashcore and COMMAND speak of.  Excepted
\* is what follows a step that spoiled names: a replacement in place while the
\* core runs (busy), a .upx updated over its own link (upx), files nobody
\* checked (upload), a switch or a configuration that asks for one (switch,
\* config), another core behind a link of one's own (flavour), a bare
\* BinDir/CrashCore that no writer removes (raw), a loss of power or a failed
\* write in the middle, which may leave no packed core at all (cut, failed), and
\* mini mode's old cores (flash).  Starts and replacements that overlap are not
\* excepted.
StartableAtRest == AtRest /\ spoiled \subseteq {"overlap"} => Startable

\* Installing through the menu repairs: whatever was done before, a switch that
\* left no core and a replacement that failed halfway among it, when a whole core
\* that suits the configuration has been installed with no start under way, the
\* next start brings it up.  Only a bare BinDir/CrashCore outlives it, and a
\* switch in the middle of an installation (raced) undoes it.
InstallRepairs ==
    [][repl.by = "menu" /\ SetEnv /\ start.pc = "idle" /\ "raced" \notin spoiled
         /\ repl.file.ok /\ bin["raw"] = NoFile /\ ~Switches(repl.core)
       => Startable' /\ NextCore' = repl.file]_vars

\* An update the task ran brings the service back: the start it ends with, or
\* the one after a refused core, leads to a running core.
UpdateServes ==
    repl.pc = "start" /\ repl.by = "task" /\ spoiled = {} ~> live # None \/ spoiled # {}
=============================================================================
