------------------------------ MODULE CoreConfig -----------------------------
(***************************************************************************)
(* From the source to what the core runs: coreconfig.Run asks one          *)
(* converter after the other for a configuration, checks it and puts it in *)
(* place of the old one; the start checks that file again, merges the      *)
(* operator's own lines into it and hands the result to the core.  The     *)
(* generation runs in several processes (menu, task, start) that share     *)
(* ShellCrash.cfg, the file in TmpDir and the configuration.               *)
(*                                                                         *)
(* Configurations: "good"; "empty", which has no node but passes           *)
(* coreconfig's check; "bad", which no check passes, as one half written.  *)
(***************************************************************************)
EXTENDS Naturals, FiniteSets

CONSTANTS
    None,
    Procs,          \* processes that may generate: of {"menu", "task"}
    ServerCount,    \* lines of servers.list
    Disks,          \* of {"one", "tmp", "mini"}, see disk
    MaxOps          \* bound on what operator and cron do

ASSUME CoreConfigAssumption ==
    /\ None \notin {"good", "empty", "bad", "whole", "plain", "fine", "refused"}
    /\ Procs \subseteq {"menu", "task"} /\ Disks \subseteq {"one", "tmp", "mini"}
    /\ ServerCount \in Nat \ {0} /\ MaxOps \in Nat

VARIABLES
    cfg,        \* ShellCrash.cfg: [url, https: is there a source; server, core, dis]
    gen,        \* coreconfig.Run in each process
    tmp,        \* what it downloaded to TmpDir, one file for all
    file,       \* yamls/config.yaml and jsons/config.json
    custom,     \* the operator's own files: none, fine, or refused by the core
    start,      \* the start of the service: [pc, core, dis]
    runtime,    \* TmpDir/config.yaml or TmpDir/jsons: what the core is given
    conf,       \* what the running core serves; None: no core runs
    disk,       \* TmpDir is on the disk of CrashDir ("one") or in memory; "mini": BINDIR is TmpDir
    ops

config == <<cfg, gen, tmp, file, custom, start, runtime, conf>>
vars == <<config, disk, ops>>

Cores == {"clash", "singbox"}
\* What is merged into the configuration: for clash the operator's lines, and
\* user.yaml and others.yaml; for singbox every other file of jsons/.
ClashFiles == {"rules", "proxies", "proxy-groups", "user"}
CustomFiles == ClashFiles \cup {"jsons"}
FilesOf(core) == IF core = "clash" THEN ClashFiles ELSE {"jsons"}
Contents == {"good", "empty", "bad", None}
Server == 1 .. ServerCount
Config == [url : BOOLEAN, https : BOOLEAN, server : Server, core : Cores, dis : BOOLEAN]
\* ShellCrash.cfg as it is installed.
Fresh == [url |-> FALSE, https |-> FALSE, server |-> 1, core |-> "clash", dis |-> FALSE]
Idle == [pc |-> "idle", by |-> "menu", cfg |-> Fresh, tries |-> 0, asked |-> {}, answer |-> None]

Generation == [pc : {"idle", "ask", "got", "checked", "saved", "failed"},
               by : {"menu", "task", "hot", "start"}, cfg : Config,
               tries : 0 .. 3, asked : SUBSET Server, answer : Contents]

TypeOK ==
    /\ cfg \in Config /\ gen \in [Procs -> Generation]
    /\ tmp \in Contents /\ file \in [Cores -> Contents]
    /\ custom \in [CustomFiles -> {None, "fine", "refused"}]
    /\ start \in [pc : {"off", "down", "begun", "checked", "failed", "built", "ready"}, core : Cores, dis : BOOLEAN]
    /\ runtime \in {None, "whole", "plain", "unusable", "refused", "loop"}
    /\ conf \in {None, "whole", "plain", "unprepared"}
    /\ disk \in Disks /\ ops \in 0 .. MaxOps

-----------------------------------------------------------------------------
\* The generation, in process p.
Op == ops < MaxOps /\ ops' = ops + 1
OnlyGen == UNCHANGED <<custom, start, runtime, disk>>
At(p, pc) == gen[p].pc = pc
Step(p, g) == gen' = [gen EXCEPT ![p] = g]
GenBegin(by) == [Idle EXCEPT !.pc = "ask", !.by = by, !.cfg = cfg]

\* By the menu's own command, the nightly task, the hot update.
GenStart ==
    /\ Op
    /\ \E p \in Procs, by \in {"menu", "task", "hot"} :
        /\ At(p, "idle") /\ (by = "menu" <=> p = "menu")
        /\ Step(p, GenBegin(by))
    /\ OnlyGen /\ UNCHANGED <<cfg, tmp, file, conf>>

\* Mutant of NextServer: it does not wrap around.
NextServerPast(s) == s + 1
\* Mutant of NextServer: it wraps around one too early.
NextServerEarly(s) == IF s + 1 >= ServerCount THEN 1 ELSE s + 1
NextServer(s) == IF s + 1 > ServerCount THEN 1 ELSE s + 1
\* No source, a subscription used directly that does not answer, or the third
\* converter in a row that does not.
AskFails ==
    \E p \in Procs :
        LET g == gen[p] IN
        /\ At(p, "ask")
        /\ IF ~g.cfg.https /\ g.cfg.url
           THEN IF g.tries + 1 >= 3
                THEN /\ Step(p, [g EXCEPT !.pc = "failed", !.tries = 3, !.asked = @ \cup {g.cfg.server}])
                     /\ UNCHANGED cfg
                ELSE /\ Step(p, [g EXCEPT !.tries = @ + 1, !.asked = @ \cup {g.cfg.server},
                                          !.cfg.server = NextServer(@)])
                     /\ cfg' = [g.cfg EXCEPT !.server = NextServer(@)]
           ELSE Step(p, Idle) /\ UNCHANGED cfg
        /\ OnlyGen /\ UNCHANGED <<tmp, file, conf, ops>>
\* The error goes to the caller; a start or an update ends with it.
Failed ==
    \E p \in Procs :
        /\ At(p, "failed") /\ Step(p, Idle)
        /\ OnlyGen /\ UNCHANGED <<cfg, tmp, file, conf, ops>>
\* The answer is written to TmpDir before it is looked at.
AskAnswered ==
    \E p \in Procs, answer \in {"good", "empty", "bad"} :
        /\ At(p, "ask") /\ (gen[p].cfg.https \/ gen[p].cfg.url)
        /\ tmp' = answer /\ Step(p, [gen[p] EXCEPT !.pc = "got", !.tries = 0, !.asked = {}, !.answer = answer])
        /\ OnlyGen /\ UNCHANGED <<cfg, file, conf, ops>>
\* validateConfig, of the copy in memory.
Check ==
    \E p \in Procs :
        /\ At(p, "got")
        /\ Step(p, IF gen[p].answer = "bad" THEN Idle ELSE [gen[p] EXCEPT !.pc = "checked", !.answer = None])
        /\ OnlyGen /\ UNCHANGED <<cfg, tmp, file, conf, ops>>
\* The whole of ShellCrash.cfg as it was at the beginning, without Https.
SaveCfg ==
    \E p \in Procs :
        /\ At(p, "checked")
        /\ cfg' = [gen[p].cfg EXCEPT !.https = FALSE]
        /\ Step(p, [gen[p] EXCEPT !.pc = "saved"])
        /\ OnlyGen /\ UNCHANGED <<tmp, file, conf, ops>>

\* The start that called it goes on, or the task starts the service; of two
\* starts at once the later one is followed.
Then(g) ==
    /\ start' = IF g.by \in {"task", "start"} THEN [pc |-> "begun", core |-> cfg.core, dis |-> cfg.dis] ELSE start
    /\ conf' = IF g.by \in {"task", "start"} \/ conf = None THEN None
               ELSE IF g.by = "hot" THEN "unprepared" ELSE conf
\* replaceIfChanged: what is in TmpDir by now takes the place of the file.
Install ==
    \E p \in Procs :
        /\ At(p, "saved") /\ tmp # None
        /\ disk = "one" \/ file[gen[p].cfg.core] = tmp
        /\ file' = [file EXCEPT ![gen[p].cfg.core] = tmp] /\ tmp' = None
        /\ Then(gen[p]) /\ Step(p, Idle)
        /\ UNCHANGED <<cfg, custom, runtime, disk, ops>>
\* The file in TmpDir is gone, or a rename cannot move it to another disk.
InstallFails ==
    \E p \in Procs :
        /\ At(p, "saved")
        /\ tmp = None \/ (disk # "one" /\ file[gen[p].cfg.core] # tmp)
        /\ Step(p, Idle)
        /\ OnlyGen /\ UNCHANGED <<cfg, tmp, file, conf, ops>>
GenKilled ==
    /\ Op
    /\ \E p \in Procs : ~At(p, "idle") /\ Step(p, Idle)
    /\ OnlyGen /\ UNCHANGED <<cfg, tmp, file, conf>>
\* TmpDir is emptied and every process ends.
Reboot ==
    /\ Op
    /\ gen' = [p \in Procs |-> Idle] /\ tmp' = None /\ runtime' = None /\ conf' = None
    /\ start' = [start EXCEPT !.pc = "down"]
    /\ UNCHANGED <<cfg, file, custom, disk>>

-----------------------------------------------------------------------------
\* The menus of sources, converters and own lines.
\* The one terminal is not busy with a generation.
MenuFree == "menu" \in Procs => At("menu", "idle")
OnlyCfg == UNCHANGED <<gen, tmp, file, custom, start, runtime, conf, disk>>
\* The source becomes a provider of the list, through a converter, or one
\* subscription asked directly.  The menu then generates.
Use(new) ==
    /\ Op /\ "menu" \in Procs /\ At("menu", "idle")
    /\ cfg' = new /\ Step("menu", [Idle EXCEPT !.pc = "ask", !.cfg = new])
    /\ UNCHANGED <<tmp, file, custom, start, runtime, conf, disk>>
UseProvider == \E direct \in BOOLEAN : Use([cfg EXCEPT !.url = ~direct, !.https = direct])
\* All of them in one link, through a converter.
UseAll == Use([cfg EXCEPT !.url = TRUE, !.https = FALSE])
\* A file used directly: the configuration becomes a link to it, then one is
\* generated all the same, from the source there was.
UseFile ==
    /\ Op /\ "menu" \in Procs /\ At("menu", "idle")
    /\ \E content \in {"good", "empty", "bad"} : file' = [file EXCEPT ![cfg.core] = content]
    /\ Step("menu", GenBegin("menu"))
    /\ UNCHANGED <<cfg, tmp, custom, start, runtime, conf, disk>>
SetServer ==
    /\ Op /\ MenuFree /\ \E s \in Server \ {cfg.server} : cfg' = [cfg EXCEPT !.server = s]
    /\ OnlyCfg
SwitchCore ==
    /\ Op /\ MenuFree /\ \E c \in Cores \ {cfg.core} : cfg' = [cfg EXCEPT !.core = c]
    /\ OnlyCfg
DisableOverride ==
    /\ Op /\ MenuFree /\ ~cfg.dis /\ cfg' = [cfg EXCEPT !.dis = TRUE]
    /\ OnlyCfg

OnlyCustom == UNCHANGED <<cfg, gen, tmp, file, start, runtime, conf, disk>>
\* Any text is taken for a rule, or for what follows the name of a node.  A
\* group is written over several lines, of which the merge keeps those that
\* begin with a dash: what is left of it no core accepts.
Add(f, lines) ==
    /\ Op /\ MenuFree
    /\ \E line \in lines : custom' = [custom EXCEPT ![f] = IF @ = "refused" THEN @ ELSE line]
    /\ OnlyCustom
AddRule == Add("rules", {"fine", "refused"})
AddProxy == Add("proxies", {"fine", "refused"})
AddGroup == Add("proxy-groups", {"refused"})
\* One line of the file, or all.
Remove(f, left) ==
    /\ Op /\ MenuFree /\ custom[f] # None
    /\ custom' = [custom EXCEPT ![f] = left]
    /\ OnlyCustom
RemoveRule == \E left \in {None, "fine"} : Remove("rules", left)
RemoveProxy == \E left \in {None, "fine"} : Remove("proxies", left)
ClearGroups == Remove("proxy-groups", None)

\* A file comes from elsewhere: the operator puts one of his own beside the
\* configuration or takes it away, as the advanced menus tell him to.
PutFile(f, contents) ==
    /\ Op /\ \E content \in contents : custom' = [custom EXCEPT ![f] = content]
    /\ OnlyCustom
OwnFile == \E f \in {"user", "jsons"} : PutFile(f, {None, "fine", "refused"})
\* An upload to the bot is copied there under the name it has, the name of the
\* configuration or of a file merged into it; a template is filled in
\* (providers-generate-...).  Both write in place and may be cut.
OtherConfig(core, contents) ==
    /\ Op
    /\ \E content \in contents : file' = [file EXCEPT ![core] = content]
    /\ UNCHANGED <<cfg, gen, tmp, custom, start, runtime, conf, disk>>
Upload ==
    \/ OtherConfig(cfg.core, {"good", "empty", "bad"})
    \/ \E f \in FilesOf(cfg.core) : PutFile(f, {"fine", "refused"})
FillClash == OtherConfig("clash", {"good", "bad"})
FillSingbox == OtherConfig("singbox", {"good", "bad"})

-----------------------------------------------------------------------------
\* The start of the service.
OnlyStart == UNCHANGED <<cfg, gen, tmp, file, custom, disk>>
StartBegin ==
    /\ Op /\ start.pc \in {"off", "down", "failed", "ready"}
    /\ start' = [pc |-> "begun", core |-> cfg.core, dis |-> cfg.dis] /\ conf' = None
    /\ OnlyStart /\ UNCHANGED runtime
\* ensureCoreConfig: without a configuration one is generated, in this process.
StartGenerates ==
    /\ start.pc = "begun" /\ file[start.core] = None /\ "task" \in Procs /\ At("task", "idle")
    /\ gen' = [gen EXCEPT !["task"] = [GenBegin("task") EXCEPT !.by = "start"]]
    /\ start' = [start EXCEPT !.pc = "off"]
    /\ UNCHANGED <<cfg, tmp, file, custom, runtime, conf, disk, ops>>
\* validateCoreConfigContent: a file without nodes is refused here.
StartChecks ==
    /\ start.pc = "begun" /\ file[start.core] # None
    /\ start' = [start EXCEPT !.pc = IF file[start.core] = "good" THEN "checked" ELSE "off"]
    /\ OnlyStart /\ UNCHANGED <<runtime, conf, ops>>

\* The other pre-checks end the start: a core of another kind that cannot be
\* switched to, geo files that cannot be had, a core that cannot be unpacked.
PrechecksFail ==
    /\ start.pc = "checked"
    /\ start' = [start EXCEPT !.pc = "failed"]
    /\ OnlyStart /\ UNCHANGED <<runtime, conf, ops>>

Refused == \E f \in FilesOf(start.core) : custom[f] = "refused"
\* Whether the core refuses the configuration once the operator's files are
\* merged in.  Beside a node of the operator's those of the configuration keep
\* only the lines that begin with a dash as well: either, as they are written.
Mixed ==
    CASE start.dis -> {FALSE}
      [] ~start.dis /\ Refused -> {TRUE}
      [] OTHER -> IF start.core = "clash" /\ custom["proxies"] # None THEN BOOLEAN ELSE {FALSE}
Sound == file[start.core] \in {"good", "empty"}
Looped == runtime = "loop" /\ start.core = "clash"
\* The file is read again; refused: what the core is given after a refusal.
Built(refused) ==
    /\ \E mixed \in Mixed :
        runtime' = IF ~Sound THEN "unusable" ELSE IF mixed THEN refused ELSE "whole"
    /\ start' = [start EXCEPT !.pc = "built"]
    /\ OnlyStart /\ UNCHANGED <<conf, ops>>
\* Mutant of BuildClash: no second build without the operator's lines.
BuildClashOnce == start.pc = "checked" /\ start.core = "clash" /\ ~Looped /\ Built("unusable")
\* prepareClashRuntimeConfig asks the core; if it refuses the result, it is
\* built once more without the operator's lines.
BuildClash == start.pc = "checked" /\ start.core = "clash" /\ ~Looped /\ Built("plain")
\* prepareSingboxRuntimeConfig copies the other files of jsons/ beside the
\* configuration, asks no one and has no second build.
BuildSingbox == start.pc = "checked" /\ start.core = "singbox" /\ Built("refused")
\* A link to itself cannot be written through.
BuildFails ==
    /\ start.pc = "checked" /\ Looped
    /\ start' = [start EXCEPT !.pc = "off"]
    /\ OnlyStart /\ UNCHANGED <<runtime, conf, ops>>
\* The old place of the file, BINDIR/config.yaml, is removed and linked to the
\* new one.
LinkOld ==
    /\ start.pc = "built"
    /\ runtime' = IF disk = "mini" /\ start.core = "clash" THEN "loop" ELSE runtime
    /\ start' = [start EXCEPT !.pc = "ready"]
    /\ OnlyStart /\ UNCHANGED <<conf, ops>>
Launch ==
    /\ start.pc = "ready" /\ conf = None /\ runtime \in {"whole", "plain"}
    /\ conf' = runtime
    /\ OnlyStart /\ UNCHANGED <<start, runtime, ops>>

Init ==
    /\ cfg \in {Fresh, [Fresh EXCEPT !.url = TRUE]}
    /\ gen = [p \in Procs |-> Idle] /\ tmp = None
    /\ file \in {[c \in Cores |-> None], [clash |-> "good", singbox |-> None]}
    /\ custom = [f \in CustomFiles |-> None]
    /\ start = [pc |-> "off", core |-> "clash", dis |-> FALSE] /\ runtime = None /\ conf = None
    /\ disk \in Disks /\ ops = 0

Generates ==
    GenStart \/ AskFails \/ Failed \/ AskAnswered \/ Check \/ SaveCfg \/ Install \/ InstallFails \/ GenKilled \/ Reboot
Menus ==
    \/ UseProvider \/ UseAll \/ UseFile \/ SetServer \/ SwitchCore \/ DisableOverride
    \/ AddRule \/ AddProxy \/ AddGroup \/ RemoveRule \/ RemoveProxy \/ ClearGroups
    \/ OwnFile \/ Upload \/ FillClash \/ FillSingbox
Going == StartGenerates \/ StartChecks \/ PrechecksFail \/ BuildClash \/ BuildSingbox \/ BuildFails \/ LinkOld \/ Launch

Next == Generates \/ Menus \/ StartBegin \/ Going
\* A start that has begun goes on.
Spec == Init /\ [][Next]_vars /\ WF_vars(Going)

-----------------------------------------------------------------------------
\* Properties.

\* A generation gives up only after it has asked three converters, or all there
\* are, whichever of them was selected when it began.
FallbackTries ==
    \A p \in Procs : At(p, "failed") =>
        Cardinality(gen[p].asked) = IF ServerCount < 3 THEN ServerCount ELSE 3

\* With a good configuration a start brings the service up, unless another
\* pre-check ends it, the configuration is replaced or another core selected
\* meanwhile, or the device goes down.  For clash that is so whatever lines and
\* files the operator has added; singbox has no second build, and a file of
\* jsons/ that it refuses keeps the service down, unless overrides are off.
ComesUp ==
    \A c \in Cores :
        (start.pc = "begun" /\ start.core = c /\ file[c] = "good" /\ disk # "mini")
            ~> \/ conf # None \/ file[c] # "good" \/ start.core # c
               \/ start.pc \in {"down", "failed"}
               \/ start.core = "singbox" /\ ~start.dis /\ start.pc \in {"built", "ready"} /\ runtime = "refused"
=============================================================================
