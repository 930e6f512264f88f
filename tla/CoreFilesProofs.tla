--------------------------- MODULE CoreFilesProofs ---------------------------
(***************************************************************************)
(* For any cores and any set of writers: while nothing a property excepts  *)
(* has happened, every file a start could take is the configured core, or, *)
(* during a replacement, that one or the new one, and which of the two is  *)
(* said step by step.  A start may run in between at any moment.           *)
(***************************************************************************)
EXTENDS CoreFiles, TLAPS

\* A replacement has begun and has not yet written all it will write.
Busy == repl.pc \notin {"idle", "start"}

\* The type invariant with what the steps under way hold in hand.
Typed ==
    /\ TypeOK
    /\ start.pc # "idle" => start.core \in Cores
    /\ Busy => repl.core \in Cores /\ repl.file \in File
    /\ link # "no" => run = NoFile
    /\ repl.by = "cli" => repl.pc \notin {"cfg", "env", "start"}
    /\ repl.by = "upload" => ~Busy
    /\ repl.by = "menu" => repl.pc # "start"

-----------------------------------------------------------------------------
(* Operators of the model *)

LEMMA RankIs == /\ Rank["raw"] = 1 /\ Rank["tar.gz"] = 2 /\ Rank["gz"] = 3 /\ Rank["upx"] = 4
  BY DEF Rank, Endings

\* The candidate of a directory is one of those that unpack, the first of them.
LEMMA FirstTaken ==
    ASSUME NEW dir, Takes(dir) # {}
    PROVE  /\ FirstOf(dir) \in Takes(dir) /\ FirstOf(dir) \in Endings
           /\ \A g \in Takes(dir) : Rank[FirstOf(dir)] <= Rank[g]
<1>1. \E f \in Takes(dir) : \A g \in Takes(dir) : Rank[f] <= Rank[g]
  <2>1. Takes(dir) \subseteq {"raw", "tar.gz", "gz", "upx"} BY DEF Takes, Endings
  <2> QED BY <2>1, RankIs
<1>2. Takes(dir) \subseteq Endings BY DEF Takes
<1> QED BY <1>1, <1>2 DEF FirstOf

\* The core switched to is a core of the same family.
LEMMA FullIsCore == ASSUME NEW c \in Cores PROVE FullOf(Family(c)) \in FullCores /\ FullOf(Family(c)) \in Cores
  BY CoresAssumption DEF FullOf

LEMMA FamilyIs == \A c : Family(c) \in Families
  BY DEF Family, Families

LEMMA NoFileIsNone == NoFile \notin File
  BY CoresAssumption DEF NoFile, File

LEMMA PackedWith ==
    ASSUME NEW dir \in Packed, NEW f \in Endings, NEW file \in File \cup {NoFile}
    PROVE  [dir EXCEPT ![f] = file] \in Packed
  BY DEF Packed

LEMMA EmptyIsPacked == Empty \in Packed /\ \A f \in Endings : Empty[f] = NoFile
  BY DEF Packed, Empty

\* What a write through TmpDir/CrashCore changes.
LEMMA WriteRunType ==
    ASSUME Typed, NEW file \in File \cup {NoFile}, WriteRun(file)
    PROVE  bin' \in Packed /\ old' \in Packed /\ run' \in File \cup {NoFile} /\ (link # "no" => run' = NoFile)
<1>1. "upx" \in Endings BY DEF Endings
<1>2. [bin EXCEPT !["upx"] = file] \in Packed /\ [old EXCEPT !["upx"] = file] \in Packed
  BY <1>1, PackedWith DEF Typed, TypeOK
<1>3. link \in {"no", "bin", "old"} /\ bin \in Packed /\ old \in Packed /\ run \in File \cup {NoFile}
      /\ (link # "no" => run = NoFile)
  BY DEF Typed, TypeOK
<1>4. CASE link = "no" BY <1>3, <1>4 DEF WriteRun
<1>5. CASE link = "bin" BY <1>2, <1>3, <1>5 DEF WriteRun
<1>6. CASE link = "old" BY <1>2, <1>3, <1>6 DEF WriteRun
<1> QED BY <1>3, <1>4, <1>5, <1>6

LEMMA RunFileType == Typed => RunFile \in File \cup {NoFile}
<1>1. "upx" \in Endings BY DEF Endings
<1> QED BY <1>1 DEF Typed, TypeOK, RunFile, Packed

-----------------------------------------------------------------------------
(* Type correctness *)

LEMMA InitType == Init => Typed
<1> SUFFICES ASSUME Init PROVE Typed OBVIOUS
<1>1. PICK f \in Formats \cup {"raw"} :
        LET kept == [Empty EXCEPT ![f] = [core |-> cfg, ok |-> TRUE]] IN
        IF mini THEN old = kept /\ bin = Empty ELSE bin = kept /\ old = Empty
  BY DEF Init
<1>2. f \in Endings /\ [core |-> cfg, ok |-> TRUE] \in File
  BY CoresAssumption DEF Endings, Init, File
<1>3. bin \in Packed /\ old \in Packed
  BY <1>1, <1>2, EmptyIsPacked, PackedWith
<1>4. mini \in BOOLEAN BY CoresAssumption DEF Init
<1>5. start \in [pc : StartPc, core : Cores \cup {None}, env : Families] /\ start.pc = "idle"
  BY DEF Init, IdleStart, StartPc, Families
<1>6. /\ repl \in [pc : ReplPc, by : {"task", "menu", "upload", "cli"}, fmt : {"tar.gz", "gz", "upx"},
                   file : File \cup {NoFile}, core : Cores \cup {None}]
      /\ repl.pc = "idle"
  BY DEF Init, IdleRepl, ReplPc
<1>7. cfg \in Cores /\ env \in Families /\ needs \subseteq Families
  BY FamilyIs DEF Init
<1> QED BY <1>3, <1>4, <1>5, <1>6, <1>7 DEF Init, Typed, TypeOK, Busy, Reasons

LEMMA StartTypes ==
    ASSUME Typed, start.pc = "idle", Start
    PROVE  /\ start' \in [pc : StartPc, core : Cores \cup {None}, env : Families] /\ start'.core \in Cores
           /\ run' \in File \cup {NoFile} /\ link' \in {"no", "bin", "old"} /\ (link' # "no" => run' = NoFile)
           /\ live' \in Cores \cup {None} /\ exec' \in BOOLEAN /\ spoiled' \subseteq Reasons
           /\ UNCHANGED <<mini, bin, old, cfg, env, needs>>
<1>1. start' = [pc |-> "check", core |-> cfg, env |-> env] BY DEF Start
<1>2. start' \in [pc : StartPc, core : Cores \cup {None}, env : Families] /\ start'.core \in Cores
  BY <1>1 DEF Typed, TypeOK, StartPc
<1>3. spoiled' \subseteq Reasons BY DEF Start, Spoil, Overlap, Reasons, Typed, TypeOK
<1> QED BY <1>2, <1>3 DEF Start, RemoveRun, Typed, TypeOK, settings

LEMMA StartStepsType == Typed /\ StartSteps => Typed'
<1> SUFFICES ASSUME Typed, StartSteps PROVE Typed' OBVIOUS
<1>1. CASE CheckKeeps BY <1>1 DEF CheckKeeps, Goto, Typed, TypeOK, StartPc, disk, settings, Busy
<1>2. CASE SwitchDelete
  <2>1. start.core \in Cores /\ FullOf(Family(start.core)) \in Cores /\ Family(start.core) \in Families
    BY <1>2, FullIsCore, FamilyIs DEF SwitchDelete, Typed
  <2>2. start' \in [pc : StartPc, core : Cores \cup {None}, env : Families] /\ start'.core \in Cores
    BY <1>2, <2>1 DEF SwitchDelete, StartPc
  <2> QED BY <1>2, <2>2, EmptyIsPacked DEF SwitchDelete, RemoveRun, Spoil, Typed, TypeOK, settings, Reasons, Busy
<1>3. CASE SwitchCfg BY <1>3 DEF SwitchCfg, Goto, Typed, TypeOK, StartPc, disk, Busy
<1>4. CASE SwitchEnv BY <1>4 DEF SwitchEnv, Goto, Typed, TypeOK, StartPc, disk, Busy
<1>5. CASE EnsureHas BY <1>5 DEF EnsureHas, Goto, Typed, TypeOK, StartPc, disk, settings, Busy
<1>6. CASE EnsureUnpacks
  <2>1. ASSUME NEW dir \in {bin, old}, NEW name \in {"bin", "old"}, Takes(dir) # {}, Unpack(dir, name)
        PROVE  /\ bin' \in Packed /\ old' \in Packed /\ run' \in File \cup {NoFile}
               /\ link' \in {"no", "bin", "old"} /\ (link' # "no" => run' = NoFile)
    <3>1. FirstOf(dir) \in Endings BY <2>1, FirstTaken
    <3>2. dir[FirstOf(dir)] \in File \cup {NoFile} BY <3>1 DEF Typed, TypeOK, Packed
    <3> QED BY <2>1, <3>2, WriteRunType DEF Unpack, Typed, TypeOK
  <2>2. /\ bin' \in Packed /\ old' \in Packed /\ run' \in File \cup {NoFile}
        /\ link' \in {"no", "bin", "old"} /\ (link' # "no" => run' = NoFile)
    BY <1>6, <2>1 DEF EnsureUnpacks
  <2> QED BY <1>6, <2>2 DEF EnsureUnpacks, Goto, Typed, TypeOK, StartPc, settings, Busy
<1>7. CASE EnsureFails
  <2>1. ASSUME NEW dir \in {bin, old}, NEW f \in Broken(dir)
        PROVE  [dir[f] EXCEPT !.ok = FALSE] \in File
    <3>1. dir[f] \in File BY DEF Broken, Typed, TypeOK, Packed
    <3> QED BY <3>1 DEF File
  <2>2. /\ bin' \in Packed /\ old' \in Packed /\ run' \in File \cup {NoFile} /\ (link # "no" => run' = NoFile)
    <3>1. CASE UNCHANGED <<bin, old, run>> BY <3>1 DEF Typed, TypeOK
    <3>2. ASSUME NEW dir \in {bin, old}, NEW f \in Broken(dir), WriteRun([dir[f] EXCEPT !.ok = FALSE])
          PROVE  /\ bin' \in Packed /\ old' \in Packed /\ run' \in File \cup {NoFile} /\ (link # "no" => run' = NoFile)
      BY <2>1, <3>2, WriteRunType
    <3> QED BY <1>7, <3>1, <3>2 DEF EnsureFails
  <2>3. start' \in [pc : StartPc, core : Cores \cup {None}, env : Families] /\ start'.pc = "idle"
    BY <1>7 DEF EnsureFails, IdleStart, StartPc, Families
  <2> QED BY <1>7, <2>2, <2>3 DEF EnsureFails, Typed, TypeOK, settings, Busy
<1>8. CASE Launch
  <2>1. RunFile.core \in Cores BY <1>8, RunFileType DEF Launch, Runs, File, NoFile
  <2>2. start' \in [pc : StartPc, core : Cores \cup {None}, env : Families] /\ start'.pc = "idle"
    BY <1>8 DEF Launch, IdleStart, StartPc, Families
  <2> QED BY <1>8, <2>1, <2>2 DEF Launch, Typed, TypeOK, disk, settings, Busy
<1>9. CASE LaunchFails
  <2>2. start' \in [pc : StartPc, core : Cores \cup {None}, env : Families] /\ start'.pc = "idle"
    BY <1>9 DEF LaunchFails, IdleStart, StartPc, Families
  <2> QED BY <1>9, <2>2 DEF LaunchFails, RemoveRun, Typed, TypeOK, settings, Busy
<1> QED BY <1>1, <1>2, <1>3, <1>4, <1>5, <1>6, <1>7, <1>8, <1>9 DEF StartSteps

LEMMA ReplStepsType == Typed /\ ReplSteps => Typed'
<1> SUFFICES ASSUME Typed, ReplSteps PROVE Typed' OBVIOUS
<1>0. ASSUME NEW p \in ReplPc, Step(p)
      PROVE  /\ repl' \in [pc : ReplPc, by : {"task", "menu", "upload", "cli"}, fmt : {"tar.gz", "gz", "upx"},
                           file : File \cup {NoFile}, core : Cores \cup {None}]
             /\ repl'.pc = p /\ repl'.by = repl.by /\ repl'.core = repl.core /\ repl'.file = repl.file
  BY <1>0 DEF Step, Typed, TypeOK
<1>a. /\ IdleRepl \in [pc : ReplPc, by : {"task", "menu", "upload", "cli"}, fmt : {"tar.gz", "gz", "upx"},
                       file : File \cup {NoFile}, core : Cores \cup {None}]
      /\ IdleRepl.pc = "idle" /\ IdleRepl.by = "menu"
  BY DEF IdleRepl, ReplPc
<1>b. {"archive", "core", "cfg", "env", "start"} \subseteq ReplPc BY DEF ReplPc
<1>c. repl.fmt \in Endings /\ repl.by \in {"task", "menu", "upload", "cli"}
      /\ repl.file \in File \cup {NoFile} BY DEF Typed, TypeOK, Endings
<1>1. CASE Clear
  <2>1. bin' \in Packed
    <3>1. "raw" \in Endings /\ bin["raw"] \in File \cup {NoFile} BY DEF Endings, Typed, TypeOK, Packed
    <3> QED BY <1>1, <3>1, EmptyIsPacked, PackedWith DEF Clear
  <2> QED BY <1>1, <1>0, <1>b, <2>1 DEF Clear, Typed, TypeOK, settings, Busy
<1>2. CASE Archive
  <2>1. bin' \in Packed BY <1>2, <1>c, PackedWith DEF Archive, Typed, TypeOK
  <2> QED BY <1>2, <1>0, <1>b, <2>1 DEF Archive, Typed, TypeOK, settings, Busy
<1>3. CASE TaskMove
  BY <1>3, <1>0, <1>b, <1>c DEF TaskMove, Typed, TypeOK, settings, Busy
<1>4. CASE TaskCopy
  <2>1. CASE exec
    BY <1>4, <2>1, <1>a DEF TaskCopy, Spoil, Reasons, Typed, TypeOK, settings, Busy
  <2>2. CASE ~exec
    <3>1. Step("cfg") /\ \E file \in File \cup {NoFile} : WriteRun(file)
      BY <1>4, <2>2, <1>c DEF TaskCopy
    <3>2. spoiled' \subseteq Reasons BY <1>4 DEF TaskCopy, Spoil, Reasons, Typed, TypeOK
    <3> QED BY <1>4, <3>1, <3>2, <1>0, <1>b, WriteRunType DEF TaskCopy, Typed, TypeOK, settings, Busy
  <2> QED BY <2>1, <2>2
<1>5. CASE MenuCore
  BY <1>5, <1>0, <1>b, <1>c, WriteRunType DEF MenuCore, Typed, TypeOK, settings, Busy
<1>6. CASE MenuCoreBusy
  BY <1>6, <1>a DEF MenuCoreBusy, Spoil, Reasons, Typed, TypeOK, disk, settings, Busy
<1>7. CASE CliCore
  BY <1>7, <1>a, <1>c DEF CliCore, Typed, TypeOK, settings, Busy
<1>11. CASE WriteFails
  <2>1. spoiled' \subseteq Reasons BY <1>11 DEF WriteFails, Spoil, Reasons, Typed, TypeOK
  <2>2. Part \subseteq File \cup {NoFile}
    <3>1. repl.file \in File BY <1>11 DEF WriteFails, Typed, Busy
    <3> QED BY <3>1 DEF Part, File
  <2>3. bin' \in Packed /\ old' \in Packed /\ run' \in File \cup {NoFile} /\ (link # "no" => run' = NoFile)
    <3>1. CASE UNCHANGED <<bin, old, run>> BY <3>1 DEF Typed, TypeOK
    <3>2. ASSUME NEW part \in Part, bin' = [bin EXCEPT ![repl.fmt] = part], UNCHANGED <<old, run>>
          PROVE  bin' \in Packed /\ old' \in Packed /\ run' \in File \cup {NoFile} /\ (link # "no" => run' = NoFile)
      BY <1>c, <2>2, <3>2, PackedWith DEF Typed, TypeOK
    <3>3. ASSUME NEW part \in Part, WriteRun(part)
          PROVE  bin' \in Packed /\ old' \in Packed /\ run' \in File \cup {NoFile} /\ (link # "no" => run' = NoFile)
      BY <2>2, <3>3, WriteRunType
    <3> QED BY <1>11, <3>1, <3>2, <3>3 DEF WriteFails
  <2> QED BY <1>11, <1>a, <2>1, <2>3 DEF WriteFails, Typed, TypeOK, settings, Busy
<1>8. CASE SetCfg
  <2>1. repl.core \in Cores BY <1>8 DEF SetCfg, Typed, Busy
  <2> QED BY <1>8, <2>1, <1>0, <1>b DEF SetCfg, Typed, TypeOK, disk, Busy
<1>9. CASE SetEnv
  <2>1. CASE repl.by = "task"
    BY <1>9, <2>1, <1>0, <1>b, FamilyIs DEF SetEnv, Typed, TypeOK, disk, Busy
  <2>2. CASE repl.by # "task"
    BY <1>9, <2>2, <1>a, FamilyIs DEF SetEnv, Typed, TypeOK, disk, Busy
  <2> QED BY <2>1, <2>2
<1>10. CASE StartAfter
  <2>1. start.pc = "idle" /\ Start /\ repl' = IdleRepl BY <1>10 DEF StartAfter, Start
  <2> QED BY <2>1, <1>a, StartTypes DEF Typed, TypeOK, Busy
<1> QED BY <1>1, <1>2, <1>3, <1>4, <1>5, <1>6, <1>7, <1>8, <1>9, <1>10, <1>11 DEF ReplSteps

LEMMA BeginType ==
    ASSUME Typed, NEW by \in {"task", "menu", "cli"}, NEW fmt \in Formats, NEW file \in File, NEW core \in Cores,
           NEW reasons, reasons \subseteq Reasons, Begin(by, fmt, file, core, reasons)
    PROVE  Typed'
<1>1. /\ repl' \in [pc : ReplPc, by : {"task", "menu", "upload", "cli"}, fmt : {"tar.gz", "gz", "upx"},
                    file : File \cup {NoFile}, core : Cores \cup {None}]
      /\ repl'.pc = "clear" /\ repl'.by = by /\ repl'.core = core /\ repl'.file = file
  BY CoresAssumption DEF Begin, ReplPc
<1>2. spoiled' \subseteq Reasons BY DEF Begin, Spoil, Overlap, Reasons, Typed, TypeOK
<1> QED BY <1>1, <1>2 DEF Begin, Typed, TypeOK, disk, settings, Busy

LEMMA WriterType ==
    Typed /\ (TaskAccept \/ TaskRefuse \/ MenuInstall \/ CliInstall \/ CliFind \/ Upload) => Typed'
<1> SUFFICES ASSUME Typed, TaskAccept \/ TaskRefuse \/ MenuInstall \/ CliInstall \/ CliFind \/ Upload
             PROVE  Typed'
  OBVIOUS
<1>0. \A c \in Cores, whole \in BOOLEAN : [core |-> c, ok |-> whole] \in File BY DEF File
<1>a. \A by \in {"task", "upload"} :
        LET r == [IdleRepl EXCEPT !.pc = "start", !.by = by] IN
        /\ r \in [pc : ReplPc, by : {"task", "menu", "upload", "cli"}, fmt : {"tar.gz", "gz", "upx"},
                  file : File \cup {NoFile}, core : Cores \cup {None}]
        /\ r.pc = "start" /\ r.by = by
  BY DEF IdleRepl, ReplPc
<1>b. cfg \in Cores BY DEF Typed, TypeOK
<1>1. CASE TaskAccept
  <2>1. PICK fmt \in Formats, c \in Cores :
          Begin("task", fmt, [core |-> c, ok |-> TRUE], cfg, IF c # cfg THEN {"flavour"} ELSE {})
    BY <1>1 DEF TaskAccept
  <2>2. (IF c # cfg THEN {"flavour"} ELSE {}) \subseteq Reasons BY DEF Reasons
  <2>3. [core |-> c, ok |-> TRUE] \in File BY <1>0
  <2> QED BY <2>1, <2>2, <2>3, <1>b, BeginType
<1>2. CASE TaskRefuse
  BY <1>2, <1>a DEF TaskRefuse, Typed, TypeOK, disk, settings, Busy
<1>3. CASE MenuInstall
  <2>1. PICK fmt \in Formats, c \in Cores, whole \in BOOLEAN :
          Begin("menu", fmt, [core |-> c, ok |-> whole], c, IF whole THEN {} ELSE {"upload"})
    BY <1>3 DEF MenuInstall
  <2>2. (IF whole THEN {} ELSE {"upload"}) \subseteq Reasons BY DEF Reasons
  <2> QED BY <2>1, <2>2, <1>0, BeginType
<1>4. CASE CliInstall
  <2>1. PICK fmt \in Formats, c \in Cores :
          Begin("cli", fmt, [core |-> c, ok |-> TRUE], cfg, IF c # cfg THEN {"flavour"} ELSE {})
    BY <1>4 DEF CliInstall
  <2>2. (IF c # cfg THEN {"flavour"} ELSE {}) \subseteq Reasons BY DEF Reasons
  <2>3. [core |-> c, ok |-> TRUE] \in File BY <1>0
  <2> QED BY <2>1, <2>2, <2>3, <1>b, BeginType
<1>5. CASE CliFind
  <2> DEFINE here == [f \in Endings |-> IF mini /\ f # "raw" /\ old[f] # NoFile THEN old[f] ELSE bin[f]]
  <2>1. here \in Packed BY DEF Typed, TypeOK, Packed
  <2>2. old' \in Packed
    <3>1. "raw" \in Endings /\ old["raw"] \in File \cup {NoFile} BY DEF Endings, Typed, TypeOK, Packed
    <3> QED BY <1>5, <3>1, EmptyIsPacked, PackedWith DEF CliFind, Typed, TypeOK
  <2>3. PICK f \in {f \in DOMAIN FindRank : here[f] # NoFile} :
          /\ bin' = here
          /\ IF f = "upx" THEN link' = "bin" /\ UNCHANGED run
             ELSE run' \in (IF here[f].ok THEN {here[f]} ELSE {NoFile, here[f]}) /\ UNCHANGED link
    BY <1>5 DEF CliFind
  <2>4. f \in Endings BY DEF FindRank
  <2>5. here[f] \in File \cup {NoFile} BY <2>1, <2>4 DEF Packed
  <2>6. RunFile = NoFile /\ link = "no" BY <1>5 DEF CliFind
  <2>7. run = NoFile BY <2>6 DEF RunFile
  <2> HIDE DEF here
  <2>8. run' \in File \cup {NoFile} /\ link' \in {"no", "bin", "old"} /\ (link' # "no" => run' = NoFile)
    BY <2>3, <2>5, <2>6, <2>7
  <2>9. spoiled' \subseteq Reasons BY <1>5 DEF CliFind, Spoil, Overlap, Reasons, Typed, TypeOK
  <2> QED BY <1>5, <2>1, <2>2, <2>3, <2>8, <2>9 DEF CliFind, Typed, TypeOK, settings, Busy
<1>6. CASE Upload
  <2>1. PICK fmt \in Formats, c \in Cores, whole \in BOOLEAN :
          /\ bin' = [bin EXCEPT ![fmt] = [core |-> c, ok |-> whole], !["raw"] = NoFile]
          /\ RemoveRun
          /\ repl' = [IdleRepl EXCEPT !.pc = "start", !.by = "upload"]
          /\ Spoil({"upload"} \cup Overlap)
          /\ UNCHANGED <<mini, old, settings, needs, live, start>>
    BY <1>6 DEF Upload
  <2>2. fmt \in Endings /\ "raw" \in Endings BY CoresAssumption DEF Endings
  <2>3. bin' \in Packed BY <2>1, <2>2, <1>0 DEF Typed, TypeOK, Packed
  <2>4. spoiled' \subseteq Reasons BY <2>1 DEF Spoil, Overlap, Reasons, Typed, TypeOK
  <2> QED BY <2>1, <2>3, <2>4, <1>a DEF RemoveRun, Typed, TypeOK, settings, Busy
<1> QED BY <1>1, <1>2, <1>3, <1>4, <1>5, <1>6

LEMMA OtherType == Typed /\ (StartAlone \/ HotUpdate \/ Stop \/ NewConfig \/ Reboot) => Typed'
<1> SUFFICES ASSUME Typed, StartAlone \/ HotUpdate \/ Stop \/ NewConfig \/ Reboot PROVE Typed' OBVIOUS
<1>1. CASE StartAlone
  <2>1. start.pc = "idle" /\ Start /\ repl' = repl BY <1>1 DEF StartAlone, Start
  <2> QED BY <2>1, StartTypes DEF Typed, TypeOK, Busy
<1>2. CASE HotUpdate BY <1>2 DEF HotUpdate, RemoveRun, Typed, TypeOK, settings, Busy
<1>3. CASE Stop BY <1>3 DEF Stop, RemoveRun, Typed, TypeOK, settings, Busy
<1>4. CASE NewConfig
  <2>1. needs' \subseteq Families BY <1>4, FamilyIs DEF NewConfig
  <2>2. spoiled' \subseteq Reasons BY <1>4 DEF NewConfig, Spoil, Reasons, Typed, TypeOK
  <2> QED BY <1>4, <2>1, <2>2 DEF NewConfig, Typed, TypeOK, disk, settings, Busy
<1>5. CASE Reboot
  <2>1. /\ IdleStart \in [pc : StartPc, core : Cores \cup {None}, env : Families] /\ IdleStart.pc = "idle"
        /\ IdleRepl \in [pc : ReplPc, by : {"task", "menu", "upload", "cli"}, fmt : {"tar.gz", "gz", "upx"},
                         file : File \cup {NoFile}, core : Cores \cup {None}]
        /\ IdleRepl.pc = "idle" /\ IdleRepl.by = "menu"
    BY DEF IdleStart, IdleRepl, StartPc, ReplPc, Families
  <2>2. spoiled' \subseteq Reasons BY <1>5 DEF Reboot, Spoil, Reasons, Typed, TypeOK
  <2> QED BY <1>5, <2>1, <2>2, EmptyIsPacked DEF Reboot, RemoveRun, Typed, TypeOK, settings, Busy
<1> QED BY <1>1, <1>2, <1>3, <1>4, <1>5

LEMMA NextType == Typed /\ [Next]_vars => Typed'
<1>1. Typed /\ UNCHANGED vars => Typed'
  BY DEF Typed, TypeOK, vars, disk, settings, Busy
<1> QED BY <1>1, StartStepsType, ReplStepsType, WriterType, OtherType DEF Next

LEMMA TypedHolds == Spec => []Typed
  BY InitType, NextType, PTL DEF Spec

\* Every file, link and step is of its kind; a start always holds a core that exists.
THEOREM TypeCorrect == Spec => []TypeOK
<1>1. Typed => TypeOK BY DEF Typed
<1> QED BY <1>1, TypedHolds, PTL

-----------------------------------------------------------------------------
(* A start finds a core that runs *)

\* Nothing happened that StartableAtRest excepts.
Usual == spoiled \subseteq {"overlap"}
\* The whole file of a core, a directory that holds only one file in its
\* packed forms, or at least one.
Whole(c) == [core |-> c, ok |-> TRUE]
Only(dir, file) == \A f \in Endings : dir[f] \in {NoFile, file}
Has(dir) == \E f \in Endings : dir[f] # NoFile
\* The configuration does not ask for another core than c.
Suits(c) == Family(c) \in needs => c \in FullCores

\* The settings speak of one core, which suits; only mini mode looks at CrashDir.
Agreed ==
    /\ start.pc \notin {"sw_cfg", "sw_env"}
    /\ ~mini => link # "old" /\ old = Empty
    /\ Suits(cfg)
    /\ repl.pc # "env" => env = Family(cfg)
    /\ repl.pc = "env" => cfg = repl.core
\* What a replacement brings is the core it will set crashcore to.
Brought ==
    Busy => /\ ~mini /\ bin["raw"] = NoFile
            /\ repl.file = Whole(repl.core) /\ Suits(repl.core)
            /\ repl.by # "menu" => repl.core = cfg
\* Which files there can be: before the old ones are cleared, in between, and
\* from the moment the new archive is there.
Stored ==
    /\ repl.pc \in {"idle", "start", "clear"} =>
          /\ Only(bin, Whole(cfg)) /\ Only(old, Whole(cfg)) /\ run \in {NoFile, Whole(cfg)}
    /\ repl.pc \in {"idle", "start"} => IF mini THEN Has(old) ELSE Has(bin)
    /\ repl.pc = "archive" => bin = Empty /\ run \in {NoFile, Whole(cfg)}
    /\ repl.pc \in {"core", "cfg", "env"} => Only(bin, repl.file) /\ bin[repl.fmt] = repl.file
    /\ repl.pc = "core" => run \in {NoFile, Whole(cfg), repl.file}
    /\ repl.pc \in {"cfg", "env"} => run \in {NoFile, repl.file}
Kept == Agreed /\ Brought /\ Stored

LEMMA WholeIs == \A c \in Cores : Whole(c) \in File /\ Whole(c).ok /\ Whole(c).core = c /\ Whole(c) # NoFile
<1> SUFFICES ASSUME NEW c \in Cores
             PROVE  Whole(c) \in File /\ Whole(c).ok /\ Whole(c).core = c /\ Whole(c) # NoFile
  OBVIOUS
<1>1. Whole(c) \in File BY DEF Whole, File
<1>2. Whole(c).ok /\ Whole(c).core = c BY DEF Whole
<1> QED BY <1>1, <1>2, NoFileIsNone

\* Where every file is whole all that is there unpacks, and nothing is broken.
LEMMA WholeTaken ==
    ASSUME NEW dir, NEW c \in Cores, Only(dir, Whole(c))
    PROVE  /\ Takes(dir) = {f \in Endings : dir[f] # NoFile} /\ Broken(dir) = {}
           /\ Takes(dir) # {} => dir[FirstOf(dir)] = Whole(c)
<1>1. \A f \in Endings : Accepted(dir, f) <=> dir[f] # NoFile BY WholeIs DEF Accepted, Only
<1>2. Takes(dir) = {f \in Endings : dir[f] # NoFile} BY <1>1 DEF Takes
<1>3. Broken(dir) = {} BY <1>1 DEF Broken
<1>4. Takes(dir) # {} => FirstOf(dir) \in {f \in Endings : dir[f] # NoFile} BY <1>2, FirstTaken
<1> QED BY <1>2, <1>3, <1>4 DEF Only

LEMMA OnlyWith ==
    ASSUME NEW dir \in Packed, NEW file, Only(dir, file)
    PROVE  LET new == [dir EXCEPT !["upx"] = file] IN
           /\ Only(new, file) /\ new["raw"] = dir["raw"] /\ new["upx"] = file
           /\ \A f \in Endings : dir[f] = file => new[f] = file
<1>1. \A f \in Endings : [dir EXCEPT !["upx"] = file][f] = IF f = "upx" THEN file ELSE dir[f] BY DEF Packed
<1>2. "upx" \in Endings /\ "raw" \in Endings /\ "upx" # "raw" BY DEF Endings
<1> QED BY <1>1, <1>2 DEF Only

LEMMA OnlyEmpty == ASSUME NEW file PROVE Only(Empty, file) /\ ~Has(Empty) /\ Takes(Empty) = {}
  BY EmptyIsPacked DEF Only, Has, Takes, Accepted

\* What was excepted stays excepted.
LEMMA SpoiledStays == [Next]_vars => spoiled \subseteq spoiled'
<1> SUFFICES ASSUME [Next]_vars PROVE spoiled \subseteq spoiled' OBVIOUS
<1>1. CASE UNCHANGED vars BY <1>1 DEF vars
<1>2. CASE StartSteps
  BY <1>2 DEF StartSteps, CheckKeeps, SwitchDelete, SwitchCfg, SwitchEnv, EnsureHas,
     EnsureUnpacks, EnsureFails, Launch, LaunchFails, Spoil
<1>3. CASE ReplSteps
  BY <1>3 DEF ReplSteps, Clear, Archive, TaskMove, TaskCopy, MenuCore, MenuCoreBusy, WriteFails,
     CliCore, SetCfg, SetEnv, StartAfter, Start, Spoil
<1>4. CASE TaskAccept \/ TaskRefuse \/ MenuInstall \/ CliInstall \/ CliFind \/ Upload
  <2>1. ASSUME NEW by, NEW fmt, NEW file, NEW core, NEW reasons, Begin(by, fmt, file, core, reasons)
        PROVE  spoiled \subseteq spoiled'
    BY <2>1 DEF Begin, Spoil
  <2> QED BY <1>4, <2>1 DEF TaskAccept, TaskRefuse, MenuInstall, CliInstall, CliFind, Upload, Spoil
<1>5. CASE StartAlone \/ HotUpdate \/ Stop \/ NewConfig \/ Reboot
  BY <1>5 DEF StartAlone, Start, HotUpdate, Stop, NewConfig, Reboot, Spoil
<1> QED BY <1>1, <1>2, <1>3, <1>4, <1>5 DEF Next

LEMMA UsualBefore == [Next]_vars /\ Usual' => Usual
  BY SpoiledStays DEF Usual

LEMMA InitKept == Init => Kept
<1> SUFFICES ASSUME Init PROVE Kept OBVIOUS
<1>1. PICK f \in Formats \cup {"raw"} :
        LET kept == [Empty EXCEPT ![f] = [core |-> cfg, ok |-> TRUE]] IN
        IF mini THEN old = kept /\ bin = Empty ELSE bin = kept /\ old = Empty
  BY DEF Init
<1> DEFINE kept == [Empty EXCEPT ![f] = [core |-> cfg, ok |-> TRUE]]
<1>2. f \in Endings /\ cfg \in Cores BY CoresAssumption DEF Endings, Init
<1>3. Only(kept, Whole(cfg)) /\ Has(kept)
  <2>1. \A g \in Endings : kept[g] = IF g = f THEN Whole(cfg) ELSE NoFile BY EmptyIsPacked DEF Whole, Empty
  <2>2. Whole(cfg) # NoFile BY <1>2, WholeIs
  <2> HIDE DEF kept
  <2> QED BY <1>2, <2>1, <2>2 DEF Only, Has
<1>4. IF mini THEN old = kept /\ bin = Empty ELSE bin = kept /\ old = Empty BY <1>1
<1> HIDE DEF kept
<1>5. Only(bin, Whole(cfg)) /\ Only(old, Whole(cfg)) /\ IF mini THEN Has(old) ELSE Has(bin)
  BY <1>3, <1>4, OnlyEmpty
<1>6. repl.pc = "idle" /\ start.pc = "idle" /\ (~mini => old = Empty) BY <1>4 DEF Init, IdleRepl, IdleStart
<1>7. env = Family(cfg) /\ needs = {} /\ run = NoFile /\ link = "no" BY DEF Init
<1> QED BY <1>5, <1>6, <1>7 DEF Kept, Agreed, Brought, Stored, Suits, Busy

\* TmpDir/CrashCore written through with the one file there is.
LEMMA WriteKept ==
    ASSUME Typed, Kept, NEW c \in Cores, WriteRun(Whole(c)),
           \/ repl.pc \in {"idle", "start", "clear"} /\ c = cfg
           \/ repl.pc \in {"core", "cfg", "env"} /\ Whole(c) = repl.file
    PROVE  /\ bin'["raw"] = bin["raw"] /\ (~mini /\ link # "old" => old' = old)
           /\ repl.pc \in {"idle", "start", "clear"} =>
                /\ Only(bin', Whole(cfg)) /\ Only(old', Whole(cfg)) /\ run' \in {NoFile, Whole(cfg)}
                /\ (Has(bin) => Has(bin')) /\ (Has(old) => Has(old'))
           /\ repl.pc \in {"core", "cfg", "env"} =>
                /\ Only(bin', repl.file) /\ bin'[repl.fmt] = repl.file /\ run' \in {run, repl.file}
<1>1. /\ bin \in Packed /\ old \in Packed /\ link \in {"no", "bin", "old"} /\ repl.fmt \in Endings
      /\ "upx" \in Endings /\ Whole(c) # NoFile /\ (link # "no" => run = NoFile)
  BY WholeIs DEF Typed, TypeOK, Endings
<1>2. CASE link = "no"
  <2>1. run' = Whole(c) /\ bin' = bin /\ old' = old BY <1>2 DEF WriteRun
  <2> QED BY <2>1 DEF Kept, Stored
<1>3. CASE link = "bin"
  <2>1. bin' = [bin EXCEPT !["upx"] = Whole(c)] /\ old' = old /\ run' = run BY <1>3 DEF WriteRun
  <2>2. Only(bin, Whole(c)) BY DEF Kept, Stored
  <2>3. Only(bin', Whole(c)) /\ bin'["raw"] = bin["raw"] /\ bin'["upx"] = Whole(c)
        /\ \A f \in Endings : bin[f] = Whole(c) => bin'[f] = Whole(c)
    BY <1>1, <2>1, <2>2, OnlyWith
  <2>4. Has(bin') BY <1>1, <2>3 DEF Has
  <2> QED BY <1>1, <2>1, <2>3, <2>4 DEF Kept, Stored
<1>4. CASE link = "old"
  <2>1. old' = [old EXCEPT !["upx"] = Whole(c)] /\ bin' = bin /\ run' = run BY <1>4 DEF WriteRun
  <2>2. mini /\ repl.pc \in {"idle", "start", "clear"} BY <1>4 DEF Kept, Agreed, Brought, Busy
  <2>3. Only(old, Whole(c)) /\ c = cfg BY <2>2 DEF Kept, Stored
  <2>4. Only(old', Whole(c)) /\ old'["upx"] = Whole(c) BY <1>1, <2>1, <2>3, OnlyWith
  <2>5. Has(old') BY <1>1, <2>4 DEF Has
  <2> QED BY <1>1, <2>1, <2>2, <2>3, <2>4, <2>5 DEF Kept, Stored
<1> QED BY <1>1, <1>2, <1>3, <1>4

\* A step that changes no file and no setting keeps all of it.
LEMMA SameKept ==
    ASSUME Kept, UNCHANGED <<mini, bin, old, run, link, cfg, env, needs, repl>>, start'.pc \notin {"sw_cfg", "sw_env"}
    PROVE  Kept'
  BY DEF Kept, Agreed, Brought, Stored, Suits, Busy, Only, Has

\* Nor does one that removes TmpDir/CrashCore.
LEMMA RemoveKept ==
    ASSUME Kept, RemoveRun, UNCHANGED <<mini, bin, old, cfg, env, needs, repl>>, start'.pc \notin {"sw_cfg", "sw_env"}
    PROVE  Kept'
<1>1. run' = NoFile /\ link' = "no" BY DEF RemoveRun
<1>2. Agreed' BY <1>1 DEF Kept, Agreed, Suits
<1>3. Brought' BY DEF Kept, Brought, Suits, Busy
<1>4. Stored' BY <1>1 DEF Kept, Stored, Only, Has
<1> QED BY <1>2, <1>3, <1>4 DEF Kept

LEMMA UnpackKept ==
    ASSUME Typed, Kept, EnsureUnpacks, NEW dir \in {bin, old}, NEW name \in {"bin", "old"},
           Takes(dir) # {}, Unpack(dir, name), mini \/ (dir = bin /\ name = "bin")
    PROVE  Kept'
<1>1. /\ start'.pc = "launch" /\ UNCHANGED <<mini, cfg, env, needs, repl>>
  BY DEF EnsureUnpacks, Goto, Typed, TypeOK, settings
<1>3. PICK c \in Cores :
        /\ Only(dir, Whole(c))
        /\ \/ repl.pc \in {"idle", "start", "clear"} /\ c = cfg
           \/ repl.pc \in {"core", "cfg", "env"} /\ Whole(c) = repl.file
  <2>1. CASE repl.pc \in {"idle", "start", "clear"}
    BY <2>1 DEF Kept, Stored, Typed, TypeOK
  <2>2. CASE repl.pc = "archive"
    <3>1. bin = Empty /\ ~mini BY <2>2 DEF Kept, Stored, Brought, Busy
    <3> QED BY <3>1, OnlyEmpty
  <2>3. CASE repl.pc \in {"core", "cfg", "env"}
    <3>1. ~mini /\ Only(bin, repl.file) /\ repl.file = Whole(repl.core) /\ repl.core \in Cores
      BY <2>3 DEF Kept, Stored, Brought, Busy, Typed
    <3> QED BY <2>3, <3>1
  <2>4. repl.pc \in ReplPc BY DEF Typed, TypeOK
  <2> QED BY <2>1, <2>2, <2>3, <2>4 DEF ReplPc
<1>4. CASE FirstOf(dir) = "upx"
  <2>1. link' = name /\ run' = NoFile /\ UNCHANGED <<bin, old>> BY <1>4 DEF Unpack
  <2> QED BY <1>1, <2>1 DEF Kept, Agreed, Brought, Stored, Suits, Busy, Only, Has
<1>5. CASE FirstOf(dir) # "upx"
  <2>1. WriteRun(Whole(c)) /\ link' = link BY <1>3, <1>5, WholeTaken DEF Unpack
  <2>2. /\ bin'["raw"] = bin["raw"] /\ (~mini /\ link # "old" => old' = old)
        /\ repl.pc \in {"idle", "start", "clear"} =>
             /\ Only(bin', Whole(cfg)) /\ Only(old', Whole(cfg)) /\ run' \in {NoFile, Whole(cfg)}
             /\ (Has(bin) => Has(bin')) /\ (Has(old) => Has(old'))
        /\ repl.pc \in {"core", "cfg", "env"} =>
             /\ Only(bin', repl.file) /\ bin'[repl.fmt] = repl.file /\ run' \in {run, repl.file}
    BY <1>3, <2>1, WriteKept
  <2>3. Agreed' BY <1>1, <2>1, <2>2 DEF Kept, Agreed, Suits
  <2>4. Brought' BY <1>1, <2>2 DEF Kept, Brought, Busy, Suits
  <2>5. Stored' BY <1>1, <1>3, <2>2 DEF Kept, Stored, Only, Has
  <2> QED BY <2>3, <2>4, <2>5 DEF Kept
<1> QED BY <1>4, <1>5

LEMMA StartStepsKept == Typed /\ Kept /\ StartSteps /\ Usual' => Kept'
<1> SUFFICES ASSUME Typed, Kept, StartSteps, Usual' PROVE Kept' OBVIOUS
<1>1. CASE CheckKeeps BY <1>1, SameKept DEF CheckKeeps, Goto, Typed, TypeOK, disk, settings
<1>2. CASE SwitchDelete BY <1>2 DEF SwitchDelete, Spoil, Usual
<1>3. CASE SwitchCfg BY <1>3 DEF SwitchCfg, Kept, Agreed
<1>4. CASE SwitchEnv BY <1>4 DEF SwitchEnv, Kept, Agreed
<1>5. CASE EnsureHas BY <1>5, SameKept DEF EnsureHas, Goto, Typed, TypeOK, disk, settings
<1>6. CASE EnsureUnpacks
  <2>1. bin \in {bin, old} /\ old \in {bin, old} OBVIOUS
  <2>2. CASE Takes(bin) # {} /\ Unpack(bin, "bin") BY <1>6, <2>1, <2>2, UnpackKept
  <2>3. CASE mini /\ Takes(old) # {} /\ Unpack(old, "old") BY <1>6, <2>1, <2>3, UnpackKept
  <2> QED BY <1>6, <2>2, <2>3 DEF EnsureUnpacks
<1>7. CASE EnsureFails
  <2>1. Broken(bin) = {} /\ (mini => Broken(old) = {})
    <3>1. ASSUME NEW dir \in {bin, old}, dir = bin \/ mini PROVE \E c \in Cores : Only(dir, Whole(c))
      <4>1. CASE repl.pc \in {"idle", "start", "clear"} BY <4>1, <3>1 DEF Kept, Stored, Typed, TypeOK
      <4>2. CASE repl.pc = "archive"
        <5>1. bin = Empty /\ ~mini /\ cfg \in Cores BY <4>2 DEF Kept, Stored, Brought, Busy, Typed, TypeOK
        <5> QED BY <3>1, <5>1, OnlyEmpty
      <4>3. CASE repl.pc \in {"core", "cfg", "env"}
        <5>1. ~mini /\ Only(bin, repl.file) /\ repl.file = Whole(repl.core) /\ repl.core \in Cores
          BY <4>3 DEF Kept, Stored, Brought, Busy, Typed
        <5> QED BY <3>1, <5>1
      <4>4. repl.pc \in ReplPc BY DEF Typed, TypeOK
      <4> QED BY <4>1, <4>2, <4>3, <4>4 DEF ReplPc
    <3> QED BY <3>1, WholeTaken
  <2>2. UNCHANGED <<mini, bin, old, run, link, cfg, env, needs, repl>> /\ start' = IdleStart
    BY <1>7, <2>1 DEF EnsureFails, settings
  <2> QED BY <2>2, SameKept DEF IdleStart
<1>8. CASE Launch BY <1>8, SameKept DEF Launch, IdleStart, disk, settings
<1>9. CASE LaunchFails BY <1>9, RemoveKept DEF LaunchFails, IdleStart, settings
<1> QED BY <1>1, <1>2, <1>3, <1>4, <1>5, <1>6, <1>7, <1>8, <1>9 DEF StartSteps

LEMMA StartKept == ASSUME Typed, Kept, Start, repl' = repl PROVE Kept'
<1>1. start'.pc = "check" BY DEF Start
<1>2. CASE live # None BY <1>1, <1>2, RemoveKept DEF Start, settings
<1>3. CASE live = None BY <1>1, <1>3, SameKept DEF Start, settings
<1> QED BY <1>2, <1>3

\* The end of a replacement, or of what a task does besides.
LEMMA ThroughKept ==
    ASSUME Kept, repl.pc \in {"idle", "start"}, repl'.pc \in {"idle", "start"},
           UNCHANGED <<mini, bin, old, run, link, cfg, env, needs, start>>
    PROVE  Kept'
  BY DEF Kept, Agreed, Brought, Stored, Suits, Busy, Only, Has

LEMMA ReplStepsKept == Typed /\ Kept /\ ReplSteps /\ Usual' => Kept'
<1> SUFFICES ASSUME Typed, Kept, ReplSteps, Usual' PROVE Kept' OBVIOUS
<1>t. /\ repl \in [pc : ReplPc, by : {"task", "menu", "upload", "cli"}, fmt : {"tar.gz", "gz", "upx"},
                    file : File \cup {NoFile}, core : Cores \cup {None}]
      /\ bin \in Packed /\ repl.fmt \in Endings /\ "raw" \in Endings /\ repl.fmt # "raw"
      /\ cfg \in Cores /\ link \in {"no", "bin", "old"} /\ (link # "no" => run = NoFile)
  BY DEF Typed, TypeOK, Endings
<1>s. ASSUME NEW p \in ReplPc, Step(p)
      PROVE  /\ repl'.pc = p /\ repl'.by = repl.by /\ repl'.fmt = repl.fmt
             /\ repl'.core = repl.core /\ repl'.file = repl.file
  BY <1>s, <1>t DEF Step
<1>p. {"archive", "core", "cfg", "env", "start"} \subseteq ReplPc BY DEF ReplPc
<1>i. IdleRepl.pc = "idle" BY DEF IdleRepl
\* While a replacement is under way a link leads to BinDir.
<1>b. Busy => /\ ~mini /\ link # "old" /\ old = Empty /\ bin["raw"] = NoFile /\ repl.core \in Cores
              /\ repl.file = Whole(repl.core) /\ Suits(repl.core) /\ (repl.by # "menu" => repl.core = cfg)
  BY DEF Kept, Agreed, Brought, Typed
<1>1. CASE Clear
  <2>1. repl.pc = "clear" /\ repl'.pc = "archive" /\ UNCHANGED <<mini, old, run, link, cfg, env, needs, start>>
        /\ repl'.core = repl.core /\ repl'.by = repl.by /\ repl'.file = repl.file
    BY <1>1, <1>s, <1>p DEF Clear, settings
  <2>2. bin' = Empty
    <3>1. bin' = [Empty EXCEPT !["raw"] = NoFile] BY <1>1, <1>b, <2>1 DEF Clear, Busy
    <3> QED BY <3>1 DEF Empty
  <2>3. Empty["raw"] = NoFile BY <1>t, EmptyIsPacked
  <2> QED BY <1>b, <2>1, <2>2, <2>3 DEF Kept, Agreed, Brought, Stored, Suits, Busy
<1>2. CASE Archive
  <2>1. repl.pc = "archive" /\ repl'.pc = "core" /\ UNCHANGED <<mini, old, run, link, cfg, env, needs, start>>
        /\ repl'.core = repl.core /\ repl'.by = repl.by /\ repl'.file = repl.file /\ repl'.fmt = repl.fmt
        /\ bin' = [bin EXCEPT ![repl.fmt] = repl.file] /\ bin = Empty
    BY <1>2, <1>s, <1>p DEF Archive, settings, Kept, Stored
  <2>2. \A f \in Endings : bin'[f] = IF f = repl.fmt THEN repl.file ELSE NoFile
    BY <1>t, <2>1, EmptyIsPacked DEF Empty
  <2>3. Only(bin', repl.file) /\ bin'[repl.fmt] = repl.file /\ bin'["raw"] = NoFile
    BY <1>t, <2>2 DEF Only
  <2> QED BY <1>b, <2>1, <2>3 DEF Kept, Agreed, Brought, Stored, Suits, Busy, Only
<1>3. CASE TaskMove
  <2>1. repl.pc = "core" /\ repl'.pc = "cfg" /\ UNCHANGED <<mini, bin, old, cfg, env, needs, start>>
        /\ repl'.core = repl.core /\ repl'.by = repl.by /\ repl'.file = repl.file /\ repl'.fmt = repl.fmt
        /\ run' = repl.file /\ link' = "no"
    BY <1>3, <1>s, <1>p DEF TaskMove, settings
  <2> QED BY <1>b, <2>1 DEF Kept, Agreed, Brought, Stored, Suits, Busy, Only
<1>4. CASE TaskCopy \/ MenuCore
  <2>1. /\ repl.pc = "core" /\ Step("cfg") /\ WriteRun(repl.file)
        /\ UNCHANGED <<mini, link, cfg, env, needs, start>>
    <3>1. CASE MenuCore BY <3>1 DEF MenuCore, settings
    <3>2. CASE TaskCopy
      <4>1. spoiled' = spoiled \cup (IF exec THEN {"busy"} ELSE IF link = "bin" THEN {"upx"} ELSE {})
        BY <3>2 DEF TaskCopy, Spoil
      <4>2. ~exec /\ link # "bin" BY <4>1 DEF Usual
      <4> QED BY <3>2, <4>2 DEF TaskCopy, settings
    <3> QED BY <1>4, <3>1, <3>2
  <2>2. /\ repl'.pc = "cfg" /\ repl'.core = repl.core /\ repl'.by = repl.by
        /\ repl'.file = repl.file /\ repl'.fmt = repl.fmt
    BY <2>1, <1>s, <1>p
  <2>3. Busy BY <2>1 DEF Busy
  <2>4. /\ bin'["raw"] = bin["raw"] /\ old' = old
        /\ Only(bin', repl.file) /\ bin'[repl.fmt] = repl.file /\ run' \in {run, repl.file}
    BY <1>b, <2>1, <2>3, WriteKept
  <2>5. run' \in {NoFile, repl.file}
    <3>1. CASE link = "no" BY <2>1, <3>1 DEF WriteRun
    <3>2. CASE link = "bin" BY <2>1, <3>2, <1>t DEF WriteRun
    <3> QED BY <1>t, <1>b, <2>3, <3>1, <3>2
  <2> QED BY <1>b, <2>1, <2>2, <2>3, <2>4, <2>5 DEF Kept, Agreed, Brought, Stored, Suits, Busy, Only
<1>6. CASE MenuCoreBusy \/ WriteFails BY <1>6 DEF MenuCoreBusy, WriteFails, Spoil, Usual
<1>7. CASE CliCore
  <2>1. /\ repl.pc = "core" /\ Busy /\ repl.by = "cli" /\ repl'.pc = "idle"
        /\ UNCHANGED <<mini, bin, old, cfg, env, needs, start>>
        /\ link' \in {link, "no"} /\ run' \in {run, repl.file}
    BY <1>7, <1>i DEF CliCore, settings, Busy
  <2>2. repl.file = Whole(cfg) /\ Whole(cfg) # NoFile BY <1>b, <1>t, <2>1, WholeIs
  <2>3. Has(bin) /\ Only(bin, Whole(cfg)) BY <1>t, <2>1, <2>2 DEF Kept, Stored, Has
  <2>4. Only(old, Whole(cfg)) BY <1>b, <2>1, OnlyEmpty
  <2> QED BY <1>b, <2>1, <2>2, <2>3, <2>4 DEF Kept, Agreed, Brought, Stored, Suits, Busy, Only, Has
<1>8. CASE SetCfg
  <2>1. repl.pc = "cfg" /\ Busy /\ repl'.pc = "env" /\ UNCHANGED <<mini, bin, old, run, link, env, needs, start>>
        /\ repl'.core = repl.core /\ repl'.by = repl.by /\ repl'.file = repl.file /\ repl'.fmt = repl.fmt
        /\ cfg' = repl.core
    BY <1>8, <1>s, <1>p DEF SetCfg, disk, Busy
  <2> QED BY <1>b, <2>1 DEF Kept, Agreed, Brought, Stored, Suits, Busy, Only
<1>9. CASE SetEnv
  <2>1. repl.pc = "env" /\ Busy /\ repl'.pc \in {"idle", "start"} /\ env' = Family(repl.core)
        /\ UNCHANGED <<mini, bin, old, run, link, cfg, needs, start>>
    BY <1>9, <1>s, <1>p, <1>i DEF SetEnv, disk, Busy
  <2>2. cfg = repl.core /\ repl.file = Whole(cfg) /\ Whole(cfg) # NoFile
    BY <1>b, <1>t, <2>1, WholeIs DEF Kept, Agreed
  <2>3. Has(bin) /\ Only(bin, Whole(cfg)) BY <1>t, <2>1, <2>2 DEF Kept, Stored, Has
  <2>4. Only(old, Whole(cfg)) BY <1>b, <2>1, OnlyEmpty
  <2>5. run \in {NoFile, Whole(cfg)} BY <2>1, <2>2 DEF Kept, Stored
  <2> QED BY <1>b, <2>1, <2>2, <2>3, <2>4, <2>5 DEF Kept, Agreed, Brought, Stored, Suits, Busy, Only, Has
<1>10. CASE StartAfter
  <2>1. repl.pc = "start" /\ Start /\ repl'.pc = "idle" BY <1>10, <1>i DEF StartAfter
  <2>2. start'.pc = "check" /\ UNCHANGED <<mini, bin, old, cfg, env, needs>>
        /\ link' \in {link, "no"} /\ run' \in {run, NoFile}
    BY <2>1 DEF Start, RemoveRun, settings
  <2> QED BY <2>1, <2>2 DEF Kept, Agreed, Brought, Stored, Suits, Busy, Only, Has
<1> QED BY <1>1, <1>2, <1>3, <1>4, <1>6, <1>7, <1>8, <1>9, <1>10 DEF ReplSteps

LEMMA BeginKept ==
    ASSUME Kept, Usual', NEW by, NEW fmt, NEW core, NEW reasons,
           Begin(by, fmt, Whole(core), core, reasons), by # "menu" => core = cfg
    PROVE  Kept'
<1>1. /\ repl.pc = "idle" /\ UNCHANGED <<mini, bin, old, run, link, cfg, env, needs, start>>
      /\ repl' = [pc |-> "clear", by |-> by, fmt |-> fmt, file |-> Whole(core), core |-> core]
  BY DEF Begin, disk, settings
<1>2. bin["raw"] = NoFile /\ ~mini /\ ~Switches(core)
  <2>1. /\ bin["raw"] # NoFile => "raw" \in spoiled'
        /\ mini => "flash" \in spoiled'
        /\ Switches(core) => "config" \in spoiled'
    BY DEF Begin, Spoil
  <2> QED BY <2>1 DEF Usual
<1>3. Suits(core) BY <1>2 DEF Suits, Switches
<1>4. Agreed' BY <1>1 DEF Kept, Agreed, Suits
<1>5. Brought' BY <1>1, <1>2, <1>3 DEF Brought, Busy, Suits
<1>6. Stored' BY <1>1 DEF Kept, Stored, Only, Has
<1> QED BY <1>4, <1>5, <1>6 DEF Kept

\* core-find links or unpacks the one file BinDir holds.
LEMMA FindKept == Typed /\ Kept /\ CliFind /\ Usual' => Kept'
<1> SUFFICES ASSUME Typed, Kept, CliFind, Usual' PROVE Kept' OBVIOUS
<1>1. ~mini
  <2>1. mini => "flash" \in spoiled' BY DEF CliFind, Spoil
  <2> QED BY <2>1 DEF Usual
<1>2. /\ repl.pc = "idle" /\ link = "no" /\ RunFile = NoFile /\ old' = old
      /\ UNCHANGED <<mini, cfg, env, needs, start, repl>>
  BY <1>1 DEF CliFind, settings
<1> DEFINE here == [f \in Endings |-> IF mini /\ f # "raw" /\ old[f] # NoFile THEN old[f] ELSE bin[f]]
<1>3. here = bin BY <1>1 DEF Typed, TypeOK, Packed
<1>4. PICK f \in {f \in DOMAIN FindRank : here[f] # NoFile} :
        /\ bin' = here
        /\ IF f = "upx" THEN link' = "bin" /\ UNCHANGED run
           ELSE run' \in (IF here[f].ok THEN {here[f]} ELSE {NoFile, here[f]}) /\ UNCHANGED link
  BY DEF CliFind
<1>5. f \in Endings /\ here[f] # NoFile BY DEF FindRank
<1>6. bin[f] = Whole(cfg) BY <1>2, <1>3, <1>5 DEF Kept, Stored, Only
<1>7. run = NoFile BY <1>2 DEF RunFile
<1>8. bin' = bin /\ run' \in {NoFile, Whole(cfg)} /\ link' \in {"no", "bin"}
  <2> HIDE DEF here
  <2> QED BY <1>2, <1>3, <1>4, <1>6, <1>7
<1> QED BY <1>1, <1>2, <1>8 DEF Kept, Agreed, Brought, Stored, Suits, Busy, Only, Has

LEMMA WriterKept ==
    Typed /\ Kept /\ Usual' /\ (TaskAccept \/ TaskRefuse \/ MenuInstall \/ CliInstall \/ CliFind \/ Upload)
    => Kept'
<1> SUFFICES ASSUME Typed, Kept, Usual',
                    TaskAccept \/ TaskRefuse \/ MenuInstall \/ CliInstall \/ CliFind \/ Upload
             PROVE  Kept'
  OBVIOUS
<1>1. ASSUME NEW by \in {"task", "cli"}, NEW fmt \in Formats, NEW c \in Cores,
             Begin(by, fmt, [core |-> c, ok |-> TRUE], cfg, IF c # cfg THEN {"flavour"} ELSE {})
      PROVE  Kept'
  <2>1. c = cfg
    <3>1. c # cfg => "flavour" \in spoiled' BY <1>1 DEF Begin, Spoil
    <3> QED BY <3>1 DEF Usual
  <2>2. Begin(by, fmt, Whole(cfg), cfg, IF c # cfg THEN {"flavour"} ELSE {}) BY <1>1, <2>1 DEF Whole
  <2> QED BY <2>2, BeginKept
<1>2. CASE TaskAccept BY <1>1, <1>2 DEF TaskAccept
<1>3. CASE CliInstall BY <1>1, <1>3 DEF CliInstall
<1>4. CASE MenuInstall
  <2>1. PICK fmt \in Formats, c \in Cores, whole \in BOOLEAN :
          Begin("menu", fmt, [core |-> c, ok |-> whole], c, IF whole THEN {} ELSE {"upload"})
    BY <1>4 DEF MenuInstall
  <2>2. whole = TRUE
    <3>1. ~whole => "upload" \in spoiled' BY <2>1 DEF Begin, Spoil
    <3> QED BY <3>1 DEF Usual
  <2>3. Begin("menu", fmt, Whole(c), c, IF whole THEN {} ELSE {"upload"}) BY <2>1, <2>2 DEF Whole
  <2> QED BY <2>3, BeginKept
<1>5. CASE TaskRefuse
  <2>1. repl'.pc = "start" BY <1>5 DEF TaskRefuse, IdleRepl
  <2> QED BY <1>5, <2>1, ThroughKept DEF TaskRefuse, disk, settings
<1>6. CASE CliFind BY <1>6, FindKept
<1>7. CASE Upload BY <1>7 DEF Upload, Spoil, Usual
<1> QED BY <1>2, <1>3, <1>4, <1>5, <1>6, <1>7

LEMMA OtherKept ==
    Typed /\ Kept /\ Usual' /\ (StartAlone \/ HotUpdate \/ Stop \/ NewConfig \/ Reboot) => Kept'
<1> SUFFICES ASSUME Typed, Kept, Usual', StartAlone \/ HotUpdate \/ Stop \/ NewConfig \/ Reboot
             PROVE  Kept'
  OBVIOUS
<1>1. CASE StartAlone BY <1>1, StartKept DEF StartAlone
<1>2. CASE HotUpdate \/ Stop
  BY <1>2, RemoveKept DEF HotUpdate, Stop, settings, Kept, Agreed
<1>3. CASE NewConfig
  <2>1. repl.pc = "idle" /\ UNCHANGED <<mini, bin, old, run, link, cfg, env, start, repl>>
    BY <1>3 DEF NewConfig, AtRest, disk, settings
  <2>2. Family(cfg) \notin needs'
    <3>1. Family(cfg) \in needs' => "config" \in spoiled' BY <1>3 DEF NewConfig, Spoil
    <3> QED BY <3>1 DEF Usual
  <2> QED BY <2>1, <2>2 DEF Kept, Agreed, Brought, Stored, Suits, Busy, Only, Has
<1>4. CASE Reboot
  <2>1. AtRest
    <3>1. ~AtRest => "cut" \in spoiled' BY <1>4 DEF Reboot, Spoil
    <3> QED BY <3>1 DEF Usual
  <2>2. /\ repl.pc = "idle" /\ run' = NoFile /\ link' = "no" /\ UNCHANGED <<mini, old, cfg, env, needs>>
        /\ IF mini THEN bin' = Empty ELSE UNCHANGED bin
        /\ start'.pc = "idle" /\ repl'.pc = "idle"
    BY <1>4, <2>1 DEF Reboot, AtRest, RemoveRun, settings, IdleStart, IdleRepl
  <2>3. Only(bin', Whole(cfg)) BY <2>2, OnlyEmpty DEF Kept, Stored
  <2> QED BY <2>2, <2>3 DEF Kept, Agreed, Brought, Stored, Suits, Busy, Only, Has
<1> QED BY <1>1, <1>2, <1>3, <1>4

LEMMA KeptHolds == Spec => [](Typed /\ (Usual => Kept))
<1> DEFINE Good == Typed /\ (Usual => Kept)
<1>1. Init => Good BY InitType, InitKept
<1>2. Good /\ [Next]_vars => Good'
  <2> SUFFICES ASSUME Typed, Usual => Kept, [Next]_vars, Usual' PROVE Kept'
    BY NextType
  <2>1. Kept BY UsualBefore
  <2>2. CASE UNCHANGED vars
    <3>1. UNCHANGED <<mini, bin, old, run, link, cfg, env, needs, repl, start>> BY <2>2 DEF vars, disk, settings
    <3> QED BY <2>1, <3>1, SameKept DEF Kept, Agreed
  <2> QED BY <2>1, <2>2, StartStepsKept, ReplStepsKept, WriterKept, OtherKept DEF Next
<1> HIDE DEF Good
<1>3. Spec => []Good BY <1>1, <1>2, PTL DEF Spec
<1> QED BY <1>3 DEF Good

\* With nothing under way and nothing excepted, the file the next start takes,
\* whether it finds TmpDir/CrashCore or unpacks one, is the whole configured core.
LEMMA NextIsConfigured ==
    ASSUME Typed, Kept, AtRest
    PROVE  NextCore = Whole(cfg)
<1>1. /\ Only(bin, Whole(cfg)) /\ Only(old, Whole(cfg)) /\ run \in {NoFile, Whole(cfg)}
      /\ IF mini THEN Has(old) ELSE Has(bin)
  BY DEF Kept, Stored, AtRest
<1>2. cfg \in Cores /\ "upx" \in Endings /\ link \in {"no", "bin", "old"} BY DEF Typed, TypeOK, Endings
<1>3. RunFile \in {NoFile, Whole(cfg)} BY <1>1, <1>2 DEF RunFile, Only
<1>4. /\ Takes(bin) # {} => bin[FirstOf(bin)] = Whole(cfg)
      /\ Takes(old) # {} => old[FirstOf(old)] = Whole(cfg)
      /\ IF mini THEN Takes(old) # {} ELSE Takes(bin) # {}
  BY <1>1, <1>2, WholeTaken DEF Has
<1>5. Candidate = Whole(cfg) BY <1>4 DEF Candidate
<1> QED BY <1>3, <1>5 DEF NextCore

\* However starts and replacements overlapped, once nothing is under way the next
\* start brings the service up, unless one of the excepted steps was taken.
THEOREM StartableStays == Spec => []StartableAtRest
<1>1. Typed /\ (Usual => Kept) => StartableAtRest
  <2> SUFFICES ASSUME Typed, Kept, AtRest PROVE Startable
    BY DEF StartableAtRest, Usual
  <2>1. NextCore = Whole(cfg) BY NextIsConfigured
  <2>2. env = Family(cfg) /\ Suits(cfg) BY DEF Kept, Agreed, AtRest
  <2> QED BY <2>1, <2>2 DEF Startable, Runs, Whole, Suits
<1> QED BY <1>1, KeptHolds, PTL

-----------------------------------------------------------------------------
(* The menu's installation repairs *)

\* The menu is installing a whole core, no start has switched cores during an
\* installation, and no bare core lies in BinDir.
Installing ==
    /\ repl.by = "menu" /\ repl.pc \in {"archive", "core", "cfg", "env"}
    /\ "raced" \notin spoiled /\ bin["raw"] = NoFile /\ repl.file.ok
\* Whatever there was before: no archive but the new one, from Archive on the new
\* one, from MenuCore on no other TmpDir/CrashCore.  A .upx that a link wrote may
\* be there beside it: it comes last.
Replaced ==
    /\ \A f \in {"tar.gz", "gz"} : bin[f] # NoFile => f = repl.fmt
    /\ repl.pc # "archive" => bin[repl.fmt] = repl.file
    /\ repl.pc \in {"cfg", "env"} => RunFile \in {NoFile, repl.file}
    /\ repl.pc = "env" => cfg = repl.core
\* A start that switches cores beside a replacement has said so; the menu
\* installs the core it names.
Chosen ==
    /\ start.pc \in {"sw_cfg", "sw_env"} /\ Busy => "raced" \in spoiled
    /\ repl.by = "menu" /\ Busy => repl.file.core = repl.core
Repairing == Typed /\ Chosen /\ (Installing => Replaced)

\* Once the new archive is there it is what a start takes from BinDir.
LEMMA NewIsFirst ==
    ASSUME Repairing, Installing, repl.pc # "archive"
    PROVE  Takes(bin) # {} /\ FirstOf(bin) = repl.fmt /\ bin[FirstOf(bin)] = repl.file
<1>1. repl.fmt \in {"tar.gz", "gz", "upx"} /\ repl.fmt \in Endings /\ repl.file \in File
  BY DEF Repairing, Typed, TypeOK, Installing, Busy, Endings
<1>2. bin[repl.fmt] = repl.file /\ repl.file # NoFile BY <1>1, NoFileIsNone DEF Repairing, Replaced
<1>3. repl.fmt \in Takes(bin) BY <1>1, <1>2 DEF Takes, Accepted, Installing
<1>4. \A f \in Takes(bin) : f = repl.fmt \/ f = "upx"
  BY DEF Takes, Accepted, Endings, Installing, Repairing, Replaced
<1>5. FirstOf(bin) \in Takes(bin) /\ Rank[FirstOf(bin)] <= Rank[repl.fmt] BY <1>3, FirstTaken
<1>6. FirstOf(bin) = repl.fmt BY <1>1, <1>4, <1>5, RankIs
<1> QED BY <1>2, <1>3, <1>6

\* A write through TmpDir/CrashCore is what RunFile sees; of BinDir it can change
\* the .upx alone.
LEMMA WriteRunFile ==
    ASSUME Typed, NEW file, WriteRun(file), link' = link
    PROVE  /\ RunFile' = file
           /\ \A f \in Endings \ {"upx"} : bin'[f] = bin[f]
           /\ link # "bin" => bin' = bin
           /\ bin'["upx"] \in {bin["upx"], file}
<1>1. "upx" \in Endings /\ bin \in Packed /\ old \in Packed /\ link \in {"no", "bin", "old"}
  BY DEF Endings, Typed, TypeOK
<1>2. CASE link = "no" BY <1>1, <1>2 DEF WriteRun, RunFile
<1>3. CASE link = "bin"
  <2>1. bin' = [bin EXCEPT !["upx"] = file] BY <1>3 DEF WriteRun
  <2>2. bin'["upx"] = file /\ \A f \in Endings \ {"upx"} : bin'[f] = bin[f] BY <1>1, <2>1 DEF Packed
  <2>3. RunFile' = bin'["upx"] BY <1>3 DEF RunFile
  <2> QED BY <1>3, <2>2, <2>3
<1>4. CASE link = "old"
  <2>1. old' = [old EXCEPT !["upx"] = file] /\ bin' = bin BY <1>4 DEF WriteRun
  <2>2. old'["upx"] = file BY <1>1, <2>1 DEF Packed
  <2>3. RunFile' = old'["upx"] BY <1>4 DEF RunFile
  <2> QED BY <2>1, <2>2, <2>3
<1> QED BY <1>1, <1>2, <1>3, <1>4

\* A step that leaves BinDir, the settings and the replacement alone, and
\* TmpDir/CrashCore too or without a file.
LEMMA SameReplaced ==
    ASSUME Installing => Replaced, spoiled \subseteq spoiled', UNCHANGED <<bin, cfg, repl>>,
           RunFile' \in {RunFile, NoFile}, Installing'
    PROVE  Replaced'
<1>1. Installing BY DEF Installing
<1> QED BY <1>1 DEF Replaced

LEMMA RemovedIsNone == RemoveRun => RunFile' = NoFile
  BY DEF RemoveRun, RunFile

\* A start during an installation takes the new core, if any.
LEMMA UnpackReplaced ==
    ASSUME Repairing, Typed', spoiled \subseteq spoiled', EnsureUnpacks, Installing'
    PROVE  Replaced'
<1>1. /\ UNCHANGED <<mini, cfg, repl>> /\ RunFile = NoFile BY DEF EnsureUnpacks, settings
<1>2. PICK dir \in {bin, old}, name \in {"bin", "old"} :
        /\ Takes(dir) # {} /\ Unpack(dir, name)
        /\ (dir = bin /\ name = "bin") \/ Takes(bin) = {}
  <2>1. CASE Takes(bin) # {} /\ Unpack(bin, "bin") BY <2>1
  <2>2. CASE Takes(bin) = {} /\ Takes(old) # {} /\ Unpack(old, "old") BY <2>2
  <2> QED BY <2>1, <2>2 DEF EnsureUnpacks
<1>3. CASE FirstOf(dir) = "upx"
  <2>1. link' = name /\ run' = NoFile /\ UNCHANGED <<bin, old>> BY <1>2, <1>3 DEF Unpack
  <2>2. Installing BY <1>1, <2>1 DEF Installing
  <2>3. Replaced BY <2>2 DEF Repairing
  <2>4. repl.pc # "archive" => RunFile' = repl.file
    <3> SUFFICES ASSUME repl.pc # "archive" PROVE RunFile' = repl.file OBVIOUS
    <3>1. Takes(bin) # {} /\ bin[FirstOf(bin)] = repl.file BY <2>2, NewIsFirst
    <3>2. dir = bin /\ name = "bin" BY <1>2, <3>1
    <3> QED BY <1>3, <2>1, <3>1, <3>2 DEF RunFile
  <2> QED BY <1>1, <2>1, <2>3, <2>4 DEF Replaced
<1>4. CASE FirstOf(dir) # "upx"
  <2>1. WriteRun(dir[FirstOf(dir)]) /\ link' = link BY <1>2, <1>4 DEF Unpack
  <2>2. /\ RunFile' = dir[FirstOf(dir)]
        /\ \A f \in Endings \ {"upx"} : bin'[f] = bin[f]
        /\ link # "bin" => bin' = bin
    BY <2>1, WriteRunFile DEF Repairing
  <2>3. {"raw", "tar.gz", "gz"} \subseteq Endings \ {"upx"} BY DEF Endings
  <2>4. Installing BY <1>1, <2>2, <2>3 DEF Installing
  <2>5. Replaced BY <2>4 DEF Repairing
  <2>6. \A f \in {"tar.gz", "gz"} : bin'[f] # NoFile => f = repl'.fmt
    BY <1>1, <2>2, <2>3, <2>5 DEF Replaced
  <2>7. repl.pc # "archive" => RunFile' = repl.file /\ bin'[repl.fmt] = repl.file
    <3> SUFFICES ASSUME repl.pc # "archive" PROVE RunFile' = repl.file /\ bin'[repl.fmt] = repl.file OBVIOUS
    <3>1. Takes(bin) # {} /\ bin[FirstOf(bin)] = repl.file /\ FirstOf(bin) = repl.fmt BY <2>4, NewIsFirst
    <3>2. dir = bin BY <1>2, <3>1
    <3>3. repl.fmt \in Endings \ {"upx"} BY <1>4, <3>1, <3>2, FirstTaken
    <3> QED BY <2>2, <3>1, <3>2, <3>3
  <2> QED BY <1>1, <2>5, <2>6, <2>7 DEF Replaced
<1> QED BY <1>3, <1>4

LEMMA StartStepsReplaced ==
    Repairing /\ StartSteps /\ Typed' /\ spoiled \subseteq spoiled' /\ Installing' => Replaced'
<1> SUFFICES ASSUME Repairing, StartSteps, Typed', spoiled \subseteq spoiled', Installing' PROVE Replaced'
  OBVIOUS
<1>0. Installing => Replaced BY DEF Repairing
<1>1. CASE CheckKeeps \/ EnsureHas \/ Launch
  <2>1. UNCHANGED <<bin, old, run, link, cfg, repl>>
    BY <1>1 DEF CheckKeeps, EnsureHas, Launch, disk, settings
  <2>2. RunFile' = RunFile BY <2>1 DEF RunFile
  <2> QED BY <1>0, <2>1, <2>2, SameReplaced
<1>2. CASE SwitchDelete BY <1>2 DEF SwitchDelete, Spoil, Installing, Busy
<1>3. CASE SwitchCfg \/ SwitchEnv
  BY <1>3 DEF SwitchCfg, SwitchEnv, Installing, Repairing, Chosen, Busy
<1>4. CASE EnsureUnpacks BY <1>4, UnpackReplaced
<1>5. CASE EnsureFails
  <2>1. UNCHANGED <<link, cfg, repl>> /\ Takes(bin) = {} /\ spoiled' = spoiled BY <1>5 DEF EnsureFails, settings
  <2>2. \A f \in Endings \ {"upx"} : bin'[f] = bin[f]
    <3>1. CASE UNCHANGED <<bin, old, run>> BY <3>1
    <3>2. ASSUME NEW file, WriteRun(file) PROVE \A f \in Endings \ {"upx"} : bin'[f] = bin[f]
      BY <2>1, <3>2, WriteRunFile DEF Repairing
    <3> QED BY <1>5, <3>1, <3>2 DEF EnsureFails
  <2>3. {"raw", "tar.gz", "gz"} \subseteq Endings \ {"upx"} BY DEF Endings
  <2>4. Installing BY <2>1, <2>2, <2>3 DEF Installing
  <2>5. repl.pc = "archive" BY <2>1, <2>4, NewIsFirst
  <2> QED BY <1>0, <2>1, <2>2, <2>3, <2>4, <2>5 DEF Replaced
<1>6. CASE LaunchFails
  <2>1. UNCHANGED <<bin, cfg, repl>> /\ RemoveRun BY <1>6 DEF LaunchFails, settings
  <2> QED BY <1>0, <2>1, RemovedIsNone, SameReplaced
<1> QED BY <1>1, <1>2, <1>3, <1>4, <1>5, <1>6 DEF StartSteps

LEMMA StartReplaced ==
    ASSUME Repairing, Start, repl' = repl, spoiled \subseteq spoiled', Installing'
    PROVE  Replaced'
<1>1. UNCHANGED <<bin, old, cfg>> BY DEF Start, settings
<1>2. RunFile' \in {RunFile, NoFile}
  <2>1. CASE live # None BY <2>1, RemovedIsNone DEF Start
  <2>2. CASE live = None BY <1>1, <2>2 DEF Start, RunFile
  <2> QED BY <2>1, <2>2
<1> QED BY <1>1, <1>2, SameReplaced DEF Repairing

LEMMA ReplStepsReplaced ==
    Repairing /\ ReplSteps /\ spoiled \subseteq spoiled' /\ Installing' => Replaced'
<1> SUFFICES ASSUME Repairing, ReplSteps, spoiled \subseteq spoiled', Installing' PROVE Replaced'
  OBVIOUS
<1>0. Installing => Replaced BY DEF Repairing
<1>t. /\ repl \in [pc : ReplPc, by : {"task", "menu", "upload", "cli"}, fmt : {"tar.gz", "gz", "upx"},
                    file : File \cup {NoFile}, core : Cores \cup {None}]
      /\ bin \in Packed /\ repl.fmt \in Endings /\ {"raw", "tar.gz", "gz", "upx"} = Endings /\ repl.fmt # "raw"
  BY DEF Repairing, Typed, TypeOK, Endings
<1>s. ASSUME NEW p \in ReplPc, Step(p)
      PROVE  /\ repl'.pc = p /\ repl'.by = repl.by /\ repl'.fmt = repl.fmt
             /\ repl'.core = repl.core /\ repl'.file = repl.file
  BY <1>s, <1>t DEF Step
<1>p. {"archive", "core", "cfg", "env", "start"} \subseteq ReplPc BY DEF ReplPc
<1>i. IdleRepl.pc = "idle" BY DEF IdleRepl
<1>1. CASE Clear
  <2>1. repl'.pc = "archive" /\ bin' = [Empty EXCEPT !["raw"] = bin["raw"]] BY <1>1, <1>s, <1>p DEF Clear
  <2>2. bin'["tar.gz"] = NoFile /\ bin'["gz"] = NoFile BY <1>t, <2>1, EmptyIsPacked DEF Packed
  <2> QED BY <2>1, <2>2 DEF Replaced
<1>2. CASE Archive
  <2>1. /\ repl.pc = "archive" /\ repl'.pc = "core" /\ repl'.by = repl.by /\ repl'.fmt = repl.fmt
        /\ repl'.file = repl.file /\ bin' = [bin EXCEPT ![repl.fmt] = repl.file]
    BY <1>2, <1>s, <1>p DEF Archive
  <2>2. bin'[repl.fmt] = repl.file /\ \A f \in Endings \ {repl.fmt} : bin'[f] = bin[f]
    BY <1>t, <2>1 DEF Packed
  <2>3. Installing BY <1>t, <2>1, <2>2 DEF Installing
  <2> QED BY <1>0, <1>t, <2>1, <2>2, <2>3 DEF Replaced
<1>3. CASE TaskMove \/ TaskCopy \/ CliCore
  <2>1. repl'.by = repl.by \/ repl'.pc = "idle"
    BY <1>3, <1>s, <1>p, <1>i DEF TaskMove, TaskCopy, CliCore
  <2> QED BY <1>3, <2>1 DEF TaskMove, TaskCopy, CliCore, Installing
<1>4. CASE MenuCore
  <2>1. /\ repl.pc = "core" /\ repl'.pc = "cfg" /\ repl'.by = repl.by /\ repl'.fmt = repl.fmt
        /\ repl'.file = repl.file /\ WriteRun(repl.file) /\ link' = link
    BY <1>4, <1>s, <1>p DEF MenuCore
  <2>2. /\ RunFile' = repl.file
        /\ \A f \in Endings \ {"upx"} : bin'[f] = bin[f]
        /\ bin'["upx"] \in {bin["upx"], repl.file}
    BY <2>1, WriteRunFile DEF Repairing
  <2>3. Installing BY <1>t, <2>1, <2>2 DEF Installing
  <2>4. Replaced BY <1>0, <2>3
  <2>5. bin'[repl.fmt] = repl.file BY <1>t, <2>1, <2>2, <2>4 DEF Replaced
  <2>6. \A f \in {"tar.gz", "gz"} : bin'[f] # NoFile => f = repl'.fmt
    BY <1>t, <2>1, <2>2, <2>4 DEF Replaced
  <2> QED BY <2>1, <2>2, <2>5, <2>6 DEF Replaced
<1>5. CASE SetCfg
  <2>1. /\ repl.pc = "cfg" /\ repl'.pc = "env" /\ repl'.by = repl.by /\ repl'.fmt = repl.fmt
        /\ repl'.file = repl.file /\ repl'.core = repl.core /\ cfg' = repl.core
        /\ UNCHANGED <<bin, old, run, link>> /\ spoiled' = spoiled
    BY <1>5, <1>s, <1>p DEF SetCfg, disk
  <2>2. Replaced BY <1>0, <2>1 DEF Installing
  <2>3. RunFile' = RunFile BY <2>1 DEF RunFile
  <2> QED BY <2>1, <2>2, <2>3 DEF Replaced
<1>6. CASE MenuCoreBusy \/ SetEnv \/ StartAfter \/ WriteFails
  <2>1. repl'.pc \in {"idle", "start"} BY <1>6, <1>s, <1>p, <1>i DEF MenuCoreBusy, SetEnv, StartAfter, WriteFails
  <2> QED BY <2>1 DEF Installing
<1> QED BY <1>1, <1>2, <1>3, <1>4, <1>5, <1>6 DEF ReplSteps

LEMMA BeginIs ==
    ASSUME NEW by, NEW fmt, NEW file, NEW core, NEW reasons, Begin(by, fmt, file, core, reasons)
    PROVE  /\ repl'.pc = "clear" /\ repl'.by = by /\ repl'.file = file /\ repl'.core = core
           /\ start' = start
           /\ start.pc \in {"sw_cfg", "sw_env"} => "raced" \in spoiled'
  BY DEF Begin, Spoil

LEMMA NextReplaced == Repairing /\ [Next]_vars /\ Typed' /\ Installing' => Replaced'
<1> SUFFICES ASSUME Repairing, [Next]_vars, Typed', Installing' PROVE Replaced' OBVIOUS
<1>0. spoiled \subseteq spoiled' BY SpoiledStays
<1>1. CASE StartSteps BY <1>0, <1>1, StartStepsReplaced
<1>2. CASE ReplSteps BY <1>0, <1>2, ReplStepsReplaced
<1>3. CASE StartAlone BY <1>0, <1>3, StartReplaced DEF StartAlone
<1>4. CASE HotUpdate \/ Stop
  <2>1. UNCHANGED <<bin, cfg, repl>> /\ RemoveRun BY <1>4 DEF HotUpdate, Stop, settings
  <2> QED BY <1>0, <2>1, RemovedIsNone, SameReplaced DEF Repairing
<1>5. CASE NewConfig \/ UNCHANGED vars
  <2>1. UNCHANGED <<bin, old, run, link, cfg, repl>> BY <1>5 DEF NewConfig, vars, disk, settings
  <2>2. RunFile' = RunFile BY <2>1 DEF RunFile
  <2> QED BY <1>0, <2>1, <2>2, SameReplaced DEF Repairing
<1>6. CASE TaskAccept \/ MenuInstall \/ CliInstall
  <2>1. repl'.pc = "clear" BY <1>6, BeginIs DEF TaskAccept, MenuInstall, CliInstall
  <2> QED BY <2>1 DEF Installing
<1>7. CASE TaskRefuse \/ Upload \/ Reboot
  <2>1. CASE TaskRefuse BY <2>1 DEF TaskRefuse, IdleRepl, Installing
  <2>2. CASE Upload BY <2>2 DEF Upload, IdleRepl, Installing
  <2>3. CASE Reboot BY <2>3 DEF Reboot, IdleRepl, Installing
  <2> QED BY <1>7, <2>1, <2>2, <2>3
<1>8. CASE CliFind BY <1>8 DEF CliFind, Installing
<1> QED BY <1>1, <1>2, <1>3, <1>4, <1>5, <1>6, <1>7, <1>8 DEF Next

LEMMA NextChosen == Typed /\ Chosen /\ [Next]_vars => Chosen'
<1> SUFFICES ASSUME Typed, Chosen, [Next]_vars PROVE Chosen' OBVIOUS
<1>0. spoiled \subseteq spoiled' BY SpoiledStays
<1>t. /\ start \in [pc : StartPc, core : Cores \cup {None}, env : Families]
      /\ repl \in [pc : ReplPc, by : {"task", "menu", "upload", "cli"}, fmt : {"tar.gz", "gz", "upx"},
                    file : File \cup {NoFile}, core : Cores \cup {None}]
  BY DEF Typed, TypeOK
<1>s. ASSUME NEW p \in ReplPc, Step(p)
      PROVE  /\ repl'.pc = p /\ repl'.by = repl.by
             /\ repl'.core = repl.core /\ repl'.file = repl.file
  BY <1>s, <1>t DEF Step
<1>g. ASSUME NEW p \in StartPc, Goto(p) PROVE start'.pc = p BY <1>g, <1>t DEF Goto
<1>p. {"archive", "core", "cfg", "env", "start"} \subseteq ReplPc /\ {"ensure", "launch", "sw_env"} \subseteq StartPc
  BY DEF ReplPc, StartPc
<1>i. IdleRepl.pc = "idle" /\ IdleStart.pc = "idle" BY DEF IdleRepl, IdleStart
<1>1. CASE StartSteps
  <2>1. repl' = repl
    BY <1>1 DEF StartSteps, CheckKeeps, SwitchDelete, SwitchCfg, SwitchEnv, EnsureHas,
       EnsureUnpacks, EnsureFails, Launch, LaunchFails
  <2>2. start'.pc \in {"sw_cfg", "sw_env"} /\ Busy => "raced" \in spoiled'
    <3>1. CASE SwitchDelete BY <3>1 DEF SwitchDelete, Spoil, Busy
    <3>2. CASE SwitchCfg \/ SwitchEnv BY <1>0, <3>2 DEF SwitchCfg, SwitchEnv, Chosen
    <3>3. CASE CheckKeeps \/ EnsureHas \/ EnsureUnpacks \/ EnsureFails \/ Launch \/ LaunchFails
      BY <1>g, <1>p, <1>i, <3>3 DEF CheckKeeps, EnsureHas, EnsureUnpacks, EnsureFails, Launch, LaunchFails
    <3> QED BY <1>1, <3>1, <3>2, <3>3 DEF StartSteps
  <2> QED BY <2>1, <2>2 DEF Chosen, Busy
<1>2. CASE ReplSteps
  <2>1. start' = start \/ start'.pc = "check"
    BY <1>2 DEF ReplSteps, Clear, Archive, TaskMove, TaskCopy, MenuCore, MenuCoreBusy, CliCore,
       WriteFails, SetCfg, SetEnv, StartAfter, Start
  <2>2. \/ repl'.pc \in {"idle", "start"}
        \/ Busy /\ repl'.by = repl.by /\ repl'.core = repl.core /\ repl'.file = repl.file
    BY <1>2, <1>s, <1>p, <1>i DEF ReplSteps, Clear, Archive, TaskMove, TaskCopy, MenuCore, MenuCoreBusy,
       CliCore, WriteFails, SetCfg, SetEnv, StartAfter, Busy
  <2> QED BY <1>0, <2>1, <2>2 DEF Chosen, Busy
<1>3. CASE StartAlone \/ HotUpdate \/ Stop \/ NewConfig \/ Reboot \/ UNCHANGED vars
  <2>1. start' = start \/ start'.pc \in {"check", "idle"}
    BY <1>3, <1>i DEF StartAlone, HotUpdate, Stop, NewConfig, Reboot, vars, Start
  <2>2. repl' = repl \/ repl'.pc = "idle"
    BY <1>3, <1>i DEF StartAlone, HotUpdate, Stop, NewConfig, Reboot, vars
  <2> QED BY <1>0, <2>1, <2>2 DEF Chosen, Busy
<1>4. CASE TaskAccept \/ CliInstall
  <2>1. /\ \E by \in {"task", "cli"} : repl'.by = by
        /\ start.pc \in {"sw_cfg", "sw_env"} => "raced" \in spoiled'
        /\ start' = start
    <3>1. CASE TaskAccept BY <3>1, BeginIs DEF TaskAccept
    <3>2. CASE CliInstall BY <3>2, BeginIs DEF CliInstall
    <3> QED BY <1>4, <3>1, <3>2
  <2> QED BY <1>0, <2>1 DEF Chosen
<1>5. CASE MenuInstall
  <2>1. /\ start' = start /\ repl'.file.core = repl'.core
        /\ start.pc \in {"sw_cfg", "sw_env"} => "raced" \in spoiled'
    BY <1>5, BeginIs DEF MenuInstall
  <2> QED BY <1>0, <2>1 DEF Chosen
<1>6. CASE TaskRefuse \/ CliFind \/ Upload
  <2>1. start' = start /\ (repl' = repl \/ repl'.pc = "start") BY <1>6 DEF TaskRefuse, CliFind, Upload, IdleRepl
  <2> QED BY <1>0, <2>1 DEF Chosen, Busy
<1> QED BY <1>1, <1>2, <1>3, <1>4, <1>5, <1>6 DEF Next

LEMMA RepairingHolds == Spec => []Repairing
<1>1. Init => Repairing
  BY InitType DEF Init, Repairing, Chosen, Installing, IdleRepl, IdleStart, Busy
<1>2. Repairing /\ [Next]_vars => Repairing'
  BY NextType, NextChosen, NextReplaced DEF Repairing
<1> QED BY <1>1, <1>2, PTL DEF Spec

\* Whatever was on disk before, and however starts ran in between: when the menu
\* has installed a whole core that suits the configuration, that core is what the
\* next start brings up.
THEOREM MenuRepairs == Spec => InstallRepairs
<1> DEFINE Repair ==
      repl.by = "menu" /\ SetEnv /\ start.pc = "idle" /\ "raced" \notin spoiled
        /\ repl.file.ok /\ bin["raw"] = NoFile /\ ~Switches(repl.core)
      => Startable' /\ NextCore' = repl.file
<1>1. Repairing /\ [Next]_vars => [Repair]_vars
  <2> SUFFICES ASSUME Repairing, repl.by = "menu", SetEnv, "raced" \notin spoiled,
                      repl.file.ok, bin["raw"] = NoFile, ~Switches(repl.core)
               PROVE  Startable' /\ NextCore' = repl.file
    OBVIOUS
  <2>1. repl.pc = "env" /\ UNCHANGED <<mini, bin, old, run, link, cfg, needs, live>> /\ env' = Family(repl.core)
    BY DEF SetEnv, disk
  <2>2. Installing /\ Replaced BY <2>1 DEF Installing, Repairing
  <2>3. RunFile' \in {NoFile, repl.file} /\ cfg' = repl.core
    BY <2>1, <2>2 DEF Replaced, RunFile
  <2>4. Candidate' = repl.file
    <3>1. Candidate' = Candidate BY <2>1 DEF Candidate, FirstOf, Takes, Accepted
    <3> QED BY <2>1, <2>2, <3>1, NewIsFirst DEF Candidate
  <2>5. NextCore' = repl.file BY <2>3, <2>4 DEF NextCore
  <2>6. repl.file.core = repl.core BY <2>1 DEF Repairing, Chosen, Busy
  <2>7. Startable' BY <2>1, <2>3, <2>5, <2>6 DEF Startable, Runs, Switches
  <2> QED BY <2>5, <2>7
<1>2. Spec => [][Next]_vars BY PTL DEF Spec
<1> HIDE DEF Repair
<1>3. Spec => [][Repair]_vars BY <1>1, <1>2, RepairingHolds, PTL
<1> QED BY <1>3 DEF Repair, InstallRepairs

-----------------------------------------------------------------------------
(* A start fails only after an exception *)

\* A start under way works on the core that is still configured: no replacement
\* runs beside it, and it has found TmpDir/CrashCore before it launches it.
Onward ==
    start.pc # "idle" /\ spoiled = {} =>
        /\ ~Busy /\ start.core = cfg /\ start.env = env
        /\ start.pc = "launch" => RunFile # NoFile
Serving == Typed /\ (Usual => Kept) /\ Onward

\* With no replacement running every file there is is the configured core, and a
\* start has one to take.
LEMMA Stocked ==
    ASSUME Typed, Kept, ~Busy
    PROVE  /\ RunFile \in {NoFile, Whole(cfg)}
           /\ Takes(bin) # {} => bin[FirstOf(bin)] = Whole(cfg)
           /\ Takes(old) # {} => old[FirstOf(old)] = Whole(cfg)
           /\ IF mini THEN Takes(old) # {} ELSE Takes(bin) # {}
<1>1. /\ Only(bin, Whole(cfg)) /\ Only(old, Whole(cfg)) /\ run \in {NoFile, Whole(cfg)}
      /\ IF mini THEN Has(old) ELSE Has(bin)
  BY DEF Kept, Stored, Busy
<1>2. cfg \in Cores /\ "upx" \in Endings /\ link \in {"no", "bin", "old"} BY DEF Typed, TypeOK, Endings
<1>3. RunFile \in {NoFile, Whole(cfg)} BY <1>1, <1>2 DEF RunFile, Only
<1> QED BY <1>1, <1>2, <1>3, WholeTaken DEF Has

LEMMA UnspoiledBefore == [Next]_vars /\ spoiled' = {} => spoiled = {}
  BY SpoiledStays

\* What was unpacked is there.
LEMMA UnpackFinds ==
    ASSUME Typed, Kept, ~Busy, EnsureUnpacks
    PROVE  RunFile' # NoFile
<1>1. PICK dir \in {bin, old}, name \in {"bin", "old"} :
        /\ Takes(dir) # {} /\ Unpack(dir, name)
        /\ \/ dir = bin /\ name = "bin"
           \/ dir = old /\ name = "old"
  <2>1. CASE Takes(bin) # {} /\ Unpack(bin, "bin") BY <2>1
  <2>2. CASE Takes(old) # {} /\ Unpack(old, "old") BY <2>2
  <2> QED BY <2>1, <2>2 DEF EnsureUnpacks
<1>2. dir[FirstOf(dir)] = Whole(cfg) /\ Whole(cfg) # NoFile
  <2>1. cfg \in Cores BY DEF Typed, TypeOK
  <2> QED BY <1>1, <2>1, Stocked, WholeIs
<1>3. CASE FirstOf(dir) = "upx"
  <2>1. link' = name /\ bin' = bin /\ old' = old BY <1>1, <1>3 DEF Unpack
  <2> QED BY <1>1, <1>2, <1>3, <2>1 DEF RunFile
<1>4. CASE FirstOf(dir) # "upx"
  <2>1. WriteRun(dir[FirstOf(dir)]) /\ link' = link BY <1>1, <1>4 DEF Unpack
  <2> QED BY <1>2, <2>1, WriteRunFile
<1> QED BY <1>3, <1>4

LEMMA StartOnward == ASSUME Typed, Start, repl'.pc \in {"idle", repl.pc} PROVE Onward'
<1>1. start'.pc = "check" /\ start'.core = cfg /\ start'.env = env /\ cfg' = cfg /\ env' = env
      /\ start.pc = "idle" /\ spoiled' = spoiled \cup Overlap
  BY DEF Start, settings, Spoil
<1>2. spoiled' = {} => repl.pc \in {"idle", "start"} BY <1>1 DEF Overlap
<1> QED BY <1>1, <1>2 DEF Onward, Busy

LEMMA StartStepsOnward == Serving /\ StartSteps /\ spoiled' = {} => Onward'
<1> SUFFICES ASSUME Serving, StartSteps, spoiled' = {}, start'.pc # "idle" PROVE Onward'
  BY DEF Onward
<1>0. spoiled = {} /\ Typed /\ Kept
  BY UnspoiledBefore DEF Serving, Usual, Next
<1>a. start.pc # "idle" => ~Busy /\ start.core = cfg /\ start.env = env BY <1>0 DEF Serving, Onward
<1>1. CASE CheckKeeps BY <1>1, <1>a DEF CheckKeeps, Goto, settings, Onward, Busy, Typed, TypeOK
<1>2. CASE SwitchDelete BY <1>2 DEF SwitchDelete, Spoil
<1>3. CASE SwitchCfg \/ SwitchEnv BY <1>0, <1>3 DEF SwitchCfg, SwitchEnv, Kept, Agreed
<1>4. CASE EnsureHas
  <2>1. RunFile' = RunFile BY <1>4 DEF EnsureHas, disk, RunFile
  <2>2. start'.core = start.core /\ start'.env = start.env BY <1>4 DEF EnsureHas, Goto
  <2> QED BY <1>4, <1>a, <2>1, <2>2 DEF EnsureHas, settings, Onward, Busy
<1>5. CASE EnsureUnpacks
  <2>1. RunFile' # NoFile BY <1>0, <1>5, <1>a, UnpackFinds DEF EnsureUnpacks
  <2>2. start'.core = start.core /\ start'.env = start.env BY <1>5 DEF EnsureUnpacks, Goto
  <2> QED BY <1>5, <1>a, <2>1, <2>2 DEF EnsureUnpacks, settings, Onward, Busy
<1>6. CASE EnsureFails \/ Launch \/ LaunchFails
  BY <1>6 DEF EnsureFails, Launch, LaunchFails, IdleStart
<1> QED BY <1>1, <1>2, <1>3, <1>4, <1>5, <1>6 DEF StartSteps

\* Every other step is one of somebody else, beside a start.
LEMMA BesideOnward ==
    ASSUME Onward, spoiled = {}, start.pc # "idle", UNCHANGED <<start, cfg, env>>,
           repl'.pc \in {"idle", "start"} \/ repl' = repl, RunFile' = RunFile
    PROVE  Onward'
  BY DEF Onward, Busy

LEMMA NextOnward == Serving /\ [Next]_vars => Onward'
<1> SUFFICES ASSUME Serving, [Next]_vars, spoiled' = {}, start'.pc # "idle" PROVE Onward'
  BY DEF Onward
<1>0. spoiled = {} /\ Typed /\ Onward BY UnspoiledBefore DEF Serving
<1>1. CASE UNCHANGED vars
  BY <1>0, <1>1, BesideOnward DEF vars, disk, settings, RunFile
<1>2. CASE StartSteps BY <1>2, StartStepsOnward
<1>3. CASE StartAlone BY <1>0, <1>3, StartOnward DEF StartAlone
<1>4. CASE StartAfter BY <1>0, <1>4, StartOnward DEF StartAfter, IdleRepl
<1>5. CASE start.pc = "idle" /\ ~StartSteps /\ ~StartAlone /\ ~StartAfter
  <2>1. ASSUME NEW by, NEW fmt, NEW file, NEW core, NEW reasons, Begin(by, fmt, file, core, reasons)
        PROVE  start' = start
    BY <2>1 DEF Begin
  <2>2. start' = start \/ start' = IdleStart
    BY <1>5, <2>1 DEF Next, ReplSteps, vars, Clear, Archive, TaskMove, TaskCopy, MenuCore, MenuCoreBusy,
       CliCore, WriteFails, SetCfg, SetEnv, TaskAccept, TaskRefuse, MenuInstall, CliInstall, CliFind, Upload,
       HotUpdate, Stop, NewConfig, Reboot
  <2> QED BY <1>5, <2>2 DEF IdleStart
<1>6. CASE start.pc # "idle" /\ Next /\ ~StartSteps /\ ~StartAlone /\ ~StartAfter
  <2>1. ~Busy BY <1>0, <1>6 DEF Onward
  <2>2. ~ReplSteps
    BY <1>6, <2>1 DEF ReplSteps, Busy, Clear, Archive, TaskMove, TaskCopy, MenuCore, MenuCoreBusy,
       CliCore, WriteFails, SetCfg, SetEnv
  <2>3. Overlap = {"overlap"} BY <1>6 DEF Overlap
  <2>4. ASSUME NEW by, NEW fmt, NEW file, NEW core, NEW reasons, Begin(by, fmt, file, core, reasons)
        PROVE  spoiled' # {}
    BY <2>3, <2>4 DEF Begin, Spoil
  <2>5. ~(TaskAccept \/ MenuInstall \/ CliInstall \/ CliFind \/ Upload)
    BY <2>3, <2>4 DEF TaskAccept, MenuInstall, CliInstall, CliFind, Upload, Spoil
  <2>6. CASE TaskRefuse
    BY <1>0, <1>6, <2>6, BesideOnward DEF TaskRefuse, IdleRepl, disk, settings, RunFile
  <2>7. CASE HotUpdate \/ Stop \/ NewConfig \/ Reboot
    BY <1>6, <2>7 DEF HotUpdate, Stop, NewConfig, AtRest, Reboot, IdleStart
  <2> QED BY <1>6, <2>2, <2>5, <2>6, <2>7 DEF Next
<1> QED BY <1>1, <1>2, <1>3, <1>4, <1>5, <1>6

LEMMA ServingHolds == Spec => []Serving
<1>1. Init => Onward BY DEF Init, IdleStart, Onward
<1>2. Typed /\ (Usual => Kept) /\ Onward /\ [Next]_vars => Onward' BY NextOnward DEF Serving
<1>3. Spec => []Onward BY <1>1, <1>2, KeptHolds, PTL DEF Spec
<1> QED BY <1>3, KeptHolds, PTL DEF Serving

\* A start fails, for want of a core or because the core dies at once, only after
\* one of the steps that spoiled names: what UpdateServes promises beyond progress,
\* for the starts of every caller.
StartsServe == [][EnsureFails \/ LaunchFails => spoiled # {}]_vars

\* Whatever was installed, stopped or rebooted before: ensureCrashCoreBinary finds
\* a core, and the core launched stays up.
THEOREM StartsKeepServing == Spec => StartsServe
<1> DEFINE Serves == EnsureFails \/ LaunchFails => spoiled # {}
<1>1. Serving /\ [Next]_vars => [Serves]_vars
  <2> SUFFICES ASSUME Serving, spoiled = {}, EnsureFails \/ LaunchFails PROVE FALSE
    OBVIOUS
  <2>1. start.pc # "idle" BY DEF EnsureFails, LaunchFails
  <2>2. Typed /\ Kept /\ ~Busy /\ start.core = cfg /\ start.env = env
        /\ (start.pc = "launch" => RunFile # NoFile)
    BY <2>1 DEF Serving, Usual, Onward
  <2>3. CASE EnsureFails BY <2>2, <2>3, Stocked DEF EnsureFails
  <2>4. CASE LaunchFails
    <3>1. RunFile = Whole(cfg) /\ cfg \in Cores BY <2>2, <2>4, Stocked DEF LaunchFails, Typed, TypeOK
    <3>2. env = Family(cfg) /\ Suits(cfg) BY <2>2 DEF Kept, Agreed, Busy
    <3> QED BY <2>2, <2>4, <3>1, <3>2, WholeIs DEF LaunchFails, Runs, Suits
  <2> QED BY <2>3, <2>4
<1>2. Spec => [][Next]_vars BY PTL DEF Spec
<1> HIDE DEF Serves
<1>3. Spec => [][Serves]_vars BY <1>1, <1>2, ServingHolds, PTL
<1> QED BY <1>3 DEF Serves, StartsServe
=============================================================================
