--------------------- MODULE ConservativeServiceProofs ---------------------
(* Theorems about ConservativeService for any number of processes and pids. *)
EXTENDS ConservativeService, FunctionTheorems, FiniteSetTheorems, TLAPS

-----------------------------------------------------------------------------
(* Type correctness *)

\* Watchdog steps keep the types.
LEMMA WatchdogType ==
  ASSUME TypeOK, NEW p \in Watchdogs, Watchdog(p)
  PROVE  TypeOK'
<1> USE DEF TypeOK, Procs, PidOrNone, MainPc, BgPc, StartPc, StopPc,
            Goto, files, procs, locals
<1>1. CASE WdCheck(p)  BY <1>1 DEF WdCheck
<1>2. CASE WdLock(p)   BY <1>2 DEF WdLock
<1>3. CASE WdPid(p)    BY <1>3 DEF WdPid
<1>4. CASE WdLoad(p)   BY <1>4 DEF WdLoad
<1>5. CASE WdUnlock(p) BY <1>5 DEF WdUnlock
<1> QED BY <1>1, <1>2, <1>3, <1>4, <1>5 DEF Watchdog

\* The commands of operators keep the types.
LEMMA CommandType ==
  ASSUME TypeOK, NEW p \in Procs, Command(p)
  PROVE  TypeOK'
<1> USE DEF TypeOK, PidOrNone, MainPc, BgPc, StartPc, StopPc,
            Goto, Load, Done, files, procs, locals
<1>1. CASE RunStart(p)   BY <1>1 DEF RunStart
<1>2. CASE RunStop(p)    BY <1>2 DEF RunStop
<1>3. CASE RunRestart(p) BY <1>3 DEF RunRestart
<1>4. CASE RunInit(p)    BY <1>4 DEF RunInit
<1> QED BY <1>1, <1>2, <1>3, <1>4 DEF Command

\* Controller.Start keeps the types.
LEMMA StartType ==
  ASSUME TypeOK, NEW p \in Procs, Start(p)
  PROVE  TypeOK'
<1> USE DEF TypeOK, PidOrNone, MainPc, BgPc, StartPc, StopPc,
            Goto, BgGoto, Done, files, procs, locals
<1>1. CASE StPidof(p)    BY <1>1 DEF StPidof
<1>2. CASE StClear(p)    BY <1>2 DEF StClear
<1>3. CASE StPrep(p)     BY <1>3 DEF StPrep
<1>4. CASE StLaunch(p)   BY <1>4 DEF StLaunch
<1>5. CASE StPidWrite(p) BY <1>5 DEF StPidWrite
<1> QED BY <1>1, <1>2, <1>3, <1>4, <1>5 DEF Start

\* Controller.Stop, on either thread, keeps the types.
LEMMA StopType ==
  ASSUME TypeOK, NEW p \in Procs,
         Stop(p) \/ BgSpPid(p) \/ BgSpFw(p) \/ BgSpKill(p)
  PROVE  TypeOK'
<1> USE DEF TypeOK, PidOrNone, MainPc, BgPc, StartPc, StopPc, Goto, BgGoto,
            KillRecorded, DropFirewall, KillAll, files, procs, locals
<1>1. CASE SpPid(p)    BY <1>1 DEF SpPid
<1>2. CASE SpFw(p)     BY <1>2 DEF SpFw
<1>3. CASE SpKill(p)   BY <1>3 DEF SpKill
<1>4. CASE BgSpPid(p)  BY <1>4 DEF BgSpPid
<1>5. CASE BgSpFw(p)   BY <1>5 DEF BgSpFw
<1>6. CASE BgSpKill(p) BY <1>6 DEF BgSpKill
<1> QED BY <1>1, <1>2, <1>3, <1>4, <1>5, <1>6 DEF Stop

\* The goroutine's own steps keep the types.
LEMMA BackgroundType ==
  ASSUME TypeOK, NEW p \in Procs, AfterStart(p) \/ ErProbe(p) \/ ErMark(p)
  PROVE  TypeOK'
<1> USE DEF TypeOK, PidOrNone, MainPc, BgPc, StartPc, StopPc, BgGoto,
            files, procs, locals
<1>1. CASE AfWait(p)     BY <1>1 DEF AfWait
<1>2. CASE AfFirewall(p) BY <1>2 DEF AfFirewall
<1>3. CASE AfMarker(p)   BY <1>3 DEF AfMarker
<1>4. CASE AfCron(p)     BY <1>4 DEF AfCron
<1>5. CASE ErProbe(p)    BY <1>5 DEF ErProbe
<1>6. CASE ErMark(p)     BY <1>6 DEF ErMark
<1> QED BY <1>1, <1>2, <1>3, <1>4, <1>5, <1>6 DEF AfterStart

\* The end of a process, the faults and stuttering keep the types.
LEMMA EnvironmentType ==
  ASSUME TypeOK,
         \/ \E p \in Procs : Exit(p) \/ Quit(p) \/ Killed(p)
         \/ CoreExit \/ Reboot \/ WipeTmp \/ UNCHANGED vars
  PROVE  TypeOK'
<1> USE DEF TypeOK, PidOrNone, MainPc, BgPc, StartPc, StopPc, Goto, BgGoto,
            Gone, Resting,            files, procs, locals
<1>1. ASSUME NEW p \in Procs, Exit(p) PROVE TypeOK'    BY <1>1 DEF Exit
<1>q. ASSUME NEW p \in Procs, Quit(p) PROVE TypeOK'    BY <1>q DEF Quit
<1>2. ASSUME NEW p \in Procs, Killed(p) PROVE TypeOK'  BY <1>2 DEF Killed
<1>3. CASE CoreExit        BY <1>3 DEF CoreExit
<1>4. CASE Reboot          BY <1>4 DEF Reboot
<1>5. CASE WipeTmp         BY <1>5 DEF WipeTmp
<1>6. CASE UNCHANGED vars  BY <1>6 DEF vars
<1> QED BY <1>1, <1>q, <1>2, <1>3, <1>4, <1>5, <1>6

\* The variables of the conservative mode keep their types in every behaviour.
THEOREM TypeCorrect == Spec => []TypeOK
<1>1. Init => TypeOK
  BY DEF Init, TypeOK, PidOrNone, MainPc, BgPc
<1>2. TypeOK /\ [Next]_vars => TypeOK'
  BY WatchdogType, CommandType, StartType, StopType, BackgroundType,
     EnvironmentType DEF Next, Stop, Background, StartError
<1> QED BY <1>1, <1>2, PTL DEF Spec

-----------------------------------------------------------------------------
(* The lock of the watchdog *)

\* A watchdog calls Stop only from Start, so Stop returns into Start.
ReturnsToStart == \A p \in Watchdogs : main[p] \in StopPc => ret[p] = "st_clear"

LEMMA ReturnsToStartStep ==
  ASSUME TypeOK, ReturnsToStart, [Next]_vars
  PROVE  ReturnsToStart'
<1> USE ConstantsAssumption DEF TypeOK, ReturnsToStart, StopPc, Procs,
            Goto, BgGoto, files, procs, locals
<1>1. ASSUME NEW p \in Watchdogs, Watchdog(p) PROVE ReturnsToStart'
  BY <1>1 DEF Watchdog, WdCheck, WdLock, WdPid, WdLoad, WdUnlock
<1>2. ASSUME NEW p \in Procs, Command(p) PROVE ReturnsToStart'
  BY <1>2 DEF Command, Idle, Load, RunStart, RunStop, RunRestart, RunInit
<1>3. ASSUME NEW p \in Procs, Start(p) PROVE ReturnsToStart'
  BY <1>3 DEF Start, Done, StPidof, StClear, StPrep, StLaunch, StPidWrite
<1>4. ASSUME NEW p \in Procs, Stop(p) PROVE ReturnsToStart'
  BY <1>4 DEF Stop, SpPid, SpFw, SpKill, KillRecorded, DropFirewall, KillAll
<1>5. ASSUME NEW p \in Procs, Background(p) PROVE ReturnsToStart'
  <2>1. CASE AfterStart(p)
    BY <1>5, <2>1 DEF AfterStart, AfWait, AfFirewall, AfMarker, AfCron
  <2>2. CASE StartError(p)
    BY <1>5, <2>2 DEF StartError, ErProbe, ErMark, BgSpPid, BgSpFw, BgSpKill,
                      KillRecorded, DropFirewall, KillAll
  <2> QED BY <1>5, <2>1, <2>2 DEF Background
<1>6. ASSUME NEW p \in Procs, Exit(p) \/ Quit(p) \/ Killed(p) PROVE ReturnsToStart'
  BY <1>6 DEF Exit, Quit, Killed, Gone
<1>7. CASE CoreExit \/ Reboot \/ WipeTmp \/ UNCHANGED vars
  BY <1>7 DEF CoreExit, Reboot, WipeTmp, vars
<1> QED BY <1>1, <1>2, <1>3, <1>4, <1>5, <1>6, <1>7 DEF Next

\* Typed == what every later argument starts from.
Typed == TypeOK /\ ReturnsToStart

LEMMA TypedAlways == Spec => []Typed
<1>1. Init => Typed
  BY DEF Init, Typed, TypeOK, PidOrNone, MainPc, BgPc, ReturnsToStart, Procs, StopPc
<1>2. Typed /\ [Next]_vars => Typed'
  BY ReturnsToStartStep, WatchdogType, CommandType, StartType, StopType,
     BackgroundType, EnvironmentType
     DEF Typed, Next, Stop, Background, StartError
<1> QED BY <1>1, <1>2, PTL DEF Spec

\* The lock directory and who is inside stay as they are.
LockUntouched ==
  /\ lock' = lock /\ stranded' = stranded
  /\ \A q \in Watchdogs : Holds(q)' = Holds(q)

\* Only the five kinds of steps named here touch the lock.
LockStep ==
  \/ \E p \in Watchdogs : WdLock(p) \/ WdUnlock(p)
  \/ \E p \in Procs : Killed(p)
  \/ Reboot \/ WipeTmp

LEMMA OtherStepsLeaveLock ==
  ASSUME Typed, [Next]_vars, ~LockStep
  PROVE  LockUntouched
<1> USE ConstantsAssumption DEF Typed, TypeOK, ReturnsToStart, LockUntouched,
            Holds, StopPc, Procs, Goto, BgGoto, files, procs, locals
<1>1. ASSUME NEW p \in Watchdogs, Watchdog(p) PROVE LockUntouched
  BY <1>1 DEF Watchdog, WdCheck, WdPid, WdLoad, LockStep
<1>2. ASSUME NEW p \in Procs, Command(p) PROVE LockUntouched
  BY <1>2 DEF Command, Idle, Load, RunStart, RunStop, RunRestart, RunInit
<1>3. ASSUME NEW p \in Procs, Start(p) PROVE LockUntouched
  BY <1>3 DEF Start, Done, StPidof, StClear, StPrep, StLaunch, StPidWrite
<1>4. ASSUME NEW p \in Procs, Stop(p) PROVE LockUntouched
  BY <1>4 DEF Stop, SpPid, SpFw, SpKill, KillRecorded, DropFirewall, KillAll
<1>5. ASSUME NEW p \in Procs, Background(p) PROVE LockUntouched
  <2>1. CASE AfterStart(p)
    BY <1>5, <2>1 DEF AfterStart, AfWait, AfFirewall, AfMarker, AfCron
  <2>2. CASE StartError(p)
    BY <1>5, <2>2 DEF StartError, ErProbe, ErMark, BgSpPid, BgSpFw, BgSpKill,
                      KillRecorded, DropFirewall, KillAll
  <2> QED BY <1>5, <2>1, <2>2 DEF Background
<1>6. ASSUME NEW p \in Procs, Exit(p) \/ Quit(p) PROVE LockUntouched
  BY <1>6 DEF Exit, Quit, Gone
<1>7. CASE CoreExit \/ UNCHANGED vars
  BY <1>7 DEF CoreExit, vars
<1> QED BY <1>1, <1>2, <1>3, <1>4, <1>5, <1>6, <1>7 DEF Next, LockStep

\* Unless TmpDir is wiped under them, overlapping watchdogs exclude each other.
THEOREM LockExcludes ==
  ASSUME "wipe" \notin Faults
  PROVE  Spec => []LockExclusion
<1> USE DEF LockExclusion
<1>1. Init => LockExclusion
  BY DEF Init, Holds, Procs
<1>2. Typed /\ LockExclusion /\ [Next]_vars => LockExclusion'
  <2> SUFFICES ASSUME Typed, LockExclusion, [Next]_vars PROVE LockExclusion'
    OBVIOUS
  <2>1. ASSUME NEW p \in Watchdogs, WdLock(p) PROVE LockExclusion'
    BY <2>1 DEF WdLock, Goto, Holds, Typed, TypeOK, Procs
  <2>2. ASSUME NEW p \in Watchdogs, WdUnlock(p) PROVE LockExclusion'
    BY <2>2 DEF WdUnlock, Goto, Holds, Typed, TypeOK, Procs
  <2>3. ASSUME NEW p \in Procs, Killed(p) PROVE LockExclusion'
    BY <2>3 DEF Killed, Gone, Goto, Holds, Typed, TypeOK, Procs
  <2>4. CASE Reboot
    BY <2>4 DEF Reboot, Holds, Procs
  <2>5. CASE ~LockStep
    BY <2>5, OtherStepsLeaveLock DEF LockUntouched
  <2> QED BY <2>1, <2>2, <2>3, <2>4, <2>5 DEF LockStep, WipeTmp
<1> QED BY <1>1, <1>2, TypedAlways, PTL DEF Spec

\* The lock directory is there only while a watchdog is inside, or because one
\* was killed there: every other way out removes it.
THEOREM LockIsReleased == Spec => []LockReleased
<1> USE DEF LockReleased
<1>1. Init => LockReleased
  BY DEF Init
<1>2. Typed /\ LockReleased /\ [Next]_vars => LockReleased'
  <2> SUFFICES ASSUME Typed, LockReleased, [Next]_vars PROVE LockReleased'
    OBVIOUS
  <2>1. ASSUME NEW p \in Watchdogs, WdLock(p) PROVE LockReleased'
    BY <2>1 DEF WdLock, Goto, Holds, Typed, TypeOK, Procs
  <2>2. ASSUME NEW p \in Watchdogs, WdUnlock(p) PROVE LockReleased'
    BY <2>2 DEF WdUnlock
  <2>3. CASE Reboot \/ WipeTmp
    BY <2>3 DEF Reboot, WipeTmp
  <2>4. ASSUME NEW p \in Procs, Killed(p) PROVE LockReleased'
    BY <2>4 DEF Killed, Gone, Goto, Holds, Typed, TypeOK, Procs
  <2>5. CASE ~LockStep
    BY <2>5, OtherStepsLeaveLock DEF LockUntouched
  <2> QED BY <2>1, <2>2, <2>3, <2>4, <2>5 DEF LockStep
<1> QED BY <1>1, <1>2, TypedAlways, PTL DEF Spec

-----------------------------------------------------------------------------
(* However many processes start the core, they launch at most one each *)

\* Between the killall (or the pidof that found nothing) of its own Start and
\* its launch, a process has no core of its own.
BeforeLaunch == {"st_clear", "st_prep", "st_launch"}

\* Every core has an owner, the process that launched it; owners differ and
\* none of them is about to launch.
Owned ==
  \E owner \in [cores -> Procs] :
    /\ \A c, d \in cores : owner[c] = owner[d] => c = d
    /\ \A c \in cores : main[owner[c]] \notin BeforeLaunch

\* An owner map survives when cores only end and no owner gets to a launch.
LEMMA OwnedKept ==
  ASSUME Owned, cores' \subseteq cores,
         \A p \in Procs : main'[p] \in BeforeLaunch =>
                             main[p] \in BeforeLaunch \/ cores' = {}
  PROVE  Owned'
<1>1. PICK owner \in [cores -> Procs] :
        /\ \A c, d \in cores : owner[c] = owner[d] => c = d
        /\ \A c \in cores : main[owner[c]] \notin BeforeLaunch
  BY DEF Owned
<1> DEFINE rest == [c \in cores' |-> owner[c]]
<1>2. rest \in [cores' -> Procs]
  OBVIOUS
<1>3. \A c, d \in cores' : rest[c] = rest[d] => c = d
  BY <1>1
<1>4. \A c \in cores' : main'[rest[c]] \notin BeforeLaunch
  BY <1>1
<1> QED BY <1>2, <1>3, <1>4 DEF Owned

\* A launch gives the new core to the process that launched it.
LEMMA OwnedLaunch ==
  ASSUME Typed, Owned, NEW p \in Procs, StLaunch(p)
  PROVE  Owned'
<1> USE DEF Typed, TypeOK
<1>1. main[p] = "st_launch" /\ main' = [main EXCEPT ![p] = main'[p]]
      /\ main'[p] \notin BeforeLaunch
  BY DEF StLaunch, Goto, Done, BeforeLaunch
<1>2. CASE cores' = cores
  BY <1>1, <1>2, OwnedKept
<1>3. ASSUME NEW c \in Pids \ cores, cores' = cores \cup {c}
      PROVE  Owned'
  <2>1. PICK owner \in [cores -> Procs] :
          /\ \A e, d \in cores : owner[e] = owner[d] => e = d
          /\ \A e \in cores : main[owner[e]] \notin BeforeLaunch
    BY DEF Owned
  <2> DEFINE more == [e \in cores' |-> IF e = c THEN p ELSE owner[e]]
  <2>2. \A e \in cores : owner[e] # p
    BY <1>1, <2>1 DEF BeforeLaunch
  <2>3. more \in [cores' -> Procs]
    BY <1>3
  <2>4. \A e, d \in cores' : more[e] = more[d] => e = d
    BY <1>3, <2>1, <2>2
  <2>5. \A e \in cores' : main'[more[e]] \notin BeforeLaunch
    BY <1>1, <1>3, <2>1, <2>2
  <2> QED BY <2>3, <2>4, <2>5 DEF Owned
<1> QED BY <1>2, <1>3 DEF StLaunch

\* Every other step only ends cores, and comes near a launch without one.
LEMMA OtherStepsKeepOwned ==
  ASSUME Typed, [Next]_vars, \A p \in Procs : ~StLaunch(p)
  PROVE  /\ cores' \subseteq cores
         /\ \A p \in Procs : main'[p] \in BeforeLaunch =>
                                main[p] \in BeforeLaunch \/ cores' = {}
<1> DEFINE Goal == /\ cores' \subseteq cores
                   /\ \A p \in Procs : main'[p] \in BeforeLaunch =>
                                          main[p] \in BeforeLaunch \/ cores' = {}
<1> USE DEF Typed, TypeOK, BeforeLaunch, Goto, BgGoto, Done, files, procs, locals
<1>1. ASSUME NEW p \in Watchdogs, Watchdog(p) PROVE Goal
  BY <1>1 DEF Watchdog, WdCheck, WdLock, WdPid, WdLoad, WdUnlock, Procs
<1>2. ASSUME NEW p \in Procs, Command(p) PROVE Goal
  BY <1>2 DEF Command, Idle, Load, RunStart, RunStop, RunRestart, RunInit
<1>3. ASSUME NEW p \in Procs, Start(p) PROVE Goal
  BY <1>3 DEF Start, Running, StPidof, StClear, StPrep, StPidWrite
<1>4. ASSUME NEW p \in Procs, Stop(p) PROVE Goal
  BY <1>4 DEF Stop, SpPid, SpFw, SpKill, KillRecorded, DropFirewall, KillAll
<1>5. ASSUME NEW p \in Procs, Background(p) PROVE Goal
  <2>1. CASE AfterStart(p)
    BY <1>5, <2>1 DEF AfterStart, AfWait, AfFirewall, AfMarker, AfCron
  <2>2. CASE StartError(p)
    BY <1>5, <2>2 DEF StartError, ErProbe, ErMark, BgSpPid, BgSpFw, BgSpKill,
                      KillRecorded, DropFirewall, KillAll
  <2> QED BY <1>5, <2>1, <2>2 DEF Background
<1>6. ASSUME NEW p \in Procs, Exit(p) \/ Quit(p) \/ Killed(p) PROVE Goal
  BY <1>6 DEF Exit, Quit, Killed, Gone
<1>7. CASE CoreExit \/ Reboot \/ WipeTmp \/ UNCHANGED vars
  BY <1>7 DEF CoreExit, Reboot, WipeTmp, vars
<1> QED BY <1>1, <1>2, <1>3, <1>4, <1>5, <1>6, <1>7 DEF Next

LEMMA OwnedAlways == Spec => []Owned
<1>1. Init => Owned
  <2> SUFFICES ASSUME Init PROVE Owned
    OBVIOUS
  <2> DEFINE none == [c \in cores |-> c]
  <2>1. cores = {}
    BY DEF Init
  <2>2. none \in [cores -> Procs]
    BY <2>1
  <2> QED BY <2>1, <2>2 DEF Owned
<1>2. Typed /\ Owned /\ [Next]_vars => Owned'
  BY OwnedKept, OwnedLaunch, OtherStepsKeepOwned
<1> QED BY <1>1, <1>2, TypedAlways, PTL DEF Spec

\* Under every fault, and whoever starts, stops or restarts, never more cores
\* run than there are processes.
THEOREM CoresStayBounded ==
  ASSUME IsFiniteSet(Procs)
  PROVE  Spec => []CoresBounded
<1>1. Owned => CoresBounded
  <2> SUFFICES ASSUME Owned PROVE CoresBounded
    OBVIOUS
  <2>1. PICK owner \in [cores -> Procs] :
          \A c, d \in cores : owner[c] = owner[d] => c = d
    BY DEF Owned
  <2>2. owner \in Injection(cores, Procs)
    BY <2>1, Fun_IsInj
  <2> QED BY <2>2, FS_Injection DEF CoresBounded
<1> QED BY <1>1, OwnedAlways, PTL

-----------------------------------------------------------------------------
(* Watchdogs alone: one core, and the pid file names it *)

\* What a holder of the lock knows from its pid check up to the launch.
NoCorePc == {"wd_load", "st_pidof"} \cup StopPc \cup BeforeLaunch

\* The lock directory of a watchdog that was killed inside: nobody gets in
\* before TmpDir is cleared.
ShutOut == lock /\ \A p \in Watchdogs : ~Holds(p)

OneCore ==
  /\ \A p \in Watchdogs : main[p] \in NoCorePc => cores = {}
  /\ \A p \in Watchdogs : main[p] \in NoCorePc \cup {"st_pidw"} => pidFile = NoPid
  /\ \A p \in Watchdogs : main[p] = "st_pidw" => child[p] \in Pids /\ cores \subseteq {child[p]}
  /\ \A p \in Watchdogs : snap[p] = NoPid /\ bgSnap[p] = NoPid
  /\ \/ cores \subseteq {pidFile}
     \/ \E p \in Watchdogs : main[p] = "st_pidw"
     \/ ShutOut
  /\ SingleCore

\* Only watchdogs run and TmpDir is not wiped under them.
WatchdogsOnly == Shells = {} /\ Menus = {} /\ "wipe" \notin Faults

LEMMA OneCoreWatchdog ==
  ASSUME WatchdogsOnly, Typed, LockExclusion, OneCore,
         NEW p \in Watchdogs, Watchdog(p)
  PROVE  OneCore'
<1> USE ConstantsAssumption DEF WatchdogsOnly, Typed, TypeOK, PidOrNone,
            LockExclusion, OneCore, SingleCore, Holds, NoCorePc, BeforeLaunch,
            StopPc, Procs, ShutOut, Goto, files, procs
<1>1. CASE WdCheck(p)  BY <1>1 DEF WdCheck
<1>2. CASE WdLock(p)   BY <1>2 DEF WdLock
<1>3. CASE WdPid(p)
  <2>1. CASE Alive(pidFile)
    BY <1>3, <2>1 DEF WdPid
  <2>2. CASE ~Alive(pidFile)
    <3>1. pidFile \notin cores
      BY <2>2 DEF Alive
    <3> QED BY <1>3, <2>2, <3>1 DEF WdPid
  <2> QED BY <2>1, <2>2
<1>4. CASE WdLoad(p)   BY <1>4 DEF WdLoad
<1>5. CASE WdUnlock(p) BY <1>5 DEF WdUnlock
<1> QED BY <1>1, <1>2, <1>3, <1>4, <1>5 DEF Watchdog

LEMMA OneCoreStart ==
  ASSUME WatchdogsOnly, Typed, LockExclusion, OneCore,
         NEW p \in Watchdogs, Start(p)
  PROVE  OneCore'
<1> USE ConstantsAssumption DEF WatchdogsOnly, Typed, TypeOK, PidOrNone,
            LockExclusion, OneCore, SingleCore, Holds, NoCorePc, BeforeLaunch,
            StopPc, Procs, ShutOut, Goto, BgGoto, Done, files, procs
<1>1. CASE StPidof(p)    BY <1>1 DEF StPidof
<1>2. CASE StClear(p)    BY <1>2 DEF StClear
<1>3. CASE StPrep(p)     BY <1>3 DEF StPrep
<1>4. CASE StLaunch(p)   BY <1>4 DEF StLaunch
<1>5. CASE StPidWrite(p) BY <1>5 DEF StPidWrite
<1> QED BY <1>1, <1>2, <1>3, <1>4, <1>5 DEF Start

\* Stop finds no core and knows no pid: it changes only where it stands.
LEMMA OneCoreStop ==
  ASSUME WatchdogsOnly, Typed, LockExclusion, OneCore, NEW p \in Watchdogs,
         Stop(p) \/ Background(p)
  PROVE  OneCore'
<1> USE ConstantsAssumption DEF WatchdogsOnly, Typed, TypeOK, PidOrNone,
            ReturnsToStart, LockExclusion, OneCore, SingleCore, Holds, NoCorePc,
            BeforeLaunch, StopPc, Procs, ShutOut, Goto, BgGoto, KillRecorded,
            DropFirewall, KillAll, files, procs, locals
<1>1. CASE SpPid(p)    BY <1>1 DEF SpPid
<1>2. CASE SpFw(p)     BY <1>2 DEF SpFw
<1>3. CASE SpKill(p)   BY <1>3 DEF SpKill
<1>4. CASE BgSpPid(p)  BY <1>4 DEF BgSpPid
<1>5. CASE BgSpFw(p)   BY <1>5 DEF BgSpFw
<1>6. CASE BgSpKill(p) BY <1>6 DEF BgSpKill
<1>7. CASE ErProbe(p) \/ ErMark(p)  BY <1>7 DEF ErProbe, ErMark
<1>8. CASE AfterStart(p)
  BY <1>8 DEF AfterStart, AfWait, AfFirewall, AfMarker, AfCron
<1> QED
  BY <1>1, <1>2, <1>3, <1>4, <1>5, <1>6, <1>7, <1>8
     DEF Stop, Background, StartError

LEMMA OneCoreEnvironment ==
  ASSUME WatchdogsOnly, Typed, LockExclusion, OneCore,
         \/ \E p \in Procs : Exit(p) \/ Quit(p) \/ Killed(p)
         \/ CoreExit \/ Reboot \/ UNCHANGED vars
  PROVE  OneCore'
<1> USE ConstantsAssumption DEF WatchdogsOnly, Typed, TypeOK, PidOrNone,
            LockExclusion, OneCore, SingleCore, Holds, NoCorePc, BeforeLaunch,
            StopPc, Procs, ShutOut, Goto, BgGoto, Gone, files, procs, locals
<1>1. ASSUME NEW p \in Procs, Exit(p) \/ Quit(p) PROVE OneCore'
  BY <1>1 DEF Exit, Quit
<1>2. ASSUME NEW p \in Procs, Killed(p) PROVE OneCore'
  BY <1>2 DEF Killed
<1>3. CASE CoreExit  BY <1>3 DEF CoreExit
<1>4. CASE Reboot    BY <1>4 DEF Reboot
<1>5. CASE UNCHANGED vars  BY <1>5 DEF vars
<1> QED BY <1>1, <1>2, <1>3, <1>4, <1>5

LEMMA OneCoreAlways ==
  ASSUME WatchdogsOnly
  PROVE  Spec => []OneCore
<1>1. Init => OneCore
  BY DEF WatchdogsOnly, Init, OneCore, NoCorePc, BeforeLaunch, StopPc, Procs, SingleCore
<1>2. Typed /\ LockExclusion /\ OneCore /\ [Next]_vars => OneCore'
  <2> SUFFICES ASSUME Typed, LockExclusion, OneCore, [Next]_vars PROVE OneCore'
    OBVIOUS
  <2>1. Procs = Watchdogs /\ ~WipeTmp /\ \A p \in Procs : ~Command(p)
    BY DEF WatchdogsOnly, Procs, WipeTmp, Command, Idle,
           RunStart, RunStop, RunRestart, RunInit
  <2> QED
    BY <2>1, OneCoreWatchdog, OneCoreStart, OneCoreStop, OneCoreEnvironment
       DEF Next
<1>3. Spec => []LockExclusion
  BY LockExcludes DEF WatchdogsOnly
<1> QED BY <1>1, <1>2, <1>3, TypedAlways, PTL DEF Spec

\* Watchdogs alone never have two cores running, even when they are killed,
\* their cores die, or the device reboots.
THEOREM WatchdogsKeepOneCore ==
  ASSUME WatchdogsOnly
  PROVE  Spec => []SingleCore
<1>1. OneCore => SingleCore
  BY DEF OneCore
<1> QED BY <1>1, OneCoreAlways, PTL

\* The running core is the recorded one, unless a watchdog was killed inside
\* the lock and keeps all others out.
THEOREM WatchdogsRecordCore ==
  ASSUME WatchdogsOnly
  PROVE  Spec => []CoreRecorded
<1>1. LockReleased /\ OneCore => CoreRecorded
  BY DEF OneCore, LockReleased, CoreRecorded, ShutOut, Procs
<1> QED BY <1>1, OneCoreAlways, LockIsReleased, PTL

\* Among watchdogs, on either thread of any of them, a recorded core is ended
\* only by a handleStartError, which runs when a start found no core: the Stop
\* that a Start calls has nothing to stop.
THEOREM WatchdogsSpareCore ==
  ASSUME WatchdogsOnly
  PROVE  Spec => SparesLiveCore
<1> DEFINE Spared == (pidFile \in cores /\ pidFile \notin cores') =>
                       \/ CoreExit \/ Reboot \/ \E p \in Watchdogs : StartError(p)
<1>1. OneCore /\ [Next]_vars => [Spared]_vars
  <2> SUFFICES ASSUME OneCore, Next, pidFile \in cores, pidFile \notin cores'
               PROVE  CoreExit \/ Reboot \/ \E p \in Watchdogs : StartError(p)
    OBVIOUS
  <2> USE DEF procs, files
  <2>1. Procs = Watchdogs
    BY DEF WatchdogsOnly, Procs
  <2>2. ASSUME NEW p \in Watchdogs, Watchdog(p) \/ Command(p) PROVE FALSE
    BY <2>2 DEF Watchdog, WdCheck, WdLock, WdPid, WdLoad, WdUnlock,
                Command, RunStart, RunStop, RunRestart, RunInit
  <2>3. ASSUME NEW p \in Watchdogs, Start(p) PROVE FALSE
    BY <2>3 DEF Start, StPidof, StClear, StPrep, StLaunch, StPidWrite
  <2>4. ASSUME NEW p \in Watchdogs, Stop(p) PROVE FALSE
    BY <2>4 DEF Stop, SpPid, SpFw, SpKill, StopPc, OneCore, NoCorePc
  <2>5. ASSUME NEW p \in Watchdogs, AfterStart(p) PROVE FALSE
    BY <2>5 DEF AfterStart, AfWait, AfFirewall, AfMarker, AfCron
  <2>6. ASSUME NEW p \in Watchdogs, Exit(p) \/ Quit(p) \/ Killed(p) PROVE FALSE
    BY <2>6 DEF Exit, Quit, Killed
  <2>7. ~WipeTmp
    BY DEF WatchdogsOnly, WipeTmp
  <2> QED
    BY <2>1, <2>2, <2>3, <2>4, <2>5, <2>6, <2>7 DEF Next, Background
<1> QED BY <1>1, OneCoreAlways, PTL DEF Spec, SparesLiveCore

-----------------------------------------------------------------------------
(* Watchdogs alone act as one Supervisor *)

\* All that Supervisor sees stays as it is.
Unseen == UNCHANGED <<lock, Inside, cores, pidFile>>

LEMMA UnseenStutters == Unseen => UNCHANGED One!vars
  BY DEF Unseen, One!vars

\* Who is inside is alone there.
LEMMA AloneInside ==
  ASSUME LockExclusion, NEW p \in Watchdogs, Holds(p)
  PROVE  lock /\ Inside = {p}
  BY DEF LockExclusion, Inside

LEMMA WatchdogSeen ==
  ASSUME WatchdogsOnly, Typed, LockExclusion, OneCore, NEW p \in Watchdogs, Watchdog(p)
  PROVE  [One!Next]_(One!vars)
<1> USE DEF WatchdogsOnly, Procs, files, procs
<1>t. main \in [Watchdogs -> MainPc] BY DEF Typed, TypeOK
<1>1. CASE WdCheck(p)
  <2>1. Inside' = Inside BY <1>1, <1>t DEF WdCheck, Goto, Inside, Holds
  <2> QED BY <1>1, <2>1, UnseenStutters DEF Unseen, WdCheck
<1>2. CASE WdLock(p)
  <2>1. CASE lock
    <3>1. Inside' = Inside /\ lock' = lock
      BY <1>2, <1>t, <2>1 DEF WdLock, Goto, Inside, Holds, Typed, TypeOK
    <3> QED BY <1>2, <3>1, UnseenStutters DEF Unseen, WdLock
  <2>2. CASE ~lock
    <3>1. \A q \in Watchdogs : ~Holds(q) BY <2>2 DEF LockExclusion
    <3>2. Inside' = {p} BY <1>2, <1>t, <2>2, <3>1 DEF WdLock, Goto, Inside, Holds
    <3>3. One!Enter BY <1>2, <2>2, <3>2 DEF One!Enter, WdLock
    <3> QED BY <3>3 DEF One!Next
  <2> QED BY <2>1, <2>2
<1>3. CASE WdPid(p)
  <2>1. Holds(p) /\ Inside' = Inside BY <1>3, <1>t DEF WdPid, Goto, Inside, Holds
  <2>2. Inside # {} BY <2>1 DEF Inside
  <2>3. CASE Alive(pidFile) BY <1>3, <2>1, <2>3, UnseenStutters DEF Unseen, WdPid
  <2>4. CASE ~Alive(pidFile)
    <3>1. One!Forget BY <1>3, <2>1, <2>2, <2>4 DEF One!Forget, WdPid, Alive
    <3> QED BY <3>1 DEF One!Next
  <2> QED BY <2>3, <2>4
<1>4. CASE WdLoad(p)
  <2>1. Inside' = Inside BY <1>4, <1>t DEF WdLoad, Goto, Inside, Holds
  <2> QED BY <1>4, <2>1, UnseenStutters DEF Unseen, WdLoad
<1>5. CASE WdUnlock(p)
  <2>1. main[p] = "wd_unlock" /\ Holds(p) BY <1>5 DEF WdUnlock, Holds
  <2>2. lock /\ Inside = {p} BY <2>1, AloneInside
  <2>3. \A q \in Watchdogs : main[q] # "st_pidw" BY <2>1 DEF LockExclusion, Holds
  <2>4. cores \subseteq {pidFile} BY <2>1, <2>3 DEF OneCore, ShutOut
  <2>5. Inside' = {} BY <1>5, <1>t, <2>2 DEF WdUnlock, Goto, Inside, Holds
  <2>6. One!Leave BY <1>5, <2>2, <2>4, <2>5 DEF One!Leave, WdUnlock
  <2> QED BY <2>6 DEF One!Next
<1> QED BY <1>1, <1>2, <1>3, <1>4, <1>5 DEF Watchdog

LEMMA StartSeen ==
  ASSUME WatchdogsOnly, Typed, LockExclusion, OneCore, NEW p \in Watchdogs, Start(p)
  PROVE  [One!Next]_(One!vars)
<1> USE DEF WatchdogsOnly, Procs, files, procs
<1>t. main \in [Watchdogs -> MainPc] BY DEF Typed, TypeOK
<1>1. Holds(p) /\ Inside # {}
  <2>1. Holds(p) BY DEF Start, StPidof, StClear, StPrep, StLaunch, StPidWrite, Holds
  <2> QED BY <2>1 DEF Inside
<1>2. Inside' = Inside
  <2>1. Done(p) = "wd_unlock" BY DEF Done
  <2>2. PICK l \in {"sp_pid", "st_clear", "st_prep", "st_launch", "st_pidw", "wd_unlock"} : Goto(p, l)
    BY <2>1 DEF Start, StPidof, StClear, StPrep, StLaunch, StPidWrite
  <2> QED BY <1>t, <1>1, <2>2 DEF Goto, Inside, Holds
<1>3. CASE StPidof(p) \/ StClear(p) \/ StPrep(p)
  BY <1>2, <1>3, UnseenStutters DEF Unseen, StPidof, StClear, StPrep
<1>4. CASE StLaunch(p)
  <2>1. cores = {} /\ pidFile = NoPid BY <1>4 DEF StLaunch, OneCore, NoCorePc, BeforeLaunch
  <2>2. CASE cores' = cores BY <1>2, <1>4, <2>2, UnseenStutters DEF Unseen, StLaunch
  <2>3. CASE cores' # cores
    <3>1. PICK c \in Pids : cores' = {c} BY <1>4, <2>1, <2>3 DEF StLaunch
    <3>2. One!Launch BY <1>1, <1>2, <1>4, <2>1, <3>1 DEF One!Launch, StLaunch
    <3> QED BY <3>2 DEF One!Next
  <2> QED BY <2>2, <2>3
<1>5. CASE StPidWrite(p)
  <2>1. pidFile = NoPid /\ child[p] \in Pids /\ cores \subseteq {child[p]} BY <1>5 DEF StPidWrite, OneCore
  <2>2. One!Record BY <1>1, <1>2, <1>5, <2>1 DEF One!Record, StPidWrite
  <2> QED BY <2>2 DEF One!Next
<1> QED BY <1>3, <1>4, <1>5 DEF Start

\* The goroutine of a watchdog that has gone out may still kill a core.
LEMMA StopSeen ==
  ASSUME WatchdogsOnly, Typed, LockExclusion, OneCore, NEW p \in Watchdogs, Stop(p) \/ Background(p)
  PROVE  [One!Next]_(One!vars)
<1> USE DEF WatchdogsOnly, Procs, files, procs
<1>t. main \in [Watchdogs -> MainPc] /\ NoPid \notin cores BY ConstantsAssumption DEF Typed, TypeOK
<1>1. lock' = lock
  BY DEF Stop, Background, StartError, AfterStart, SpPid, SpFw, SpKill, BgSpPid, BgSpFw, BgSpKill,
         ErProbe, ErMark, AfWait, AfFirewall, AfMarker, AfCron, KillRecorded, DropFirewall, KillAll
<1>2. pidFile' = pidFile
  BY DEF Stop, Background, StartError, AfterStart, SpPid, SpFw, SpKill, BgSpPid, BgSpFw, BgSpKill,
         ErProbe, ErMark, AfWait, AfFirewall, AfMarker, AfCron, KillRecorded, DropFirewall, KillAll, OneCore
<1>3. Inside' = Inside
  <2>1. CASE Background(p)
    <3>1. main' = main
      BY <2>1 DEF Background, StartError, AfterStart, BgSpPid, BgSpFw, BgSpKill, ErProbe, ErMark,
                  AfWait, AfFirewall, AfMarker, AfCron
    <3> QED BY <3>1 DEF Inside, Holds
  <2>2. CASE Stop(p)
    <3>1. main[p] \in StopPc BY <2>2 DEF Stop, SpPid, SpFw, SpKill, StopPc
    <3>2. ret[p] = "st_clear" BY <3>1 DEF Typed, ReturnsToStart
    <3>3. PICK l \in {"sp_fw", "sp_kill", "st_clear"} : Goto(p, l)
      BY <2>2, <3>2 DEF Stop, SpPid, SpFw, SpKill
    <3> QED BY <1>t, <3>1, <3>3 DEF Goto, Inside, Holds, StopPc
  <2> QED BY <2>1, <2>2
<1>4. cores' = cores \/ cores' = {}
  <2>1. cores \ {snap[p]} = cores /\ cores \ {bgSnap[p]} = cores BY <1>t DEF OneCore
  <2> QED BY <2>1 DEF Stop, Background, StartError, AfterStart, SpPid, SpFw, SpKill, BgSpPid, BgSpFw,
         BgSpKill, ErProbe, ErMark, AfWait, AfFirewall, AfMarker, AfCron, KillRecorded, DropFirewall, KillAll
<1>5. CASE cores' = cores BY <1>1, <1>2, <1>3, <1>5, UnseenStutters DEF Unseen
<1>6. CASE cores' # cores
  <2>1. One!End BY <1>1, <1>2, <1>3, <1>4, <1>6 DEF One!End
  <2> QED BY <2>1 DEF One!Next
<1> QED BY <1>5, <1>6

LEMMA EnvironmentSeen ==
  ASSUME WatchdogsOnly, Typed, LockExclusion, OneCore,
         \/ \E p \in Procs : Exit(p) \/ Quit(p) \/ Killed(p)
         \/ CoreExit \/ Reboot \/ UNCHANGED vars
  PROVE  [One!Next]_(One!vars)
<1> USE DEF WatchdogsOnly, Procs, files, procs, locals
<1>t. main \in [Watchdogs -> MainPc] BY DEF Typed, TypeOK
<1>1. ASSUME NEW p \in Watchdogs, Exit(p) \/ Quit(p) PROVE [One!Next]_(One!vars)
  <2>1. Inside' = Inside BY <1>1, <1>t DEF Exit, Quit, Gone, Goto, Inside, Holds
  <2> QED BY <1>1, <2>1, UnseenStutters DEF Unseen, Exit, Quit
<1>2. ASSUME NEW p \in Watchdogs, Killed(p) PROVE [One!Next]_(One!vars)
  <2>1. CASE Holds(p)
    <3>1. lock /\ Inside = {p} BY <2>1, AloneInside
    <3>2. Inside' = {} BY <1>2, <1>t, <3>1 DEF Killed, Gone, Goto, Inside, Holds
    <3>3. One!Vanish BY <1>2, <3>1, <3>2 DEF One!Vanish, Killed
    <3> QED BY <3>3 DEF One!Next
  <2>2. CASE ~Holds(p)
    <3>1. Inside' = Inside BY <1>2, <1>t, <2>2 DEF Killed, Gone, Goto, Inside, Holds
    <3> QED BY <1>2, <3>1, UnseenStutters DEF Unseen, Killed
  <2> QED BY <2>1, <2>2
<1>3. CASE CoreExit
  <2>1. Inside' = Inside BY <1>3 DEF CoreExit, Inside, Holds
  <2>2. cores' = cores \/ (cores # {} /\ cores' = {}) BY <1>3 DEF CoreExit, OneCore, SingleCore
  <2>3. CASE cores' = cores BY <1>3, <2>1, <2>3, UnseenStutters DEF Unseen, CoreExit
  <2>4. CASE cores # {} /\ cores' = {}
    <3>1. One!End BY <1>3, <2>1, <2>4 DEF One!End, CoreExit
    <3> QED BY <3>1 DEF One!Next
  <2> QED BY <2>2, <2>3, <2>4
<1>4. CASE Reboot
  <2>1. Inside' = {} BY <1>4 DEF Reboot, Inside, Holds
  <2>2. One!Reboot BY <1>4, <2>1 DEF One!Reboot, Reboot
  <2> QED BY <2>2 DEF One!Next
<1>5. CASE UNCHANGED vars
  <2>1. Inside' = Inside BY <1>5 DEF vars, Inside, Holds
  <2> QED BY <1>5, <2>1, UnseenStutters DEF Unseen, vars
<1> QED BY <1>1, <1>2, <1>3, <1>4, <1>5

\* However many watchdogs overlap, wherever they are killed, whatever fails:
\* seen through the lock, the pid file and the running cores, each of their
\* steps is a step of the one Supervisor or none.
THEOREM WatchdogsActAsOne ==
  ASSUME WatchdogsOnly
  PROVE  Spec => ActAsOne
<1>1. Init => One!Init
  BY DEF Init, One!Init, Inside, Holds, Procs
<1>2. Typed /\ LockExclusion /\ OneCore /\ [Next]_vars => [One!Next]_(One!vars)
  <2> SUFFICES ASSUME Typed, LockExclusion, OneCore, [Next]_vars PROVE [One!Next]_(One!vars)
    OBVIOUS
  <2>1. Procs = Watchdogs /\ ~WipeTmp /\ \A p \in Procs : ~Command(p)
    BY DEF WatchdogsOnly, Procs, WipeTmp, Command, Idle,
           RunStart, RunStop, RunRestart, RunInit
  <2> QED BY <2>1, WatchdogSeen, StartSeen, StopSeen, EnvironmentSeen DEF Next
<1>3. Spec => []LockExclusion
  BY LockExcludes DEF WatchdogsOnly
<1> QED BY <1>1, <1>2, <1>3, TypedAlways, OneCoreAlways, PTL DEF Spec, ActAsOne, One!Spec
=============================================================================
