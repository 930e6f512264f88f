-------------------------- MODULE CoreConfigProofs --------------------------
(***************************************************************************)
(* For any number of converters: Run gives up only after it has asked three *)
(* of them, or all there are.  The converters asked so far are the one that *)
(* was selected first and those that follow it around the list, and as many *)
(* as there were tries.                                                     *)
(***************************************************************************)
EXTENDS CoreConfig, Providers, FiniteSetTheorems, TLAPS

Second(s) == NextServer(s)
Third(s) == NextServer(NextServer(s))

Tried(g) ==
    /\ g.pc = "ask" => g.tries \in 0 .. 2
    /\ g.pc = "failed" => g.tries = 3
    /\ g.tries = 0 => g.asked = {}
    /\ g.tries # 0 => \E s \in Server :
        \/ g.tries = 1 /\ g.asked = {s} /\ g.cfg.server = Second(s)
        \/ g.tries = 2 /\ g.asked = {s, Second(s)} /\ g.cfg.server = Third(s)
        \/ g.tries = 3 /\ g.asked = {s, Second(s), Third(s)}

GenOK(g) == g \in Generation /\ Tried(g)
Gens == gen \in [Procs -> Generation] /\ \A p \in Procs : Tried(gen[p])

LEMMA NextIsServer == \A s \in Server : NextServer(s) \in Server
  BY CoreConfigAssumption DEF Server, NextServer

LEMMA IdleOK == GenOK(Idle)
  BY CoreConfigAssumption DEF GenOK, Tried, Generation, Idle, Fresh, Config, Server, Cores, Contents

LEMMA BeginOK ==
  ASSUME NEW by \in {"menu", "task", "hot", "start"}, NEW c \in Config
  PROVE  GenOK([Idle EXCEPT !.pc = "ask", !.by = by, !.cfg = c])
<1> DEFINE g == [Idle EXCEPT !.pc = "ask", !.by = by, !.cfg = c]
<1>1. g \in Generation
  BY IdleOK DEF GenOK, Generation
<1>2. g.pc = "ask" /\ g.tries = 0 /\ g.asked = {}
  BY DEF Idle
<1>3. QED BY <1>1, <1>2 DEF GenOK, Tried

LEMMA UseBeginOK ==
  ASSUME NEW c \in Config
  PROVE  GenOK([Idle EXCEPT !.pc = "ask", !.cfg = c])
<1> DEFINE g == [Idle EXCEPT !.pc = "ask", !.cfg = c]
<1>1. g \in Generation
  BY IdleOK DEF GenOK, Generation
<1>2. g.pc = "ask" /\ g.tries = 0 /\ g.asked = {}
  BY DEF Idle
<1>3. QED BY <1>1, <1>2 DEF GenOK, Tried

\* A process takes a step to g, and nothing else of the generation changes.
LEMMA StepOK ==
  ASSUME Gens, NEW q \in Procs, NEW g, GenOK(g), Step(q, g)
  PROVE  Gens'
  BY DEF Gens, Step, GenOK

\* What of the type invariant is not about the generation.
Rest ==
    /\ cfg \in Config /\ tmp \in Contents /\ file \in [Cores -> Contents]
    /\ custom \in [CustomFiles -> {None, "fine", "refused"}]
    /\ start \in [pc : {"off", "down", "begun", "checked", "failed", "built", "ready"}, core : Cores, dis : BOOLEAN]
    /\ runtime \in {None, "whole", "plain", "unusable", "refused", "loop"}
    /\ conf \in {None, "whole", "plain", "unprepared"}
    /\ disk \in Disks /\ ops \in 0 .. MaxOps

IInv == Rest /\ Gens

LEMMA OpOK == Rest /\ Op => ops' \in 0 .. MaxOps
  BY CoreConfigAssumption DEF Rest, Op

LEMMA InitOK == Init => IInv
<1>1. Init => Rest
  <2>1. Fresh \in Config /\ [Fresh EXCEPT !.url = TRUE] \in Config
    <3>1. 1 \in Server
      BY CoreConfigAssumption DEF Server
    <3>2. QED BY <3>1 DEF Fresh, Config, Cores
  <2>2. ASSUME Init
        PROVE  file \in [Cores -> Contents] /\ tmp \in Contents
               /\ custom \in [CustomFiles -> {None, "fine", "refused"}]
    <3>1. [clash |-> "good", singbox |-> None] \in [Cores -> Contents]
      BY DEF Cores, Contents
    <3>2. QED BY <2>2, <3>1 DEF Init, Contents
  <2>3. ASSUME Init
        PROVE  /\ cfg \in Config /\ disk \in Disks /\ ops \in 0 .. MaxOps
               /\ runtime = None /\ conf = None
    <3>1. cfg \in {Fresh, [Fresh EXCEPT !.url = TRUE]} /\ disk \in Disks /\ ops = 0
          /\ runtime = None /\ conf = None
      BY <2>3 DEF Init
    <3>2. 0 \in 0 .. MaxOps
      BY CoreConfigAssumption
    <3>3. QED BY <3>1, <3>2, <2>1
  <2>4. ASSUME Init
        PROVE  start \in [pc : {"off", "down", "begun", "checked", "failed", "built", "ready"}, core : Cores, dis : BOOLEAN]
    BY <2>4 DEF Init, Cores
  <2>5. QED BY <2>2, <2>3, <2>4 DEF Rest
<1>2. Init => Gens
  BY IdleOK DEF Init, Gens, GenOK
<1>3. QED BY <1>1, <1>2 DEF IInv

-----------------------------------------------------------------------------
\* The generation, step by step.

LEMMA AskFailsOK == IInv /\ AskFails => IInv'
<1> SUFFICES ASSUME Rest, Gens, AskFails PROVE Rest' /\ Gens'
  BY DEF IInv
<1>2. PICK p \in Procs :
        /\ At(p, "ask")
        /\ IF ~gen[p].cfg.https /\ gen[p].cfg.url
           THEN IF gen[p].tries + 1 >= 3
                THEN /\ Step(p, [gen[p] EXCEPT !.pc = "failed", !.tries = 3, !.asked = @ \cup {gen[p].cfg.server}])
                     /\ UNCHANGED cfg
                ELSE /\ Step(p, [gen[p] EXCEPT !.tries = @ + 1, !.asked = @ \cup {gen[p].cfg.server},
                                               !.cfg.server = NextServer(@)])
                     /\ cfg' = [gen[p].cfg EXCEPT !.server = NextServer(@)]
           ELSE Step(p, Idle) /\ UNCHANGED cfg
        /\ OnlyGen /\ UNCHANGED <<tmp, file, conf, ops>>
  BY DEF AskFails
<1> DEFINE g == gen[p]
           last == [g EXCEPT !.pc = "failed", !.tries = 3, !.asked = @ \cup {g.cfg.server}]
           next == [g EXCEPT !.tries = @ + 1, !.asked = @ \cup {g.cfg.server}, !.cfg.server = NextServer(@)]
<1>3. g \in Generation /\ Tried(g) /\ g.pc = "ask" /\ g.tries \in 0 .. 2
  BY <1>2 DEF Gens, At, Tried
<1>4. g.cfg \in Config /\ g.cfg.server \in Server /\ g.asked \in SUBSET Server
      /\ g.asked \cup {g.cfg.server} \in SUBSET Server
  BY <1>3 DEF Generation, Config
<1>5. [g.cfg EXCEPT !.server = NextServer(@)] \in Config
  BY <1>4, NextIsServer DEF Config
<1>6. CASE ~g.cfg.https /\ g.cfg.url /\ g.tries + 1 >= 3
  <2>1. g.tries = 2
    BY <1>3, <1>6
  <2>2. last \in Generation
    <3>1. \A t \in 0 .. 3, a \in SUBSET Server :
            [g EXCEPT !.tries = t, !.asked = a] \in Generation
      BY <1>3 DEF Generation
    <3>2. \A h \in Generation : [h EXCEPT !.pc = "failed"] \in Generation
      BY DEF Generation
    <3>3. last = [[g EXCEPT !.tries = 3, !.asked = g.asked \cup {g.cfg.server}] EXCEPT !.pc = "failed"]
      BY <1>3 DEF Generation
    <3>4. 3 \in 0 .. 3
      OBVIOUS
    <3> HIDE DEF last
    <3>5. QED BY <3>1, <3>2, <3>3, <3>4, <1>4
  <2>3. last.pc = "failed" /\ last.tries = 3 /\ last.asked = g.asked \cup {g.cfg.server}
    BY <1>3 DEF Generation
  <2>4. PICK s \in Server : g.asked = {s, Second(s)} /\ g.cfg.server = Third(s)
    BY <2>1, <1>3 DEF Tried
  <2>5. last.asked = {s, Second(s), Third(s)}
    BY <2>3, <2>4
  <2>6. Tried(last)
    BY <2>3, <2>4, <2>5 DEF Tried
  <2>7. Gens'
    BY <1>2, <1>6, <2>2, <2>6, StepOK DEF GenOK
  <2>8. Rest'
    BY <1>2, <1>6 DEF Rest, OnlyGen
  <2>9. QED BY <2>7, <2>8
<1>7. CASE ~g.cfg.https /\ g.cfg.url /\ ~(g.tries + 1 >= 3)
  <2>1. g.tries \in {0, 1}
    BY <1>3, <1>7
  <2>2. next \in Generation
    <3>1. \A t \in 0 .. 3, a \in SUBSET Server, c \in Config :
            [g EXCEPT !.tries = t, !.asked = a, !.cfg = c] \in Generation
      BY <1>3 DEF Generation
    <3>2. next = [g EXCEPT !.tries = g.tries + 1, !.asked = g.asked \cup {g.cfg.server},
                           !.cfg = [g.cfg EXCEPT !.server = NextServer(g.cfg.server)]]
      BY <1>3 DEF Generation
    <3>3. g.tries + 1 \in 0 .. 3
      BY <2>1
    <3>4. QED BY <3>1, <3>2, <3>3, <1>4, <1>5
  <2>3. next.pc = "ask" /\ next.tries = g.tries + 1 /\ next.asked = g.asked \cup {g.cfg.server}
        /\ next.cfg.server = NextServer(g.cfg.server)
    BY <1>3, <1>4 DEF Generation, Config
  <2>4. Tried(next)
    <3>1. CASE g.tries = 0
      <4>1. next.tries = 1 /\ next.asked = {g.cfg.server} /\ next.cfg.server = Second(g.cfg.server)
        BY <3>1, <2>3, <1>3 DEF Tried, Second
      <4>2. QED BY <4>1, <2>3, <1>4 DEF Tried
    <3>2. CASE g.tries = 1
      <4>1. PICK s \in Server : g.asked = {s} /\ g.cfg.server = Second(s)
        BY <3>2, <1>3 DEF Tried
      <4>2. next.tries = 2 /\ next.asked = {s, Second(s)} /\ next.cfg.server = Third(s)
        BY <3>2, <4>1, <2>3 DEF Second, Third
      <4>3. QED BY <4>2, <2>3 DEF Tried
    <3>3. QED BY <2>1, <3>1, <3>2
  <2>5. Gens'
    BY <1>2, <1>7, <2>2, <2>4, StepOK DEF GenOK
  <2>6. Rest'
    BY <1>2, <1>5, <1>7 DEF Rest, OnlyGen
  <2>7. QED BY <2>5, <2>6
<1>8. CASE ~(~g.cfg.https /\ g.cfg.url)
  <2>1. Gens'
    BY <1>2, <1>8, IdleOK, StepOK
  <2>2. Rest'
    BY <1>2, <1>8 DEF Rest, OnlyGen
  <2>3. QED BY <2>1, <2>2
<1>9. QED BY <1>6, <1>7, <1>8

LEMMA GenStartOK == IInv /\ GenStart => IInv'
<1> SUFFICES ASSUME Rest, Gens, GenStart PROVE Rest' /\ Gens'
  BY DEF IInv
<1>1. Rest'
  BY OpOK DEF GenStart, Rest, OnlyGen
<1>2. Gens'
  BY BeginOK, StepOK DEF GenStart, GenBegin, Rest
<1>3. QED BY <1>1, <1>2

\* A process whose tries are over, or that gives up.
LEMMA AfterTriesOK ==
  ASSUME NEW g \in Generation, NEW pc \in {"got", "checked", "saved"}, NEW answer \in Contents
  PROVE  /\ GenOK([g EXCEPT !.pc = pc, !.tries = 0, !.asked = {}, !.answer = answer])
         /\ Tried(g) => GenOK([g EXCEPT !.pc = pc, !.answer = answer])
         /\ Tried(g) => GenOK([g EXCEPT !.pc = pc])
<1> DEFINE g1 == [g EXCEPT !.pc = pc, !.tries = 0, !.asked = {}, !.answer = answer]
           g2 == [g EXCEPT !.pc = pc, !.answer = answer]
           g3 == [g EXCEPT !.pc = pc]
<1>1. g1 \in Generation /\ g2 \in Generation /\ g3 \in Generation
  <2>1. g3 \in Generation
    BY DEF Generation
  <2>2. \A h \in Generation : [h EXCEPT !.answer = answer] \in Generation
    BY DEF Generation
  <2>3. \A h \in Generation, t \in 0 .. 3 : [h EXCEPT !.tries = t] \in Generation
    BY DEF Generation
  <2>4. \A h \in Generation, a \in SUBSET Server : [h EXCEPT !.asked = a] \in Generation
    BY DEF Generation
  <2>5. 0 \in 0 .. 3 /\ {} \in SUBSET Server
    OBVIOUS
  <2>6. g2 = [g3 EXCEPT !.answer = answer]
    BY DEF Generation
  <2>7. g1 = [[[g3 EXCEPT !.tries = 0] EXCEPT !.asked = {}] EXCEPT !.answer = answer]
    BY DEF Generation
  <2> HIDE DEF g1, g2, g3
  <2>8. QED BY <2>1, <2>2, <2>3, <2>4, <2>5, <2>6, <2>7
<1>2. g1.pc = pc /\ g1.tries = 0 /\ g1.asked = {}
  BY DEF Generation
<1>3. g2.pc = pc /\ g2.tries = g.tries /\ g2.asked = g.asked /\ g2.cfg = g.cfg
  BY DEF Generation
<1>4. g3.pc = pc /\ g3.tries = g.tries /\ g3.asked = g.asked /\ g3.cfg = g.cfg
  BY DEF Generation
<1>5. Tried(g1)
  BY <1>2 DEF Tried
<1>6. Tried(g) => Tried(g2) /\ Tried(g3)
  <2> HIDE DEF g2, g3
  <2>1. QED BY <1>3, <1>4 DEF Tried
<1>7. QED BY <1>1, <1>5, <1>6 DEF GenOK

LEMMA AnswerOK == IInv /\ (Failed \/ AskAnswered \/ Check \/ SaveCfg) => IInv'
<1> SUFFICES ASSUME Rest, Gens PROVE Failed \/ AskAnswered \/ Check \/ SaveCfg => Rest' /\ Gens'
  BY DEF IInv
<1>1. Failed => Rest' /\ Gens'
  <2>1. Failed => Rest'
    BY DEF Failed, Rest, OnlyGen
  <2>2. QED BY <2>1, IdleOK, StepOK DEF Failed
<1>2. AskAnswered => Rest' /\ Gens'
  <2>1. AskAnswered => Rest'
    BY DEF AskAnswered, Rest, OnlyGen, Contents
  <2>2. AskAnswered => Gens'
    BY AfterTriesOK, StepOK DEF AskAnswered, Gens, Contents
  <2>3. QED BY <2>1, <2>2
<1>3. Check => Rest' /\ Gens'
  <2>1. Check => Rest'
    BY DEF Check, Rest, OnlyGen
  <2>2. Check => Gens'
    BY AfterTriesOK, IdleOK, StepOK DEF Check, Gens, Contents
  <2>3. QED BY <2>1, <2>2
<1>4. SaveCfg => Rest' /\ Gens'
  <2>1. ASSUME NEW g \in Generation PROVE [g.cfg EXCEPT !.https = FALSE] \in Config
    BY DEF Generation, Config
  <2>2. SaveCfg => Rest'
    BY <2>1 DEF SaveCfg, Rest, Gens, OnlyGen
  <2>3. SaveCfg => Gens'
    BY AfterTriesOK, StepOK DEF SaveCfg, Gens, Contents
  <2>4. QED BY <2>2, <2>3
<1>5. QED BY <1>1, <1>2, <1>3, <1>4

LEMMA InstallOK == IInv /\ (Install \/ InstallFails \/ GenKilled \/ Reboot) => IInv'
<1> SUFFICES ASSUME Rest, Gens PROVE Install \/ InstallFails \/ GenKilled \/ Reboot => Rest' /\ Gens'
  BY DEF IInv
<1>1. Install => Rest' /\ Gens'
  <2>1. ASSUME NEW g \in Generation, Then(g)
        PROVE  /\ start' \in [pc : {"off", "down", "begun", "checked", "failed", "built", "ready"}, core : Cores, dis : BOOLEAN]
               /\ conf' \in {None, "whole", "plain", "unprepared"}
    BY <2>1 DEF Then, Rest, Config
  <2>2. ASSUME NEW g \in Generation
        PROVE  [file EXCEPT ![g.cfg.core] = tmp] \in [Cores -> Contents]
    BY DEF Rest
  <2>3. Install => Rest'
    BY <2>1, <2>2 DEF Install, Rest, Gens, Contents
  <2>4. Install => Gens'
    BY IdleOK, StepOK DEF Install
  <2>5. QED BY <2>3, <2>4
<1>2. InstallFails => Rest' /\ Gens'
  <2>1. InstallFails => Rest'
    BY DEF InstallFails, Rest, OnlyGen
  <2>2. QED BY <2>1, IdleOK, StepOK DEF InstallFails
<1>3. GenKilled => Rest' /\ Gens'
  <2>1. GenKilled => Rest'
    BY OpOK DEF GenKilled, Rest, OnlyGen
  <2>2. QED BY <2>1, IdleOK, StepOK DEF GenKilled
<1>4. Reboot => Rest' /\ Gens'
  <2>1. Reboot => Rest'
    BY OpOK DEF Reboot, Rest, Contents
  <2>2. Reboot => Gens'
    BY IdleOK DEF Reboot, Gens, GenOK
  <2>3. QED BY <2>1, <2>2
<1>5. QED BY <1>1, <1>2, <1>3, <1>4

-----------------------------------------------------------------------------
\* The menus and the start.

LEMMA UseOK == IInv /\ (UseProvider \/ UseAll \/ UseFile) => IInv'
<1> SUFFICES ASSUME Rest, Gens PROVE UseProvider \/ UseAll \/ UseFile => Rest' /\ Gens'
  BY DEF IInv
<1>1. ASSUME NEW new \in Config, Use(new) PROVE Rest' /\ Gens'
  <2>1. Rest'
    BY <1>1, OpOK DEF Use, Rest
  <2>2. QED BY <1>1, <2>1, UseBeginOK, StepOK DEF Use
<1>2. \A u, h \in BOOLEAN : [cfg EXCEPT !.url = u, !.https = h] \in Config
  BY DEF Rest, Config
<1>3. UseProvider \/ UseAll => Rest' /\ Gens'
  BY <1>1, <1>2 DEF UseProvider, UseAll
<1>4. UseFile => Rest' /\ Gens'
  <2>1. UseFile => Rest'
    BY OpOK DEF UseFile, Rest, Contents
  <2>2. QED BY <2>1, BeginOK, StepOK DEF UseFile, GenBegin, Rest
<1>5. QED BY <1>3, <1>4

LEMMA MenuOK ==
  IInv /\ (SetServer \/ SwitchCore \/ DisableOverride \/ AddRule \/ AddProxy \/ AddGroup
           \/ RemoveRule \/ RemoveProxy \/ ClearGroups \/ OwnFile \/ Upload \/ FillClash \/ FillSingbox) => IInv'
<1> SUFFICES ASSUME Rest, Gens
    PROVE  SetServer \/ SwitchCore \/ DisableOverride \/ AddRule \/ AddProxy \/ AddGroup
           \/ RemoveRule \/ RemoveProxy \/ ClearGroups \/ OwnFile \/ Upload \/ FillClash \/ FillSingbox => Rest' /\ Gens'
  BY DEF IInv
<1>1. SetServer \/ SwitchCore \/ DisableOverride => Rest' /\ gen' = gen
  BY OpOK DEF SetServer, SwitchCore, DisableOverride, OnlyCfg, Rest, Config
<1>2. \A f \in CustomFiles, lines \in SUBSET {"fine", "refused"} : Add(f, lines) => Rest' /\ gen' = gen
  BY OpOK DEF Add, OnlyCustom, Rest
<1>3. \A f \in CustomFiles, left \in {None, "fine"} : Remove(f, left) => Rest' /\ gen' = gen
  BY OpOK DEF Remove, OnlyCustom, Rest
<1>4. AddRule \/ AddProxy \/ AddGroup \/ RemoveRule \/ RemoveProxy \/ ClearGroups => Rest' /\ gen' = gen
  BY <1>2, <1>3 DEF AddRule, AddProxy, AddGroup, RemoveRule, RemoveProxy, ClearGroups, CustomFiles, ClashFiles
<1>5. \A c \in Cores : OtherConfig(c, {"good", "empty", "bad"}) \/ OtherConfig(c, {"good", "bad"}) => Rest' /\ gen' = gen
  BY OpOK DEF OtherConfig, Rest, Contents
<1>6. \A f \in CustomFiles, contents \in SUBSET {None, "fine", "refused"} :
        PutFile(f, contents) => Rest' /\ gen' = gen
  BY OpOK DEF PutFile, OnlyCustom, Rest
<1>7. OwnFile => Rest' /\ gen' = gen
  BY <1>6 DEF OwnFile, CustomFiles, ClashFiles
<1>8. Upload \/ FillClash \/ FillSingbox => Rest' /\ gen' = gen
  <2>1. cfg.core \in Cores
    BY DEF Rest, Config
  <2>2. Upload => Rest' /\ gen' = gen
    BY <1>5, <1>6, <2>1 DEF Upload, FilesOf, CustomFiles, ClashFiles
  <2>3. QED BY <1>5, <2>2 DEF FillClash, FillSingbox, Cores
<1>9. gen' = gen => Gens'
  BY DEF Gens
<1>10. QED BY <1>1, <1>4, <1>7, <1>8, <1>9

LEMMA StartOK == IInv /\ (StartBegin \/ Going) => IInv'
<1> SUFFICES ASSUME Rest, Gens PROVE StartBegin \/ Going => Rest' /\ Gens'
  BY DEF IInv
<1>1. gen' = gen => Gens'
  BY DEF Gens
<1>2. StartBegin => Rest' /\ gen' = gen
  BY OpOK DEF StartBegin, OnlyStart, Rest, Config
<1>3. StartGenerates => Rest' /\ Gens'
  <2>1. StartGenerates => Rest'
    BY DEF StartGenerates, Rest
  <2>2. [GenBegin("task") EXCEPT !.by = "start"] = [Idle EXCEPT !.pc = "ask", !.by = "start", !.cfg = cfg]
    BY DEF GenBegin, Idle
  <2>3. GenOK([GenBegin("task") EXCEPT !.by = "start"])
    BY <2>2, BeginOK DEF Rest
  <2>4. QED BY <2>1, <2>3, StepOK DEF StartGenerates, Step
<1>4. StartChecks \/ PrechecksFail => Rest' /\ gen' = gen
  BY DEF StartChecks, PrechecksFail, OnlyStart, Rest
<1>5. BuildClash \/ BuildSingbox \/ BuildFails => Rest' /\ gen' = gen
  BY DEF BuildClash, BuildSingbox, BuildFails, Built, OnlyStart, Rest
<1>6. LinkOld \/ Launch => Rest' /\ gen' = gen
  BY DEF LinkOld, Launch, OnlyStart, Rest
<1>7. QED BY <1>1, <1>2, <1>3, <1>4, <1>5, <1>6 DEF Going

LEMMA IInvHolds == Spec => []IInv
<1>1. IInv /\ [Next]_vars => IInv'
  <2>1. IInv /\ UNCHANGED vars => IInv'
    BY DEF IInv, Rest, Gens, vars, config
  <2>2. QED
    BY <2>1, GenStartOK, AskFailsOK, AnswerOK, InstallOK, UseOK, MenuOK, StartOK
    DEF Next, Generates, Menus
<1>2. QED BY InitOK, <1>1, PTL DEF Spec

\* Every file, step and setting of the generation and the start is of its kind.
THEOREM TypeCorrect == Spec => []TypeOK
<1>1. IInv => TypeOK
  BY DEF IInv, TypeOK, Rest, Gens
<1>2. QED BY <1>1, IInvHolds, PTL

-----------------------------------------------------------------------------
\* How many converters three tries in a row ask.
LEMMA ThreeAsked ==
  ASSUME NEW s \in Server
  PROVE  Cardinality({s, Second(s), Third(s)}) = IF ServerCount < 3 THEN ServerCount ELSE 3
<1>1. CASE ServerCount = 1
  <2>1. {s, Second(s), Third(s)} = {1}
    BY <1>1 DEF Server, Second, Third, NextServer
  <2>2. QED BY <2>1, <1>1, FS_Singleton
<1>2. CASE ServerCount = 2
  <2>1. {s, Second(s), Third(s)} = {1} \cup {2}
    BY <1>2 DEF Server, Second, Third, NextServer
  <2>2. IsFiniteSet({1}) /\ Cardinality({1}) = 1
    BY FS_Singleton
  <2>3. 2 \notin {1}
    OBVIOUS
  <2>4. Cardinality({1} \cup {2}) = 2
    BY <2>2, <2>3, FS_AddElement
  <2>5. QED BY <2>1, <2>4, <1>2
<1>3. CASE ServerCount >= 3
  <2>1. Second(s) # s /\ Third(s) # s /\ Third(s) # Second(s)
    BY <1>3, CoreConfigAssumption DEF Server, Second, Third, NextServer
  <2>2. IsFiniteSet({s}) /\ Cardinality({s}) = 1
    BY FS_Singleton
  <2>3. IsFiniteSet({s} \cup {Second(s)}) /\ Cardinality({s} \cup {Second(s)}) = 2
    BY <2>1, <2>2, FS_AddElement
  <2>4. Cardinality(({s} \cup {Second(s)}) \cup {Third(s)}) = 3
    BY <2>1, <2>3, FS_AddElement
  <2>5. {s, Second(s), Third(s)} = ({s} \cup {Second(s)}) \cup {Third(s)}
    OBVIOUS
  <2>6. QED BY <2>4, <2>5, <1>3, CoreConfigAssumption
<1>4. QED BY <1>1, <1>2, <1>3, CoreConfigAssumption

\* Run gives up after three converters or all there are, wherever in the list
\* it began: the next one after the last is the first.
THEOREM AllTried == Spec => []FallbackTries
<1>1. ASSUME IInv, NEW p \in Procs, At(p, "failed")
      PROVE  Cardinality(gen[p].asked) = IF ServerCount < 3 THEN ServerCount ELSE 3
  <2>1. PICK s \in Server : gen[p].asked = {s, Second(s), Third(s)}
    BY <1>1 DEF IInv, Gens, Tried, At
  <2>2. QED BY <2>1, ThreeAsked
<1>2. IInv => FallbackTries
  BY <1>1 DEF FallbackTries
<1>3. QED BY <1>2, IInvHolds, PTL

-----------------------------------------------------------------------------
(***************************************************************************)
(* The list of providers, Providers, for any names: the two files stay     *)
(* complements of each other for everything that was saved.  Between the   *)
(* two writes the first file must already agree with what the second is    *)
(* going to be, and, for whatever is not being saved, still with what it   *)
(* is: the menu may end there.                                             *)
(***************************************************************************)
Listed(n, second) == (subs[n] # Unset) # (n \in second)
Own(n) == edit.pc # "d" /\ n = edit.name

Lists ==
    /\ ListTypeOK
    /\ edit.pc \in {"a", "c", "e"} => edit.name \in Names
    /\ \A n \in saved \ cut :
        /\ AtRest => Listed(n, uris)
        /\ ~AtRest => Listed(n, todo) /\ (Own(n) \/ Listed(n, uris))

LEMMA ListsInit == ListInit => Lists
  BY ProvidersAssumption DEF ListInit, Lists, ListTypeOK, Listed, Own, AtRest, Closed, Links

LEMMA ListsOpen == Lists /\ (OpenProvider \/ SetNameOrLink \/ CloseProvider) => Lists'
<1>1. ASSUME Lists, OpenProvider PROVE Lists'
  BY <1>1, ProvidersAssumption
  DEF Lists, ListTypeOK, OpenProvider, Listed, Own, AtRest, Closed, Links
<1>2. ASSUME Lists, SetNameOrLink PROVE Lists'
  BY <1>2 DEF Lists, ListTypeOK, SetNameOrLink, Opened, Listed, Own, AtRest
<1>3. ASSUME Lists, CloseProvider PROVE Lists'
  BY <1>3 DEF Lists, ListTypeOK, CloseProvider, Opened, Listed, Own, AtRest, Closed
<1>4. QED BY <1>1, <1>2, <1>3

LEMMA ListsSave == ASSUME NEW how \in {"a", "c", "e"}, Lists, SaveProvider(how) PROVE Lists'
<1> DEFINE gone == {edit.name, edit.last}
<1>1. /\ edit.name \in Names /\ edit.link \in Links /\ edit.link # Unset
      /\ edit.pc = "open" /\ edit' = [edit EXCEPT !.pc = how] /\ uris' = uris
      /\ subs' = [m \in Names |-> IF m = edit.name /\ edit.link # "uri" THEN edit.link
                                  ELSE IF m \in gone THEN Unset ELSE subs[m]]
      /\ todo' = (uris \ gone) \cup (IF edit.link = "uri" THEN {edit.name} ELSE {})
      /\ saved' = (saved \ gone) \cup {edit.name} /\ cut' = cut \ gone
  BY DEF SaveProvider, FirstFile, SecondFile, Opened, Lists, ListTypeOK
<1>2. ListTypeOK'
  BY <1>1, ProvidersAssumption DEF Lists, ListTypeOK, Links
<1>3. ASSUME NEW n \in (saved \ cut)' PROVE Listed(n, todo)' /\ (Own(n)' \/ Listed(n, uris)')
  <2>1. CASE n = edit.name
    BY <2>1, <1>1, ProvidersAssumption DEF Listed, Own, Links, Lists, ListTypeOK
  <2>2. CASE n # edit.name
    <3>1. n \in saved \ cut /\ n \notin gone /\ n \in Names
      BY <2>2, <1>1, <1>3 DEF Lists, ListTypeOK
    <3>2. subs'[n] = subs[n] /\ (n \in todo' <=> n \in uris)
      BY <3>1, <1>1
    <3>3. Listed(n, uris)
      BY <3>1, <1>1 DEF Lists, AtRest
    <3>4. QED BY <3>2, <3>3, <1>1 DEF Listed
  <2>3. QED BY <2>1, <2>2
<1>4. ~AtRest' /\ edit'.name \in Names
  BY <1>1 DEF AtRest, Lists, ListTypeOK
<1>5. QED BY <1>2, <1>3, <1>4 DEF Lists

LEMMA ListsRemove == Lists /\ (DeleteProvider \/ ClearProviders) => Lists'
<1>1. ASSUME Lists, DeleteProvider PROVE Lists'
  BY <1>1, ProvidersAssumption
  DEF Lists, ListTypeOK, DeleteProvider, FirstFile, SecondFile, Opened, Listed, Own, AtRest, Links
<1>2. ASSUME Lists, ClearProviders PROVE Lists'
  BY <1>2, ProvidersAssumption DEF Lists, ListTypeOK, ClearProviders, AtRest, Closed, Links
<1>3. QED BY <1>1, <1>2

LEMMA ListsWrite == Lists /\ (SecondWrite \/ MenuKilled) => Lists'
<1>1. ASSUME Lists, SecondWrite PROVE Lists'
  BY <1>1 DEF Lists, ListTypeOK, SecondWrite, Listed, Own, AtRest, Closed, Links
<1>2. ASSUME Lists, MenuKilled PROVE Lists'
  BY <1>2 DEF Lists, ListTypeOK, MenuKilled, Listed, Own, AtRest, Closed, Links
<1>3. QED BY <1>1, <1>2

LEMMA ListsHold == ListSpec => []Lists
<1>1. ListInit => Lists
  BY ListsInit
<1>2. Lists /\ [ListNext]_listVars => Lists'
  <2>1. ASSUME Lists, UNCHANGED listVars PROVE Lists'
    BY <2>1 DEF Lists, ListTypeOK, listVars, Listed, Own, AtRest
  <2>2. QED BY <2>1, ListsOpen, ListsSave, ListsRemove, ListsWrite DEF ListNext
<1>3. QED BY <1>1, <1>2, PTL DEF ListSpec

\* A provider that was saved is listed, and once, whatever is renamed, removed,
\* changed in kind or cut between the two files: writeProviders.
THEOREM SavedStaysListed == ListSpec => []SavedIsListed
<1>1. Lists => SavedIsListed
  BY DEF Lists, SavedIsListed, Listed, ListTypeOK
<1>2. QED BY <1>1, ListsHold, PTL
=============================================================================
