--------------------------- MODULE CrontabProofs ---------------------------
(* Theorems about Crontab for any number of tasks, menus and mishaps. *)
EXTENDS Crontab, SequenceTheorems, FiniteSetTheorems, TLAPS

-----------------------------------------------------------------------------
(* Type correctness *)

\* The part of TypeOK about queues of operations, and the step of an operation a
\* process can be at.
Located(m) ==
    /\ pc[m] = "file" => Head(work[m]).kind \in {"running", "hook"}
    /\ pc[m] \in {"read", "write", "store"} => Head(work[m]).kind # "hook"
    /\ pc[m] = "persist" => Head(work[m]).kind = "cron"
    /\ pc[m] = "prune" => Head(work[m]).kind = "remove"
    /\ pc[m] = "leave" => Head(work[m]).kind = "leave"

Queues ==
    /\ work \in [Procs -> Seq(Ops)]
    /\ pc \in [Procs -> MenuPc \cup ServicePc]
    /\ work[Service] = <<>> /\ pc[Service] \in ServicePc
    /\ \A m \in Menus : pc[m] \in MenuPc /\ (pc[m] = "idle" <=> work[m] = <<>>)
    /\ \A m \in Menus : Located(m)

Values ==
    /\ crontab \subseteq CronLines
    /\ taskCron \subseteq CronLines
    /\ taskRunning \subseteq RunTasks
    /\ taskHook \subseteq HookTasks
    /\ {store, wiped, core, recorded, startOld, disabled, oldMode} \subseteq BOOLEAN
    /\ seen \in [Procs -> SUBSET CronLines]
    /\ asked \subseteq Tasks \cup {Bot}
    /\ mishaps \subseteq MishapKinds

Typed == Queues /\ Values

\* The first operation of a queue, and what is left of it.
LEMMA QueueTail ==
  ASSUME NEW S, NEW q \in Seq(S), q # <<>>
  PROVE  /\ Head(q) \in S /\ Head(q) = q[1]
         /\ Tail(q) \in Seq(S)
         /\ Len(q) \in Nat /\ Len(q) >= 1
         /\ Tail(q) # <<>> => Len(q) >= 2 /\ q[2] \in S /\ q[2] = Head(Tail(q))
<1>1. Len(q) \in Nat /\ Len(q) >= 1
  BY EmptySeq, LenProperties
<1>2. Head(q) \in S /\ Head(q) = q[1] /\ Tail(q) \in Seq(S)
  BY HeadTailProperties, <1>1, ElementOfSeq
<1>3. ASSUME Tail(q) # <<>>
      PROVE  Len(q) >= 2 /\ q[2] \in S /\ q[2] = Head(Tail(q))
  <2>1. Len(Tail(q)) = Len(q) - 1 /\ \A i \in 1 .. Len(Tail(q)) : Tail(q)[i] = q[i+1]
    BY HeadTailProperties, <1>1
  <2>2. Len(Tail(q)) >= 1
    BY <1>2, <1>3, EmptySeq, LenProperties
  <2> QED BY <1>1, <1>2, <2>1, <2>2, ElementOfSeq, HeadTailProperties
<1> QED BY <1>1, <1>2, <1>3

\* An operation that is finished leaves the queue in order.
LEMMA ContinueQueues ==
  ASSUME Queues, NEW m \in Menus, pc[m] # "idle", Continue(m)
  PROVE  Queues'
<1>1. /\ work[m] \in Seq(Ops) /\ work[m] # <<>> /\ m \in Procs /\ m # Service
  BY LinesAssumption DEF Queues, Procs
<1>2. /\ Tail(work[m]) \in Seq(Ops)
      /\ Tail(work[m]) # <<>> => /\ work[m][2] \in Ops
                                 /\ work[m][2] = Head(Tail(work[m]))
  BY <1>1, QueueTail
<1>3. /\ work' = [work EXCEPT ![m] = Tail(work[m])]
      /\ pc' = [pc EXCEPT ![m] = IF Tail(work[m]) = <<>> THEN "idle"
                                 ELSE First(work[m][2])]
  BY DEF Continue
<1>4. ASSUME NEW op \in Ops
      PROVE  /\ First(op) \in {"file", "read"}
             /\ First(op) = "file" => op.kind \in {"running", "hook"}
             /\ First(op) = "read" => op.kind # "hook"
  BY <1>4 DEF First, Ops
<1>5. work' \in [Procs -> Seq(Ops)] /\ pc' \in [Procs -> MenuPc \cup ServicePc]
  BY <1>1, <1>2, <1>3, <1>4 DEF Queues, MenuPc
<1>6. \A n \in Menus : pc'[n] \in MenuPc /\ (pc'[n] = "idle" <=> work'[n] = <<>>)
  <2> TAKE n \in Menus
  <2>1. CASE n = m
    <3>1. CASE Tail(work[m]) = <<>>
      BY <1>1, <1>3, <2>1, <3>1 DEF Queues, MenuPc
    <3>2. CASE Tail(work[m]) # <<>>
      BY <1>1, <1>2, <1>3, <1>4, <2>1, <3>2 DEF Queues, MenuPc
    <3> QED BY <3>1, <3>2
  <2>2. CASE n # m
    BY <1>1, <1>3, <2>2 DEF Queues, Procs
  <2> QED BY <2>1, <2>2
<1>7. \A n \in Menus : Located(n)'
  <2> TAKE n \in Menus
  <2>1. CASE n = m
    <3>1. CASE Tail(work[m]) = <<>>
      BY <1>1, <1>3, <2>1, <3>1 DEF Queues, Located
    <3>2. CASE Tail(work[m]) # <<>>
      BY <1>1, <1>2, <1>3, <1>4, <2>1, <3>2 DEF Queues, Located
    <3> QED BY <3>1, <3>2
  <2>2. CASE n # m
    <3>1. pc'[n] = pc[n] /\ work'[n] = work[n]
      BY <1>1, <1>3, <2>2 DEF Queues, Procs
    <3> QED BY <3>1 DEF Queues, Located
  <2> QED BY <2>1, <2>2
<1>8. work'[Service] = <<>> /\ pc'[Service] \in ServicePc
  BY <1>1, <1>3 DEF Queues, Procs
<1> QED BY <1>5, <1>6, <1>7, <1>8 DEF Queues

\* Going on to another step of the same operation does too.
LEMMA GotoQueues ==
  ASSUME Queues, NEW m \in Menus, pc[m] # "idle", NEW label \in MenuPc, label # "idle",
         Goto(m, label),
         /\ label = "file" => Head(work[m]).kind \in {"running", "hook"}
         /\ label \in {"read", "write", "store"} => Head(work[m]).kind # "hook"
         /\ label = "persist" => Head(work[m]).kind = "cron"
         /\ label = "prune" => Head(work[m]).kind = "remove"
         /\ label = "leave" => Head(work[m]).kind = "leave"
  PROVE  Queues'
BY LinesAssumption DEF Queues, Located, Goto, Procs

\* A new list of operations is a queue.
LEMMA BeginQueues ==
  ASSUME Queues, NEW m \in Menus, NEW ops \in Seq(Ops), ops # <<>>,
         NEW wanted, NEW kinds, Begin(m, ops, wanted, kinds)
  PROVE  Queues'
<1>1. Head(ops) \in Ops
  BY QueueTail
<1>2. /\ First(Head(ops)) \in MenuPc \ {"idle"}
      /\ First(Head(ops)) = "file" => Head(ops).kind \in {"running", "hook"}
      /\ First(Head(ops)) = "read" => Head(ops).kind # "hook"
      /\ First(Head(ops)) \in {"file", "read"}
  BY <1>1 DEF First, Ops, MenuPc
<1>3. /\ work' = [work EXCEPT ![m] = ops]
      /\ pc' = [pc EXCEPT ![m] = First(Head(ops))]
      /\ m \in Procs /\ m # Service
  BY LinesAssumption DEF Begin, Procs
<1> QED BY <1>2, <1>3 DEF Queues, Located

\* The operations of the menus.
LEMMA OperationTypes ==
  /\ \A t \in Tasks : AddOp(t) \in Ops
  /\ \A lines \in SUBSET Lines : RemoveOp(lines) \in Ops
  /\ BotOp({}) \in Ops /\ BotOp({Bot}) \in Ops /\ LeaveOp \in Ops
  /\ Tasks \subseteq Lines
  /\ {Watchdog, Bot} \subseteq Lines
BY DEF AddOp, RemoveOp, BotOp, LeaveOp, Ops, Home, Tasks, Lines, CronLines

\* What the operations of a queue drop and add in all.
Drops(q) == UNION {q[i].drop : i \in DOMAIN q}
Adds(q) == UNION {q[i].add : i \in DOMAIN q}

\* No operation drops for good a line that is wanted.
Spares(q, wanted) == \A i \in DOMAIN q : (q[i].drop \ q[i].add) \cap wanted = {}

\* Queues of one, two and three operations.
LEMMA OneOperation ==
  ASSUME NEW a \in Ops
  PROVE  /\ <<a>> \in Seq(Ops) /\ <<a>> # <<>>
         /\ Drops(<<a>>) = a.drop /\ Adds(<<a>>) = a.add
         /\ \A wanted : (a.drop \ a.add) \cap wanted = {} => Spares(<<a>>, wanted)
BY DEF Drops, Adds, Spares

LEMMA TwoOperations ==
  ASSUME NEW a \in Ops, NEW b \in Ops
  PROVE  /\ <<a, b>> \in Seq(Ops) /\ <<a, b>> # <<>>
         /\ Drops(<<a, b>>) = a.drop \cup b.drop /\ Adds(<<a, b>>) = a.add \cup b.add
         /\ \A wanted : ((a.drop \ a.add) \cup (b.drop \ b.add)) \cap wanted = {} =>
                Spares(<<a, b>>, wanted)
BY DEF Drops, Adds, Spares

LEMMA ThreeOperations ==
  ASSUME NEW a \in Ops, NEW b \in Ops, NEW c \in Ops
  PROVE  /\ <<a, b, c>> \in Seq(Ops) /\ <<a, b, c>> # <<>>
         /\ Drops(<<a, b, c>>) = a.drop \cup b.drop \cup c.drop
         /\ Adds(<<a, b, c>>) = a.add \cup b.add \cup c.add
         /\ \A wanted :
                ((a.drop \ a.add) \cup (b.drop \ b.add) \cup (c.drop \ c.add)) \cap wanted = {} =>
                    Spares(<<a, b, c>>, wanted)
BY DEF Drops, Adds, Spares

\* What a choice in a menu may begin: it drops whatever it stops asking for, and
\* adds whatever it starts asking for, and else only what is listed unasked; without
\* a mishap it drops for good nothing that is asked for.
Begins(m, ops, wanted, kinds) ==
    /\ ops \in Seq(Ops) /\ ops # <<>>
    /\ wanted \subseteq Tasks \cup {Bot}
    /\ kinds \subseteq MishapKinds
    /\ asked \ wanted \subseteq Drops(ops)
    /\ wanted \ asked \subseteq Adds(ops)
    /\ Adds(ops) \subseteq wanted \cup (Listed \ asked)
    /\ kinds = {} => Spares(ops, wanted)
    /\ "legacy" \notin kinds => Watchdog \notin Drops(ops)
    /\ Begin(m, ops, wanted, kinds)

LEMMA BeginType ==
  ASSUME Typed, NEW m \in Menus, NEW ops, NEW wanted, NEW kinds,
         Begins(m, ops, wanted, kinds)
  PROVE  Typed'
<1>1. Queues'
  BY BeginQueues DEF Begins, Typed
<1>2. Values'
  BY DEF Begins, Begin, Note, Overlap, Typed, Values, MishapKinds, files, device, service
<1> QED BY <1>1, <1>2 DEF Typed

\* A choice begins operations, or toggles a setting at once.
LEMMA ChoiceBegins ==
  ASSUME Typed, NEW m \in Menus, Choose(m), ~ModeOn(m), ~SetAutostart(m)
  PROVE  \E ops, wanted, kinds : Begins(m, ops, wanted, kinds)
<1>0. asked \subseteq Tasks \cup {Bot} /\ Listed \subseteq Tasks
  BY DEF Typed, Values, Listed
<1>c. /\ \A t \in Tasks : AddOp(t).drop = {t} /\ AddOp(t).add = {t}
      /\ \A lines : RemoveOp(lines).drop = lines /\ RemoveOp(lines).add = {}
      /\ \A lines : BotOp(lines).drop = {Bot} /\ BotOp(lines).add = lines
      /\ LeaveOp.drop = {} /\ LeaveOp.add = {}
  BY DEF AddOp, RemoveOp, BotOp, LeaveOp
<1>1. CASE AddTask(m)
  <2>1. PICK t \in Tasks :
              Begin(m, <<AddOp(t)>>, asked \cup {t}, {})
    BY <1>1 DEF AddTask
  <2>2. AddOp(t) \in Ops
    BY <1>0, <2>1, OperationTypes DEF Tasks
  <2>3. Drops(<<AddOp(t)>>) = {t} /\ Adds(<<AddOp(t)>>) = {t}
    BY <1>0, <1>c, <2>1, <2>2, OneOperation DEF Tasks
  <2>4. Spares(<<AddOp(t)>>, asked \cup {t})
    BY <1>0, <1>c, <2>1, <2>2, OneOperation DEF Tasks
  <2>5. <<AddOp(t)>> \in Seq(Ops) /\ <<AddOp(t)>> # <<>>
    BY <2>2, OneOperation
  <2>6. Begins(m, <<AddOp(t)>>, asked \cup {t}, {})
    BY <1>0, <2>1, <2>3, <2>4, <2>5, LinesAssumption DEF Begins, MishapKinds, Tasks
  <2> QED BY <2>6
<1>2. CASE ApplyRecommendedTasks(m)
  <2>1. PICK r \in RunTasks, h \in HookTasks, c \in CronTasks :
              Begin(m, <<AddOp(r), AddOp(h), AddOp(c)>>, asked \cup {r, h, c}, {})
    BY <1>2 DEF ApplyRecommendedTasks
  <2>2. AddOp(r) \in Ops /\ AddOp(h) \in Ops /\ AddOp(c) \in Ops
    BY <1>0, <2>1, OperationTypes DEF Tasks
  <2>3. Drops(<<AddOp(r), AddOp(h), AddOp(c)>>) = {r, h, c} /\ Adds(<<AddOp(r), AddOp(h), AddOp(c)>>) = {r, h, c}
    BY <1>0, <1>c, <2>1, <2>2, ThreeOperations DEF Tasks
  <2>4. Spares(<<AddOp(r), AddOp(h), AddOp(c)>>, asked \cup {r, h, c})
    BY <1>0, <1>c, <2>1, <2>2, ThreeOperations DEF Tasks
  <2>5. <<AddOp(r), AddOp(h), AddOp(c)>> \in Seq(Ops) /\ <<AddOp(r), AddOp(h), AddOp(c)>> # <<>>
    BY <2>2, ThreeOperations
  <2>6. Begins(m, <<AddOp(r), AddOp(h), AddOp(c)>>, asked \cup {r, h, c}, {})
    BY <1>0, <2>1, <2>3, <2>4, <2>5, LinesAssumption DEF Begins, MishapKinds, Tasks
  <2> QED BY <2>6
<1>3. CASE RemoveTask(m)
  <2>1. PICK t \in Listed :
              Begin(m, <<RemoveOp({t})>>, asked \ {t}, {})
    BY <1>3 DEF RemoveTask
  <2>2. RemoveOp({t}) \in Ops
    BY <1>0, <2>1, OperationTypes DEF Tasks
  <2>3. Drops(<<RemoveOp({t})>>) = {t} /\ Adds(<<RemoveOp({t})>>) = {}
    BY <1>0, <1>c, <2>1, <2>2, OneOperation DEF Tasks
  <2>4. Spares(<<RemoveOp({t})>>, asked \ {t})
    BY <1>0, <1>c, <2>1, <2>2, OneOperation DEF Tasks
  <2>5. <<RemoveOp({t})>> \in Seq(Ops) /\ <<RemoveOp({t})>> # <<>>
    BY <2>2, OneOperation
  <2>6. Begins(m, <<RemoveOp({t})>>, asked \ {t}, {})
    BY <1>0, <2>1, <2>3, <2>4, <2>5, LinesAssumption DEF Begins, MishapKinds, Tasks
  <2> QED BY <2>6
<1>4. CASE ModifyTask(m)
  <2>1. PICK t \in Listed, u \in Tasks :
              t # u /\ Begin(m, <<AddOp(u), RemoveOp({t})>>, (asked \ {t}) \cup {u}, {})
    BY <1>4 DEF ModifyTask
  <2>2. AddOp(u) \in Ops /\ RemoveOp({t}) \in Ops
    BY <1>0, <2>1, OperationTypes DEF Tasks
  <2>3. Drops(<<AddOp(u), RemoveOp({t})>>) = {t, u} /\ Adds(<<AddOp(u), RemoveOp({t})>>) = {u}
    BY <1>0, <1>c, <2>1, <2>2, TwoOperations DEF Tasks
  <2>4. Spares(<<AddOp(u), RemoveOp({t})>>, (asked \ {t}) \cup {u})
    BY <1>0, <1>c, <2>1, <2>2, TwoOperations DEF Tasks
  <2>5. <<AddOp(u), RemoveOp({t})>> \in Seq(Ops) /\ <<AddOp(u), RemoveOp({t})>> # <<>>
    BY <2>2, TwoOperations
  <2>6. Begins(m, <<AddOp(u), RemoveOp({t})>>, (asked \ {t}) \cup {u}, {})
    BY <1>0, <2>1, <2>3, <2>4, <2>5, LinesAssumption DEF Begins, MishapKinds, Tasks
  <2> QED BY <2>6
<1>5. CASE CancelModify(m)
  <2>1. PICK t \in Listed, again \in BOOLEAN :
              Begin(m, IF again THEN <<AddOp(t), RemoveOp({t})>> ELSE <<RemoveOp({t})>>,
                    asked, {"cancelled"})
    BY <1>5 DEF CancelModify
  <2>2. AddOp(t) \in Ops /\ RemoveOp({t}) \in Ops
    BY <1>0, <2>1, OperationTypes
  <2>3. CASE again
    <3>1. Begin(m, <<AddOp(t), RemoveOp({t})>>, asked, {"cancelled"})
      BY <2>1, <2>3
    <3>2. Adds(<<AddOp(t), RemoveOp({t})>>) = {t} /\ Drops(<<AddOp(t), RemoveOp({t})>>) = {t}
      BY <1>0, <1>c, <2>2, TwoOperations
    <3>3. <<AddOp(t), RemoveOp({t})>> \in Seq(Ops) /\ <<AddOp(t), RemoveOp({t})>> # <<>>
      BY <2>2, TwoOperations
    <3>4. Begins(m, <<AddOp(t), RemoveOp({t})>>, asked, {"cancelled"})
      BY <1>0, <2>1, <3>1, <3>2, <3>3, LinesAssumption DEF Begins, MishapKinds
    <3> QED BY <3>4
  <2>4. CASE ~again
    <3>1. Begin(m, <<RemoveOp({t})>>, asked, {"cancelled"})
      BY <2>1, <2>4
    <3>2. Adds(<<RemoveOp({t})>>) = {} /\ Drops(<<RemoveOp({t})>>) = {t}
      BY <1>c, <2>2, OneOperation
    <3>3. <<RemoveOp({t})>> \in Seq(Ops) /\ <<RemoveOp({t})>> # <<>>
      BY <2>2, OneOperation
    <3>4. Begins(m, <<RemoveOp({t})>>, asked, {"cancelled"})
      BY <1>0, <2>1, <3>1, <3>2, <3>3, LinesAssumption DEF Begins, MishapKinds
    <3> QED BY <3>4
  <2> QED BY <2>3, <2>4
<1>6. CASE ClearTasks(m)
  <2>1. Begin(m, <<RemoveOp(Tasks)>>, asked \ Tasks, {})
    BY <1>6 DEF ClearTasks
  <2>2. RemoveOp(Tasks) \in Ops
    BY <1>0, <2>1, OperationTypes DEF Tasks
  <2>3. Drops(<<RemoveOp(Tasks)>>) = Tasks /\ Adds(<<RemoveOp(Tasks)>>) = {}
    BY <1>0, <1>c, <2>1, <2>2, OneOperation DEF Tasks
  <2>4. Spares(<<RemoveOp(Tasks)>>, asked \ Tasks)
    BY <1>0, <1>c, <2>1, <2>2, OneOperation DEF Tasks
  <2>5. <<RemoveOp(Tasks)>> \in Seq(Ops) /\ <<RemoveOp(Tasks)>> # <<>>
    BY <2>2, OneOperation
  <2>6. Begins(m, <<RemoveOp(Tasks)>>, asked \ Tasks, {})
    BY <1>0, <2>1, <2>3, <2>4, <2>5, LinesAssumption DEF Begins, MishapKinds, Tasks
  <2> QED BY <2>6
<1>7. CASE ClearLegacy(m)
  <2>1. Begin(m, <<RemoveOp({Watchdog, Bot})>>, asked, {"legacy"})
    BY <1>7 DEF ClearLegacy
  <2>2. RemoveOp({Watchdog, Bot}) \in Ops
    BY <1>0, <2>1, OperationTypes DEF Tasks
  <2>3. Drops(<<RemoveOp({Watchdog, Bot})>>) = {Watchdog, Bot} /\ Adds(<<RemoveOp({Watchdog, Bot})>>) = {}
    BY <1>0, <1>c, <2>1, <2>2, OneOperation DEF Tasks
  <2>4. {"legacy"} # {}
    OBVIOUS
  <2>5. <<RemoveOp({Watchdog, Bot})>> \in Seq(Ops) /\ <<RemoveOp({Watchdog, Bot})>> # <<>>
    BY <2>2, OneOperation
  <2>6. Begins(m, <<RemoveOp({Watchdog, Bot})>>, asked, {"legacy"})
    BY <1>0, <2>1, <2>3, <2>4, <2>5, LinesAssumption DEF Begins, MishapKinds, Tasks
  <2> QED BY <2>6
<1>8. CASE BotOn(m)
  <2>1. Begin(m, <<BotOp({Bot})>>, asked \cup {Bot}, {})
    BY <1>8 DEF BotOn
  <2>2. BotOp({Bot}) \in Ops
    BY <1>0, <2>1, OperationTypes DEF Tasks
  <2>3. Drops(<<BotOp({Bot})>>) = {Bot} /\ Adds(<<BotOp({Bot})>>) = {Bot}
    BY <1>0, <1>c, <2>1, <2>2, OneOperation DEF Tasks
  <2>4. Spares(<<BotOp({Bot})>>, asked \cup {Bot})
    BY <1>0, <1>c, <2>1, <2>2, OneOperation DEF Tasks
  <2>5. <<BotOp({Bot})>> \in Seq(Ops) /\ <<BotOp({Bot})>> # <<>>
    BY <2>2, OneOperation
  <2>6. Begins(m, <<BotOp({Bot})>>, asked \cup {Bot}, {})
    BY <1>0, <2>1, <2>3, <2>4, <2>5, LinesAssumption DEF Begins, MishapKinds, Tasks
  <2> QED BY <2>6
<1>9. CASE BotOff(m)
  <2>1. Begin(m, <<BotOp({})>>, asked \ {Bot}, {})
    BY <1>9 DEF BotOff
  <2>2. BotOp({}) \in Ops
    BY <1>0, <2>1, OperationTypes DEF Tasks
  <2>3. Drops(<<BotOp({})>>) = {Bot} /\ Adds(<<BotOp({})>>) = {}
    BY <1>0, <1>c, <2>1, <2>2, OneOperation DEF Tasks
  <2>4. Spares(<<BotOp({})>>, asked \ {Bot})
    BY <1>0, <1>c, <2>1, <2>2, OneOperation DEF Tasks
  <2>5. <<BotOp({})>> \in Seq(Ops) /\ <<BotOp({})>> # <<>>
    BY <2>2, OneOperation
  <2>6. Begins(m, <<BotOp({})>>, asked \ {Bot}, {})
    BY <1>0, <2>1, <2>3, <2>4, <2>5, LinesAssumption DEF Begins, MishapKinds, Tasks
  <2> QED BY <2>6
<1>10. CASE ModeOff(m)
  <2>1. Begin(m, <<LeaveOp>>, asked, {})
    BY <1>10 DEF ModeOff
  <2>2. LeaveOp \in Ops
    BY <1>0, <2>1, OperationTypes DEF Tasks
  <2>3. Drops(<<LeaveOp>>) = {} /\ Adds(<<LeaveOp>>) = {}
    BY <1>0, <1>c, <2>1, <2>2, OneOperation DEF Tasks
  <2>4. Spares(<<LeaveOp>>, asked)
    BY <1>0, <1>c, <2>1, <2>2, OneOperation DEF Tasks
  <2>5. <<LeaveOp>> \in Seq(Ops) /\ <<LeaveOp>> # <<>>
    BY <2>2, OneOperation
  <2>6. Begins(m, <<LeaveOp>>, asked, {})
    BY <1>0, <2>1, <2>3, <2>4, <2>5, LinesAssumption DEF Begins, MishapKinds, Tasks
  <2> QED BY <2>6
<1> QED BY <1>1, <1>2, <1>3, <1>4, <1>5, <1>6, <1>7, <1>8, <1>9, <1>10 DEF Choose

\* The first operation of a busy menu.
LEMMA Current ==
  ASSUME Queues, NEW m \in Menus, pc[m] # "idle"
  PROVE  /\ Head(work[m]) \in Ops /\ work[m] \in Seq(Ops) /\ work[m] # <<>>
         /\ m \in Procs /\ m # Service
BY QueueTail, LinesAssumption DEF Queues, Procs

\* Every step of an operation keeps the types.
LEMMA StepType ==
  ASSUME Typed, NEW m \in Menus, Step(m)
  PROVE  Typed'
<1> DEFINE op == Head(work[m])
<1>0. pc[m] # "idle"
  BY DEF Step, File, Read, Write, Store, Persist, Prune, Leave
<1>1. /\ op \in Ops /\ m \in Procs /\ m # Service /\ Located(m) /\ Queues
  BY <1>0, Current DEF Typed, Queues
<1>2. CASE File(m)
  <2>1. Queues'
    BY <1>0, <1>1, <1>2, ContinueQueues, GotoQueues DEF File, MenuPc
  <2>2. Values'
    BY <1>1, <1>2 DEF File, Values, Typed, Located, Ops, Home, device, service
  <2> QED BY <2>1, <2>2 DEF Typed
<1>3. CASE Read(m)
  <2>1. Queues'
    BY <1>0, <1>1, <1>3, GotoQueues DEF Read, MenuPc, Located
  <2>2. Values'
    BY <1>1, <1>3 DEF Read, ReadCron, Note, Overlap, Values, Typed, MishapKinds, files, device, service
  <2> QED BY <2>1, <2>2 DEF Typed
<1>4. CASE Write(m)
  <2>1. Queues'
    BY <1>0, <1>1, <1>4, GotoQueues DEF Write, MenuPc, Located
  <2>2. op.add \subseteq CronLines
    BY <1>1, <1>4 DEF Write, Located, Ops, Home, CronLines
  <2>3. Values'
    BY <1>1, <1>4, <2>2 DEF Write, Note, Values, Typed, MishapKinds, files, device, service
  <2> QED BY <2>1, <2>3 DEF Typed
<1>5. CASE Store(m)
  <2>1. Queues'
    BY <1>0, <1>1, <1>5, ContinueQueues, GotoQueues DEF Store, AfterStore, MenuPc
  <2>2. Values'
    BY <1>1, <1>5 DEF Store, Values, Typed, device, service
  <2> QED BY <2>1, <2>2 DEF Typed
<1>6. CASE Persist(m)
  <2>1. Queues'
    BY <1>0, <1>1, <1>6, ContinueQueues DEF Persist
  <2>2. op.add \subseteq CronLines
    BY <1>1, <1>6 DEF Persist, Located, Ops, Home, CronLines
  <2>3. Values'
    BY <1>1, <1>6, <2>2 DEF Persist, Values, Typed, device, service
  <2> QED BY <2>1, <2>3 DEF Typed
<1>7. CASE Prune(m)
  <2>1. Queues'
    BY <1>0, <1>1, <1>7, ContinueQueues DEF Prune
  <2>2. Values'
    BY <1>1, <1>7 DEF Prune, Values, Typed, device, service
  <2> QED BY <2>1, <2>2 DEF Typed
<1>8. CASE Leave(m)
  <2>1. Queues'
    BY <1>0, <1>1, <1>8, ContinueQueues DEF Leave
  <2>2. Values'
    BY <1>1, <1>8 DEF Leave, Values, Typed, files, device
  <2> QED BY <2>1, <2>2 DEF Typed
<1> QED BY <1>2, <1>3, <1>4, <1>5, <1>6, <1>7, <1>8 DEF Step

\* A queue does not see what happens to the service's own counter.
LEMMA ServiceQueues ==
  ASSUME Queues, NEW label \in ServicePc, work' = work,
         pc' = [pc EXCEPT ![Service] = label]
  PROVE  Queues'
BY LinesAssumption DEF Queues, Located, Procs

\* The service and the environment keep the types.
LEMMA ServiceType ==
  ASSUME Typed,
         \/ Start \/ WatchdogStart \/ BootInit \/ CoreGone
         \/ AfterStart \/ AfterStartWrite
  PROVE  Typed'
<1>1. ASSUME Start PROVE Typed'
  <2>1. Queues'
    BY <1>1, ServiceQueues DEF Start, Typed, ServicePc
  <2>2. Values'
    BY <1>1 DEF Start, Values, Typed, files, device
  <2> QED BY <2>1, <2>2 DEF Typed
<1>2. CASE BootInit
  <2>1. CASE BootRefused
    BY <1>2, <2>1 DEF BootRefused, Note, Overlap, Typed, Queues, Located, Values, MishapKinds,
                      files, device, service, procs
  <2> QED BY <1>1, <1>2, <2>1 DEF BootInit
<1>3. CASE CoreGone
  BY <1>3 DEF CoreGone, Typed, Queues, Located, Values, files, device, procs
<1>4. CASE AfterStart
  <2>1. Queues'
    BY <1>4, ServiceQueues DEF AfterStart, Typed, ServicePc
  <2>2. Merged \subseteq CronLines
    BY DEF Merged, Typed, Values, CronLines
  <2>3. Values'
    BY <1>4, <2>2 DEF AfterStart, ReadCron, Note, Overlap, Values, Typed, MishapKinds,
                      Procs, files, device, service
  <2> QED BY <2>1, <2>3 DEF Typed
<1>5. CASE AfterStartWrite
  <2>1. Queues'
    BY <1>5, ServiceQueues DEF AfterStartWrite, Typed, ServicePc
  <2>2. Values'
    BY <1>5 DEF AfterStartWrite, Values, Typed, Procs, files, device, service
  <2> QED BY <2>1, <2>2 DEF Typed
<1> QED BY <1>1, <1>2, <1>3, <1>4, <1>5 DEF WatchdogStart

\* So do a kill, a reboot and the settings that begin no operation.
LEMMA OtherType ==
  ASSUME Typed,
         \/ Reboot
         \/ \E p \in Procs : Abandoned(p)
         \/ \E m \in Menus : ModeOn(m) \/ SetAutostart(m)
  PROVE  Typed'
<1>1. CASE Reboot
  BY <1>1, LinesAssumption DEF Reboot, Note, Typed, Queues, Located, Values, MishapKinds,
     MenuPc, ServicePc, Procs, files, device
<1>2. CASE \E p \in Procs : Abandoned(p)
  <2>1. PICK p \in Procs : Abandoned(p)
    BY <1>2
  <2>2. Queues'
    BY <2>1, LinesAssumption DEF Abandoned, Typed, Queues, Located, MenuPc, ServicePc, Procs
  <2>3. Values'
    BY <2>1 DEF Abandoned, Note, Typed, Values, MishapKinds, files, device, service
  <2> QED BY <2>2, <2>3 DEF Typed
<1>3. CASE \E m \in Menus : ModeOn(m) \/ SetAutostart(m)
  <2>1. Queues'
    BY <1>3 DEF ModeOn, SetAutostart, Typed, Queues, Located, procs
  <2>2. Values'
    BY <1>3 DEF ModeOn, SetAutostart, Typed, Values, files, device, service, procs
  <2> QED BY <2>1, <2>2 DEF Typed
<1> QED BY <1>1, <1>2, <1>3

LEMMA NextType ==
  ASSUME Typed, [Next]_vars
  PROVE  Typed'
<1>1. CASE UNCHANGED vars
  BY <1>1 DEF vars, files, device, service, procs, Typed, Queues, Located, Values
<1>2. ASSUME NEW m \in Menus, Choose(m) PROVE Typed'
  BY <1>2, ChoiceBegins, BeginType, OtherType
<1> QED BY <1>1, <1>2, StepType, ServiceType, OtherType DEF Next

LEMMA InitType ==
  ASSUME Init
  PROVE  Typed
<1>1. Queues
  BY LinesAssumption DEF Init, Queues, Located, MenuPc, ServicePc, Procs
<1>2. Values
  BY LinesAssumption DEF Init, Values
<1> QED BY <1>1, <1>2 DEF Typed

\* Type correctness of the crontab model: menus stand at a step of the operation
\* they are in, and no file ever holds a line that belongs in another.
THEOREM TypeCorrect == Spec => []TypeOK
<1>1. Spec => []Typed
  BY InitType, NextType, PTL DEF Spec
<1>2. Typed => TypeOK
  BY DEF Typed, Queues, Values, TypeOK
<1> QED BY <1>1, <1>2, PTL

-----------------------------------------------------------------------------
(* What was removed is gone *)

Clean == mishaps \cap {"overlap", "abandoned"} = {}

\* As long as no overlap was noted, one process at a time is inside its
\* read-modify-write.
Alone == Clean => \A p, q \in Procs : p # q => ~(Busy(p) /\ Busy(q))

LEMMA InitAlone == Init => Alone
BY DEF Init, Alone, Busy

LEMMA NextAlone ==
  ASSUME Typed, Alone, [Next]_vars
  PROVE  Alone'
<1> SUFFICES ASSUME Clean' PROVE (\A p, q \in Procs : p # q => ~(Busy(p) /\ Busy(q)))'
  BY DEF Alone
<1> USE DEF Busy
<1>1. CASE UNCHANGED vars
  BY <1>1 DEF vars, procs, Alone, Clean
<1>2. ASSUME NEW m \in Menus, Choose(m) PROVE Alone'
  <2>1. CASE ModeOn(m) \/ SetAutostart(m)
    BY <2>1 DEF ModeOn, SetAutostart, Alone, Clean, procs
  <2>2. CASE ~(ModeOn(m) \/ SetAutostart(m))
    <3>1. PICK ops, wanted, kinds : Begins(m, ops, wanted, kinds)
      BY <1>2, <2>2, ChoiceBegins
    <3>2. /\ mishaps' = mishaps \cup (kinds \cup Overlap(m))
          /\ pc' = [pc EXCEPT ![m] = First(Head(ops))]
      BY <3>1 DEF Begins, Begin, Note
    <3>3. \A q \in Procs \ {m} : ~Busy(q)
      BY <3>2 DEF Overlap, Clean
    <3> QED BY <3>2, <3>3 DEF Alone, Typed, Queues, Procs
  <2> QED BY <2>1, <2>2
<1>3. ASSUME NEW m \in Menus, Step(m) PROVE Alone'
  <2>1. /\ pc[m] # "idle" /\ m \in Procs /\ m # Service /\ pc[m] \in MenuPc
    BY <1>3, LinesAssumption DEF Step, File, Read, Write, Store, Persist, Prune, Leave,
                                  Procs, Typed, Queues
  <2>2. mishaps \subseteq mishaps' /\ \A q \in Procs \ {m} : pc'[q] = pc[q]
    BY <1>3 DEF Step, File, Read, ReadCron, Write, Store, Persist, Prune, Leave,
                Continue, Goto, Note, Typed, Queues
  <2> QED BY <2>1, <2>2 DEF Alone, Clean, MenuPc
<1>4. ASSUME NEW p \in Procs, Abandoned(p) PROVE Alone'
  BY <1>4 DEF Abandoned, Note, Clean
<1>5. CASE AfterStart
  <2>1. mishaps \subseteq mishaps' /\ \A q \in Procs \ {Service} : pc'[q] = pc[q]
    BY <1>5 DEF AfterStart, ReadCron, Note, Typed, Queues
  <2>2. CASE core
    <3>1. Overlap(Service) \subseteq mishaps'
      BY <1>5, <2>2 DEF AfterStart, ReadCron, Note
    <3>2. \A q \in Procs \ {Service} : ~Busy(q)
      BY <3>1 DEF Overlap, Clean
    <3> QED BY <2>1, <3>2 DEF Alone
  <2>3. CASE ~core
    <3>1. ~Busy(Service)'
      BY <1>5, <2>3 DEF AfterStart, Typed, Queues, Procs
    <3> QED BY <2>1, <3>1 DEF Alone, Clean
  <2> QED BY <2>2, <2>3
<1>6. ASSUME Start \/ AfterStartWrite PROVE Alone'
  <2>1. mishaps' = mishaps /\ \A q \in Procs \ {Service} : pc'[q] = pc[q]
    BY <1>6 DEF Start, AfterStartWrite, Typed, Queues
  <2>2. ~Busy(Service)'
    BY <1>6 DEF Start, AfterStartWrite, Typed, Queues, Procs
  <2> QED BY <2>1, <2>2 DEF Alone, Clean
<1>7. CASE BootInit
  <2>1. CASE BootRefused
    BY <1>7, <2>1 DEF BootInit, BootRefused, Note, Alone, Clean, procs
  <2> QED BY <1>6, <1>7, <2>1 DEF BootInit, Alone
<1>8. CASE CoreGone
  BY <1>8 DEF CoreGone, Alone, Clean, procs
<1>9. CASE Reboot
  BY <1>9 DEF Reboot, Typed, Queues
<1> QED BY <1>1, <1>2, <1>3, <1>4, <1>5, <1>6, <1>7, <1>8, <1>9 DEF Next, WatchdogStart, Alone

\* Dropping and adding is done by the first operation and by the rest.
LEMMA QueueParts ==
  ASSUME NEW q \in Seq(Ops), q # <<>>
  PROVE  /\ Drops(q) = Head(q).drop \cup Drops(Tail(q))
         /\ Adds(q) = Head(q).add \cup Adds(Tail(q))
         /\ \A wanted : Spares(q, wanted) =>
                /\ (Head(q).drop \ Head(q).add) \cap wanted = {}
                /\ Spares(Tail(q), wanted)
<1>1. /\ Len(q) \in Nat /\ Len(q) >= 1 /\ Head(q) = q[1]
      /\ DOMAIN q = 1 .. Len(q) /\ Tail(q) \in Seq(Ops)
  BY QueueTail, LenProperties
<1>2. /\ DOMAIN Tail(q) = 1 .. (Len(q) - 1)
      /\ \A i \in 1 .. (Len(q) - 1) : Tail(q)[i] = q[i+1]
  BY <1>1, HeadTailProperties, LenProperties
<1>3. /\ 1 \in DOMAIN q
      /\ \A i \in DOMAIN Tail(q) : i + 1 \in DOMAIN q /\ Tail(q)[i] = q[i+1]
      /\ \A i \in DOMAIN q : i = 1 \/ (i - 1 \in DOMAIN Tail(q) /\ Tail(q)[i-1] = q[i])
  BY <1>1, <1>2
<1>4. Drops(q) = Head(q).drop \cup Drops(Tail(q))
  <2>1. ASSUME NEW x, x \in Drops(q)
        PROVE  x \in Head(q).drop \cup Drops(Tail(q))
    <3>1. PICK i \in DOMAIN q : x \in q[i].drop
      BY <2>1 DEF Drops
    <3> QED BY <1>1, <1>3, <3>1 DEF Drops
  <2>2. Head(q).drop \cup Drops(Tail(q)) \subseteq Drops(q)
    BY <1>1, <1>3 DEF Drops
  <2> QED BY <2>1, <2>2
<1>5. Adds(q) = Head(q).add \cup Adds(Tail(q))
  <2>1. ASSUME NEW x, x \in Adds(q)
        PROVE  x \in Head(q).add \cup Adds(Tail(q))
    <3>1. PICK i \in DOMAIN q : x \in q[i].add
      BY <2>1 DEF Adds
    <3> QED BY <1>1, <1>3, <3>1 DEF Adds
  <2>2. Head(q).add \cup Adds(Tail(q)) \subseteq Adds(q)
    BY <1>1, <1>3 DEF Adds
  <2> QED BY <2>1, <2>2
<1>6. ASSUME NEW wanted, Spares(q, wanted)
      PROVE  (Head(q).drop \ Head(q).add) \cap wanted = {} /\ Spares(Tail(q), wanted)
  BY <1>1, <1>3, <1>6 DEF Spares
<1> QED BY <1>4, <1>5, <1>6

LEMMA NoOperation ==
  Drops(<<>>) = {} /\ Adds(<<>>) = {} /\ \A wanted : Spares(<<>>, wanted)
BY DEF Drops, Adds, Spares

\* Every line but the watchdog's, here and there, is asked for or among extra.
Within(lines, extra) == lines \ {Watchdog} \subseteq asked \cup extra

\* What an operation under way still has to remove is what its queue drops; once
\* it has written a place, what the rest of the queue drops.
Removing(m) ==
    /\ Adds(work[m]) \subseteq asked
    /\ Within(Kept, Drops(work[m]))
    /\ pc[m] = "write" => Within(seen[m], Drops(work[m]))
    /\ pc[m] = "store" => Within(seen[m], Drops(Tail(work[m])))
    /\ pc[m] \in {"store", "persist", "prune", "leave"} =>
           Within(crontab, Drops(Tail(work[m])))
    /\ pc[m] \in {"persist", "prune", "leave"} =>
           Within(taskCron, Drops(Tail(work[m])))

Removal ==
    Clean =>
        /\ MenusIdle => Within(Kept, {})
        /\ \A m \in Menus : pc[m] # "idle" => Removing(m)
        /\ pc[Service] = "af_write" => Within(seen[Service], {})

\* The end of an operation.
LEMMA ContinueRemoval ==
  ASSUME Queues, NEW m \in Menus, pc[m] # "idle", Continue(m),
         \A n \in Menus \ {m} : pc[n] = "idle",
         pc[Service] # "af_write",
         asked' = asked,
         Adds(work[m]) \subseteq asked,
         Kept' \ {Watchdog} \subseteq asked \cup Drops(Tail(work[m]))
  PROVE  Removal'
<1>1. /\ work[m] \in Seq(Ops) /\ work[m] # <<>> /\ m \in Procs /\ m # Service
  BY Current
<1>2. work'[m] = Tail(work[m]) /\ Adds(Tail(work[m])) \subseteq asked
  BY <1>1, QueueParts DEF Continue, Queues
<1>3. \A q \in Procs \ {m} : pc'[q] = pc[q]
  BY <1>1 DEF Continue, Queues
<1>4. pc'[Service] # "af_write"
  BY <1>1, <1>3 DEF Procs
<1>5. \A n \in Menus \ {m} : pc'[n] = "idle"
  BY <1>3 DEF Procs
<1>6. CASE Tail(work[m]) = <<>>
  <2>1. pc'[m] = "idle"
    BY <1>1, <1>6 DEF Continue, Queues
  <2>2. Within(Kept, {})'
    BY <1>6, NoOperation DEF Within
  <2> QED BY <1>4, <1>5, <2>1, <2>2 DEF Removal
<1>7. CASE Tail(work[m]) # <<>>
  <2>1. pc'[m] \in {"file", "read"}
    BY <1>1, <1>7 DEF Continue, Queues, First
  <2>2. Removing(m)'
    BY <1>2, <2>1 DEF Removing, Within
  <2> QED BY <1>4, <1>5, <2>1, <2>2 DEF Removal, MenusIdle
<1> QED BY <1>6, <1>7

\* The steps of an operation remove what they have to, and nothing comes back.
LEMMA StepRemoval ==
  ASSUME Typed, Alone, Removal, NEW m \in Menus, Step(m), Clean'
  PROVE  Removal'
<1> DEFINE op == Head(work[m])
           rest == Drops(Tail(work[m]))
<1>1. pc[m] # "idle" /\ Queues
  BY DEF Step, File, Read, Write, Store, Persist, Prune, Leave, Typed
<1>2. /\ work[m] \in Seq(Ops) /\ work[m] # <<>> /\ op \in Ops
      /\ m \in Procs /\ m # Service /\ Located(m) /\ pc[m] \in MenuPc
  BY <1>1, Current DEF Queues
<1>3. /\ mishaps \subseteq mishaps' /\ asked' = asked
      /\ \A q \in Procs \ {m} : pc'[q] = pc[q] /\ seen'[q] = seen[q]
  <2>1. /\ mishaps \subseteq mishaps' /\ asked' = asked
        /\ Continue(m) \/ \E label : Goto(m, label)
        /\ seen' = seen \/ \E lines : seen' = [seen EXCEPT ![m] = lines]
    BY DEF Step, File, Read, ReadCron, Write, Store, Persist, Prune, Leave, Note
  <2>2. \A q \in Procs \ {m} : pc'[q] = pc[q]
    BY <2>1 DEF Continue, Goto, Typed, Queues
  <2>3. \A q \in Procs \ {m} : seen'[q] = seen[q]
    BY <2>1 DEF Typed, Values
  <2> QED BY <2>1, <2>2, <2>3
<1>4. Clean
  BY <1>3 DEF Clean
<1>5. /\ \A n \in Menus \ {m} : pc[n] = "idle"
      /\ pc[Service] # "af_write"
  BY <1>1, <1>2, <1>4 DEF Alone, Busy, MenuPc, Procs, Queues
<1>6. Removing(m)
  BY <1>1, <1>4 DEF Removal
<1>7. /\ Drops(work[m]) = op.drop \cup rest
      /\ op.add \subseteq asked
      /\ op.kind \in {"cron", "running", "hook"} => op.drop \subseteq asked
      /\ op.kind = "cronset" => op.drop = {Bot}
      /\ op.kind = "leave" => op.drop = {}
  <2>1. Drops(work[m]) = op.drop \cup rest /\ op.add \subseteq asked
    BY <1>2, <1>6, QueueParts DEF Removing
  <2>2. Home("cronset") = {Bot} /\ Home("leave") = {}
    BY DEF Home
  <2>3. /\ op.kind \in {"cron", "running", "hook"} => op.drop = op.add
        /\ op.kind \in {"cronset", "leave"} => op.drop = Home(op.kind)
    BY <1>2 DEF Ops
  <2> QED BY <2>1, <2>2, <2>3
<1>8. ASSUME NEW label, Goto(m, label), label # "idle", Removing(m)'
      PROVE  Removal'
  <2>1. \A n \in Menus \ {m} : pc'[n] = "idle"
    BY <1>3, <1>5 DEF Procs
  <2>2. pc'[m] # "idle" /\ pc'[Service] # "af_write"
    BY <1>2, <1>3, <1>5, <1>8 DEF Goto, Queues, Typed, Procs
  <2> QED BY <1>8, <2>1, <2>2 DEF Removal, MenusIdle
<1>9. ASSUME Continue(m), Kept' \ {Watchdog} \subseteq asked \cup rest
      PROVE  Removal'
  BY <1>1, <1>3, <1>5, <1>6, <1>9, ContinueRemoval DEF Removing
<1>10. CASE File(m)
  <2>1. Kept' \subseteq Kept \cup op.add
    BY <1>10 DEF File, Kept
  <2>2. CASE op.kind = "running" /\ core
    <3>1. Goto(m, "read")
      BY <1>10, <2>2 DEF File
    <3>2. Removing(m)'
      BY <1>2, <1>3, <1>6, <1>7, <2>1, <3>1 DEF Removing, Within, Goto, Typed, Queues
    <3> QED BY <1>8, <3>1, <3>2
  <2>3. CASE ~(op.kind = "running" /\ core)
    <3>1. Continue(m) /\ op.kind \in {"running", "hook"}
      BY <1>2, <1>10, <2>3 DEF File, Located
    <3> QED BY <1>6, <1>7, <1>9, <2>1, <3>1 DEF Removing, Within
  <2> QED BY <2>2, <2>3
<1>11. CASE Read(m)
  <2>1. Goto(m, "write") /\ Kept' = Kept /\ seen'[m] \subseteq Kept
    BY <1>2, <1>11 DEF Read, ReadCron, Kept, files, Typed, Values
  <2>2. Removing(m)'
    BY <1>2, <1>3, <1>6, <2>1 DEF Removing, Within, Goto, Typed, Queues
  <2> QED BY <1>8, <2>1, <2>2
<1>12. CASE Write(m)
  <2>1. /\ Goto(m, "store")
        /\ crontab' = (seen[m] \ op.drop) \cup op.add
        /\ seen'[m] = crontab'
        /\ UNCHANGED files
    BY <1>2, <1>12 DEF Write, Typed, Values
  <2>2. Within(seen[m], Drops(work[m]))
    BY <1>6, <1>12 DEF Removing, Write
  <2>3. Within(crontab, rest)'
    BY <1>2, <1>3, <1>7, <2>1, <2>2 DEF Within, Goto
  <2>4. Within(Kept, Drops(work[m]))'
    BY <1>2, <1>3, <1>6, <1>7, <2>1, <2>3 DEF Removing, Within, Kept, Goto, files
  <2>5. Removing(m)'
    BY <1>2, <1>3, <1>6, <2>1, <2>3, <2>4 DEF Removing, Within, Goto, Typed, Queues
  <2> QED BY <1>8, <2>1, <2>5
<1>13. CASE Store(m)
  <2>1. /\ taskCron' \subseteq seen[m]
        /\ crontab' = crontab /\ taskRunning' = taskRunning /\ taskHook' = taskHook
    BY <1>13 DEF Store
  <2>2. Within(seen[m], rest) /\ Within(crontab, rest) /\ Within(Kept, op.drop \cup rest)
    BY <1>6, <1>7, <1>13 DEF Removing, Store
  <2>3. CASE AfterStore(op.kind) = "done"
    <3>1. Continue(m) /\ op.kind \in {"running", "cronset"}
      BY <1>2, <1>13, <2>3 DEF Store, AfterStore, Located, Ops
    <3>2. Bot \notin taskRunning \cup taskHook
      BY LinesAssumption DEF Typed, Values, Tasks
    <3>3. Kept' \ {Watchdog} \subseteq asked \cup rest
      BY <1>7, <2>1, <2>2, <3>1, <3>2 DEF Kept, Within
    <3> QED BY <1>9, <3>1, <3>3
  <2>4. CASE AfterStore(op.kind) # "done"
    <3>1. Goto(m, AfterStore(op.kind)) /\ AfterStore(op.kind) \in {"persist", "prune", "leave"}
      BY <1>13, <2>4 DEF Store, AfterStore
    <3>2. Removing(m)'
      BY <1>2, <1>3, <1>6, <1>7, <2>1, <2>2, <3>1
         DEF Removing, Within, Kept, Goto, Typed, Queues
    <3> QED BY <1>8, <3>1, <3>2
  <2> QED BY <2>3, <2>4
<1>14. CASE Persist(m)
  <2>1. /\ Continue(m) /\ op.kind = "cron" /\ Kept' \subseteq Kept \cup op.add
    BY <1>2, <1>14 DEF Persist, Located, Kept
  <2> QED BY <1>6, <1>7, <1>9, <2>1 DEF Removing, Within
<1>15. CASE Prune(m)
  <2>1. Continue(m) /\ Within(crontab, rest)
    BY <1>6, <1>15 DEF Prune, Removing
  <2>2. Kept' \ {Watchdog} \subseteq asked \cup rest
    BY <1>6, <1>7, <1>15, <2>1 DEF Prune, Removing, Within, Kept
  <2> QED BY <1>9, <2>1, <2>2
<1>16. CASE Leave(m)
  <2>1. Continue(m) /\ op.drop = {} /\ Kept' = Kept
    BY <1>2, <1>7, <1>16 DEF Leave, Located, Kept, files
  <2> QED BY <1>6, <1>7, <1>9, <2>1 DEF Removing, Within
<1> QED BY <1>10, <1>11, <1>12, <1>13, <1>14, <1>15, <1>16 DEF Step

\* A new operation removes what is no longer asked for.
LEMMA BeginRemoval ==
  ASSUME Typed, Alone, Removal, NEW m \in Menus, NEW ops, NEW wanted, NEW kinds,
         Begins(m, ops, wanted, kinds), Clean'
  PROVE  Removal'
<1>1. /\ mishaps' = mishaps \cup (kinds \cup Overlap(m))
      /\ asked' = wanted /\ Kept' = Kept /\ work'[m] = ops
      /\ pc[m] = "idle" /\ pc'[m] = First(Head(ops))
      /\ \A q \in Procs \ {m} : pc'[q] = pc[q]
      /\ m \in Procs /\ m # Service
  BY LinesAssumption DEF Begins, Begin, Note, Kept, files, Typed, Queues, Procs
<1>2. Clean /\ \A q \in Procs \ {m} : ~Busy(q)
  BY <1>1 DEF Clean, Overlap
<1>3. \A n \in Menus : pc[n] = "idle"
  BY <1>1, <1>2 DEF Busy, Procs, Typed, Queues, MenuPc
<1>4. Within(Kept, {}) /\ Listed \subseteq Kept \ {Watchdog}
  BY <1>2, <1>3, LinesAssumption DEF Removal, MenusIdle, Listed, Kept
<1>5. First(Head(ops)) \in {"file", "read"}
  BY DEF First
<1>6. Within(Kept, Drops(ops))'
  BY <1>1, <1>4 DEF Begins, Within
<1>7. Adds(ops) \subseteq wanted
  BY <1>1, <1>4, <1>6 DEF Begins, Within
<1>8. Removing(m)'
  BY <1>1, <1>5, <1>6, <1>7 DEF Removing, Within
<1>9. pc'[Service] # "af_write" /\ \A n \in Menus \ {m} : pc'[n] = "idle"
  BY <1>1, <1>2, <1>3 DEF Busy, Procs
<1> QED BY <1>1, <1>5, <1>8, <1>9 DEF Removal, MenusIdle

LEMMA NextRemoval ==
  ASSUME Typed, Alone, Removal, [Next]_vars
  PROVE  Removal'
<1> SUFFICES ASSUME Clean' PROVE Removal'
  BY DEF Removal
<1>1. CASE UNCHANGED vars
  BY <1>1 DEF vars, files, procs, Removal, Removing, Within, Kept, MenusIdle, Clean
<1>2. ASSUME NEW m \in Menus, Choose(m) PROVE Removal'
  <2>1. CASE ModeOn(m) \/ SetAutostart(m)
    BY <2>1 DEF ModeOn, SetAutostart, files, procs, Removal, Removing, Within, Kept,
                MenusIdle, Clean
  <2> QED BY <1>2, <2>1, ChoiceBegins, BeginRemoval
<1>3. ASSUME NEW p \in Procs, Abandoned(p) PROVE Removal'
  BY <1>3 DEF Abandoned, Note, Clean
<1>4. CASE AfterStart
  <2>1. /\ mishaps \subseteq mishaps' /\ asked' = asked /\ work' = work /\ Kept' = Kept
        /\ crontab' = crontab /\ taskCron' = taskCron
        /\ \A m \in Menus : pc'[m] = pc[m] /\ seen'[m] = seen[m]
    BY <1>4, LinesAssumption DEF AfterStart, ReadCron, Note, Kept, files, Typed, Queues, Values, Procs
  <2>2. Clean
    BY <2>1 DEF Clean
  <2>3. \A m \in Menus : pc[m] # "idle" => Removing(m)'
    BY <2>1, <2>2 DEF Removal, Removing, Within
  <2>4. pc'[Service] = "af_write" => Within(seen[Service], {})'
    <3>1. CASE core
      <4>1. Overlap(Service) \subseteq mishaps' /\ seen'[Service] \subseteq crontab \cup Merged
        BY <1>4, <3>1 DEF AfterStart, ReadCron, Note, Typed, Values, Procs
      <4>2. MenusIdle
        BY <4>1, LinesAssumption DEF Overlap, Clean, Busy, MenusIdle, Procs, Typed, Queues, MenuPc
      <4>3. seen'[Service] \ {Watchdog} \subseteq Kept
        BY <4>1 DEF Merged, Kept
      <4> QED BY <2>1, <2>2, <4>2, <4>3 DEF Removal, Within
    <3>2. CASE ~core
      BY <1>4, <3>2 DEF AfterStart, Typed, Queues, Procs
    <3> QED BY <3>1, <3>2
  <2> QED BY <2>1, <2>2, <2>3, <2>4 DEF Removal, MenusIdle, Within
<1>5. CASE AfterStartWrite
  <2>1. /\ mishaps' = mishaps /\ asked' = asked /\ crontab' = seen[Service]
        /\ pc[Service] = "af_write" /\ pc'[Service] = "idle"
        /\ \A m \in Menus : pc'[m] = pc[m]
        /\ UNCHANGED files
    BY <1>5, LinesAssumption DEF AfterStartWrite, Typed, Queues, Procs
  <2>2. Clean /\ Within(seen[Service], {})
    BY <2>1 DEF Clean, Removal
  <2>3. \A m \in Menus : pc[m] = "idle"
    BY <2>1, <2>2, LinesAssumption DEF Alone, Busy, Procs, Typed, Queues, MenuPc
  <2>4. Within(Kept, {})'
    BY <2>1, <2>2, <2>3 DEF Removal, MenusIdle, Within, Kept, files
  <2> QED BY <2>1, <2>3, <2>4 DEF Removal
<1>6. ASSUME Start PROVE Removal'
  <2>1. /\ mishaps' = mishaps /\ asked' = asked /\ seen' = seen /\ work' = work
        /\ crontab' = crontab /\ pc'[Service] # "af_write"
        /\ \A m \in Menus : pc'[m] = pc[m]
        /\ UNCHANGED files
    BY <1>6, LinesAssumption DEF Start, Typed, Queues, Procs
  <2> QED BY <2>1 DEF Clean, Removal, Removing, MenusIdle, Within, Kept, files
<1>7. CASE BootInit
  <2>1. CASE BootRefused
    <3>1. /\ mishaps \subseteq mishaps' /\ crontab' = crontab \ {Watchdog}
          /\ UNCHANGED <<files, procs, asked>>
      BY <1>7, <2>1 DEF BootInit, BootRefused, Note
    <3> QED BY <3>1 DEF Clean, Removal, Removing, MenusIdle, Within, Kept, files, procs
  <2> QED BY <1>6, <1>7, <2>1 DEF BootInit
<1>8. CASE CoreGone
  BY <1>8 DEF CoreGone, files, procs, Removal, Removing, Within, Kept, MenusIdle, Clean
<1>9. CASE Reboot
  <2>1. /\ mishaps' = mishaps \cup IF \E p \in Procs : Busy(p) THEN {"abandoned"} ELSE {}
        /\ asked' = asked /\ crontab' \subseteq crontab /\ UNCHANGED files
        /\ \A p \in Procs : pc'[p] = "idle"
    BY <1>9 DEF Reboot, Note
  <2>2. Clean /\ \A p \in Procs : ~Busy(p)
    BY <2>1 DEF Clean
  <2>3. MenusIdle
    BY <2>2 DEF Busy, MenusIdle, Procs, Typed, Queues, MenuPc
  <2> QED BY <2>1, <2>2, <2>3 DEF Removal, Within, Kept, files, Procs
<1> QED BY <1>1, <1>2, <1>3, <1>4, <1>5, <1>6, <1>7, <1>8, <1>9, StepRemoval
        DEF Next, WatchdogStart

\* A task or bot line that was removed is in no file and not in the crontab, for
\* any number of tasks and menus: no later start brings it back.
THEOREM RemovedStaysGone == Spec => []RemovedIsGone
<1>1. Init => Typed /\ Alone /\ Removal
  <2>1. Init => Removal
    BY DEF Init, Removal, Within, Kept, Procs
  <2> QED BY <2>1, InitType, InitAlone
<1>2. Typed /\ Alone /\ Removal /\ [Next]_vars => (Typed /\ Alone /\ Removal)'
  BY NextType, NextAlone, NextRemoval
<1>3. Removal => RemovedIsGone
  BY DEF Removal, Within, RemovedIsGone, Clean
<1> QED BY <1>1, <1>2, <1>3, PTL DEF Spec

-----------------------------------------------------------------------------
(* What was asked for is kept, and served *)

\* The service is up and its AfterStart over.
Up == core /\ pc[Service] = "idle"

\* The lines that have to be in the crontab now.
Due == (IF wiped THEN {} ELSE asked \cap (CronTasks \cup {Bot}))
       \cup (IF Up THEN asked \cap RunTasks ELSE {})

\* A copy of the crontab that a device with a store needs.
Copied(extra) == store => asked \cap (CronTasks \cup {Bot}) \subseteq taskCron \cup extra

\* Everything asked for is in its place or among extra.
Holds(extra) ==
    /\ Due \subseteq crontab \cup extra
    /\ Copied(extra)
    /\ asked \cap RunTasks \subseteq taskRunning \cup extra
    /\ asked \cap HookTasks \subseteq taskHook \cup extra

\* In an operation under way only what its queue adds may be missing; once it has
\* written a place, only what the rest of the queue adds.
Keeping(m) ==
    /\ Spares(work[m], asked)
    /\ Holds(Adds(work[m]))
    /\ pc[m] = "write" => Due \subseteq seen[m] \cup Adds(work[m])
    /\ pc[m] = "store" => ~wiped /\ seen[m] = crontab
    /\ pc[m] \in {"store", "persist", "prune", "leave"} =>
           Due \subseteq crontab \cup Adds(Tail(work[m]))
    /\ pc[m] \in {"persist", "prune", "leave"} => Copied(Adds(Tail(work[m])))
    /\ pc[m] \in {"read", "write", "store"} /\ Head(work[m]).kind = "running" =>
           Head(work[m]).add \subseteq taskRunning

\* What a start still has to put into the crontab.
Serving ==
    mishaps = {} =>
        /\ wiped => store
        /\ Up => ~wiped

Keep ==
    mishaps = {} =>
        /\ MenusIdle => Holds({})
        /\ \A m \in Menus : pc[m] # "idle" => Keeping(m)
        /\ pc[Service] = "af_write" => asked \ HookTasks \subseteq seen[Service]

\* A mishap is never forgotten.
LEMMA MishapsStay ==
  ASSUME [Next]_vars
  PROVE  mishaps \subseteq mishaps'
<1>1. ASSUME NEW m \in Menus, Choose(m) PROVE mishaps \subseteq mishaps'
  BY <1>1 DEF Choose, AddTask, ApplyRecommendedTasks, RemoveTask, ModifyTask, CancelModify,
              ClearTasks, ClearLegacy, BotOn, BotOff, ModeOff, ModeOn, SetAutostart,
              Begin, Note
<1>2. ASSUME NEW m \in Menus, Step(m) PROVE mishaps \subseteq mishaps'
  BY <1>2 DEF Step, File, Read, ReadCron, Write, Store, Persist, Prune, Leave, Note
<1>3. ASSUME Start \/ WatchdogStart \/ BootInit \/ CoreGone \/ AfterStart \/ AfterStartWrite
      PROVE  mishaps \subseteq mishaps'
  BY <1>3 DEF Start, WatchdogStart, BootInit, BootRefused, CoreGone, AfterStart, AfterStartWrite,
              ReadCron, Note
<1>4. ASSUME Reboot \/ \E p \in Procs : Abandoned(p) PROVE mishaps \subseteq mishaps'
  BY <1>4 DEF Reboot, Abandoned, Note
<1> QED BY <1>1, <1>2, <1>3, <1>4 DEF Next, vars

LEMMA NextServing ==
  ASSUME Typed, Serving, [Next]_vars
  PROVE  Serving'
<1> SUFFICES ASSUME mishaps' = {} PROVE Serving'
  BY DEF Serving
<1> mishaps = {}
  BY MishapsStay
<1> USE DEF Serving, Up
<1>1. CASE UNCHANGED vars
  BY <1>1 DEF vars, device, service, procs
<1>2. ASSUME NEW m \in Menus, Choose(m) PROVE Serving'
  <2>1. CASE ModeOn(m) \/ SetAutostart(m)
    BY <2>1 DEF ModeOn, SetAutostart, service, procs
  <2>2. CASE ~(ModeOn(m) \/ SetAutostart(m))
    <3>1. PICK ops, wanted, kinds : Begin(m, ops, wanted, kinds)
      BY <1>2, <2>2, ChoiceBegins DEF Begins
    <3>2. pc'[Service] = pc[Service] /\ UNCHANGED <<device, wiped, service>>
      BY <3>1, LinesAssumption DEF Begin, Typed, Queues, Procs
    <3> QED BY <3>2 DEF device, service
  <2> QED BY <2>1, <2>2
<1>3. ASSUME NEW m \in Menus, Step(m) PROVE Serving'
  <2>1. pc'[Service] = pc[Service]
    BY <1>3, LinesAssumption DEF Step, File, Read, Write, Store, Persist, Prune, Leave,
                                 Continue, Goto, Typed, Queues, Procs
  <2>2. UNCHANGED <<device, wiped>>
    BY <1>3 DEF Step, File, Read, Write, Store, Persist, Prune, Leave, device, service
  <2>3. core' = core \/ ~core'
    BY <1>3 DEF Step, File, Read, Write, Store, Persist, Prune, Leave, service
  <2> QED BY <2>1, <2>2, <2>3 DEF device
<1>4. ASSUME NEW p \in Procs, Abandoned(p) PROVE Serving'
  BY <1>4 DEF Abandoned, Note
<1>5. CASE AfterStart
  BY <1>5 DEF AfterStart, device, Typed, Queues, Procs
<1>6. ASSUME Start PROVE Serving'
  BY <1>6 DEF Start, device, Typed, Queues, Procs
<1>7. CASE AfterStartWrite
  BY <1>7 DEF AfterStartWrite, device, service, Typed, Queues, Procs
<1>8. CASE BootInit
  BY <1>6, <1>8 DEF BootInit, BootRefused, device, service, procs
<1>9. CASE CoreGone
  BY <1>9 DEF CoreGone, device, procs
<1>10. CASE Reboot
  BY <1>10 DEF Reboot, device, Procs
<1> QED BY <1>1, <1>2, <1>3, <1>4, <1>5, <1>6, <1>7, <1>8, <1>9, <1>10
        DEF Next, WatchdogStart

\* The end of an operation.
LEMMA ContinueKeep ==
  ASSUME Queues, NEW m \in Menus, pc[m] # "idle", Continue(m),
         \A n \in Menus \ {m} : pc[n] = "idle",
         pc[Service] # "af_write",
         asked' = asked,
         Spares(work[m], asked),
         NEW rest, rest = Adds(Tail(work[m])),
         Due' \subseteq crontab' \cup rest,
         store' => asked \cap (CronTasks \cup {Bot}) \subseteq taskCron' \cup rest,
         asked \cap RunTasks \subseteq taskRunning' \cup rest,
         asked \cap HookTasks \subseteq taskHook' \cup rest
  PROVE  Keep'
<1>1. /\ work[m] \in Seq(Ops) /\ work[m] # <<>> /\ m \in Procs /\ m # Service
  BY Current
<1>2. work'[m] = Tail(work[m]) /\ Spares(Tail(work[m]), asked)
  BY <1>1, QueueParts DEF Continue, Queues
<1>3. \A q \in Procs \ {m} : pc'[q] = pc[q]
  BY <1>1 DEF Continue, Queues
<1>4. pc'[Service] # "af_write"
  BY <1>1, <1>3 DEF Procs
<1>5. \A n \in Menus \ {m} : pc'[n] = "idle"
  BY <1>3 DEF Procs
<1>6. CASE Tail(work[m]) = <<>>
  <2>1. pc'[m] = "idle"
    BY <1>1, <1>6 DEF Continue, Queues
  <2>2. Holds({})'
    BY <1>6, NoOperation DEF Holds, Copied
  <2> QED BY <1>4, <1>5, <2>1, <2>2 DEF Keep
<1>7. CASE Tail(work[m]) # <<>>
  <2>1. /\ pc'[m] \in {"file", "read"}
        /\ pc'[m] = "read" => Head(work'[m]).kind # "running"
    <3>1. work[m][2] = Head(Tail(work[m]))
      BY <1>1, <1>7, QueueTail
    <3> QED BY <1>1, <1>2, <1>7, <3>1 DEF Continue, Queues, First
  <2>2. Holds(Adds(work[m]))'
    BY <1>2 DEF Holds, Copied
  <2>3. Keeping(m)'
    BY <1>2, <2>1, <2>2 DEF Keeping
  <2> QED BY <1>4, <1>5, <2>1, <2>3 DEF Keep, MenusIdle
<1> QED BY <1>6, <1>7

\* The steps of an operation lose nothing that was asked for.
LEMMA StepKeep ==
  ASSUME Typed, Alone, Serving, Keep, NEW m \in Menus, Step(m), mishaps' = {}, mishaps = {}
  PROVE  Keep'
<1> DEFINE op == Head(work[m])
           rest == Adds(Tail(work[m]))
<1>1. pc[m] # "idle" /\ Queues
  BY DEF Step, File, Read, Write, Store, Persist, Prune, Leave, Typed
<1>2. /\ work[m] \in Seq(Ops) /\ work[m] # <<>> /\ op \in Ops
      /\ m \in Procs /\ m # Service /\ Located(m) /\ pc[m] \in MenuPc
  BY <1>1, Current DEF Queues
<1>3. /\ asked' = asked
      /\ \A q \in Procs \ {m} : pc'[q] = pc[q] /\ seen'[q] = seen[q]
      /\ pc'[Service] = pc[Service]
  <2>1. /\ asked' = asked
        /\ Continue(m) \/ \E label : Goto(m, label)
        /\ seen' = seen \/ \E lines : seen' = [seen EXCEPT ![m] = lines]
    BY DEF Step, File, Read, ReadCron, Write, Store, Persist, Prune, Leave, Note
  <2>2. \A q \in Procs \ {m} : pc'[q] = pc[q]
    BY <2>1 DEF Continue, Goto, Typed, Queues
  <2>3. \A q \in Procs \ {m} : seen'[q] = seen[q]
    BY <2>1 DEF Typed, Values
  <2> QED BY <1>2, <2>1, <2>2, <2>3 DEF Procs
<1>5. /\ \A n \in Menus \ {m} : pc[n] = "idle"
      /\ pc[Service] # "af_write"
  BY <1>1, <1>2 DEF Alone, Clean, Busy, MenuPc, Procs, Queues
<1>6. Keeping(m) /\ (wiped => store) /\ (Up => ~wiped)
  BY <1>1 DEF Keep, Serving
<1>7. /\ Adds(work[m]) = op.add \cup rest
      /\ (op.drop \ op.add) \cap asked = {}
  BY <1>2, <1>6, QueueParts DEF Keeping
<1>4. /\ op.kind \in {"cron", "running", "hook", "remove", "cronset", "leave"}
      /\ op.kind \in {"running", "cron", "hook"} => op.drop = op.add
      /\ op.kind = "running" => op.add \subseteq RunTasks
      /\ op.kind = "hook" => op.add \subseteq HookTasks
      /\ op.kind = "cron" => op.add \subseteq CronTasks
      /\ op.kind = "cronset" => op.add \subseteq {Bot}
      /\ op.kind \in {"remove", "leave"} => op.add = {}
  BY <1>2 DEF Ops, Home
<1>8. ASSUME NEW label, Goto(m, label), label # "idle", Keeping(m)'
      PROVE  Keep'
  <2>1. \A n \in Menus \ {m} : pc'[n] = "idle"
    BY <1>3, <1>5 DEF Procs
  <2>2. pc'[m] # "idle" /\ pc'[Service] # "af_write"
    BY <1>2, <1>3, <1>5, <1>8 DEF Goto, Queues, Typed, Procs
  <2> QED BY <1>8, <2>1, <2>2 DEF Keep, MenusIdle
<1>9. ASSUME Continue(m),
             Due' \subseteq crontab' \cup rest,
             store' => asked \cap (CronTasks \cup {Bot}) \subseteq taskCron' \cup rest,
             asked \cap RunTasks \subseteq taskRunning' \cup rest,
             asked \cap HookTasks \subseteq taskHook' \cup rest
      PROVE  Keep'
  BY <1>1, <1>3, <1>5, <1>6, <1>9, ContinueKeep DEF Keeping
<1>10. CASE File(m)
  <2>1. /\ UNCHANGED <<crontab, taskCron, store, wiped, core, startOld>>
        /\ Due' = Due
    BY <1>3, <1>10 DEF File, Due, Up, device, service
  <2>2. CASE op.kind = "running" /\ core
    <3>1. /\ Goto(m, "read") /\ taskRunning' = (taskRunning \ op.drop) \cup op.add
          /\ taskHook' = taskHook
      BY <1>10, <2>2 DEF File
    <3>2. work' = work /\ pc'[m] = "read"
      BY <1>2, <3>1 DEF Goto, Typed, Queues
    <3>3. Holds(Adds(work[m]))'
      BY <1>3, <1>6, <1>4, <2>1, <2>2, <3>1, <3>2 DEF Keeping, Holds, Copied
    <3>4. Keeping(m)'
      BY <1>3, <1>6, <3>1, <3>2, <3>3 DEF Keeping
    <3> QED BY <1>8, <3>1, <3>4
  <2>3. CASE op.kind = "running" /\ ~core
    <3>1. /\ Continue(m) /\ taskRunning' = (taskRunning \ op.drop) \cup op.add
          /\ taskHook' = taskHook
      BY <1>10, <2>3 DEF File
    <3>2. Due \cap RunTasks = {}
      BY <2>3, LinesAssumption DEF Due, Up, Tasks
    <3> QED BY <1>6, <1>7, <1>9, <1>4, <2>1, <2>3, <3>1, <3>2, LinesAssumption
            DEF Keeping, Holds, Copied, Tasks
  <2>4. CASE op.kind # "running"
    <3>1. /\ Continue(m) /\ taskHook' = (taskHook \ op.drop) \cup op.add
          /\ taskRunning' = taskRunning /\ op.kind = "hook"
      BY <1>2, <1>10, <2>4 DEF File, Located
    <3>2. Due \cap HookTasks = {}
      BY LinesAssumption DEF Due, Tasks
    <3> QED BY <1>6, <1>7, <1>9, <1>4, <2>1, <3>1, <3>2, LinesAssumption
            DEF Keeping, Holds, Copied, Tasks
  <2> QED BY <2>2, <2>3, <2>4
<1>11. CASE Read(m)
  <2>1. /\ Goto(m, "write") /\ seen'[m] = crontab /\ pc[m] = "read"
        /\ UNCHANGED <<crontab, taskCron, taskRunning, taskHook, store>>
        /\ Due' = Due
    BY <1>2, <1>3, <1>11 DEF Read, ReadCron, Note, Typed, Values, Due, Up, files, device, service
  <2>2. work' = work /\ pc'[m] = "write"
    BY <1>2, <2>1 DEF Goto, Typed, Queues
  <2>3. Keeping(m)'
    BY <1>3, <1>6, <2>1, <2>2 DEF Keeping, Holds, Copied
  <2> QED BY <1>8, <2>1, <2>3
<1>12. CASE Write(m)
  <2>1. /\ Goto(m, "store") /\ crontab' = (seen[m] \ op.drop) \cup op.add
        /\ seen'[m] = crontab' /\ pc[m] = "write" /\ ~wiped'
        /\ UNCHANGED <<taskCron, taskRunning, taskHook, store>>
        /\ Due' = Due
    BY <1>2, <1>3, <1>12 DEF Write, Note, Typed, Values, Due, Up, files, device, service
  <2>2. work' = work /\ pc'[m] = "store"
    BY <1>2, <2>1 DEF Goto, Typed, Queues
  <2>3. Due \subseteq asked
    BY DEF Due
  <2>4. Due' \subseteq crontab' \cup rest
    BY <1>6, <1>7, <2>1, <2>3 DEF Keeping
  <2>5. Holds(Adds(work[m]))'
    BY <1>3, <1>6, <1>7, <2>1, <2>2, <2>4 DEF Keeping, Holds, Copied
  <2>6. Keeping(m)'
    BY <1>3, <1>6, <2>1, <2>2, <2>4, <2>5 DEF Keeping
  <2> QED BY <1>8, <2>1, <2>6
<1>13. CASE Store(m)
  <2>1. /\ store => taskCron' = crontab
        /\ UNCHANGED <<crontab, taskRunning, taskHook, store>>
        /\ Due' = Due /\ pc[m] = "store" /\ ~wiped
    BY <1>3, <1>6, <1>13 DEF Store, Keeping, Due, Up, device, service
  <2>2. /\ Due \subseteq crontab \cup rest
        /\ store' => asked \cap (CronTasks \cup {Bot}) \subseteq taskCron' \cup rest
    BY <1>6, <2>1 DEF Keeping, Due
  <2>3. CASE AfterStore(op.kind) = "done"
    <3>1. Continue(m) /\ op.kind \in {"running", "cronset"}
      BY <1>2, <1>13, <2>3 DEF Store, AfterStore, Located, Ops
    <3>2. /\ asked \cap RunTasks \subseteq taskRunning' \cup rest
          /\ asked \cap HookTasks \subseteq taskHook' \cup rest
      BY <1>6, <1>7, <1>4, <2>1, <3>1, LinesAssumption DEF Keeping, Holds, Tasks
    <3> QED BY <1>9, <2>1, <2>2, <3>1, <3>2
  <2>4. CASE AfterStore(op.kind) # "done"
    <3>1. Goto(m, AfterStore(op.kind)) /\ AfterStore(op.kind) \in {"persist", "prune", "leave"}
      BY <1>13, <2>4 DEF Store, AfterStore
    <3>2. work' = work /\ pc'[m] \in {"persist", "prune", "leave"}
      BY <1>2, <3>1 DEF Goto, Typed, Queues
    <3>3. Holds(Adds(work[m]))'
      BY <1>3, <1>6, <1>7, <2>1, <2>2, <3>2 DEF Keeping, Holds, Copied
    <3>4. Keeping(m)'
      BY <1>3, <1>6, <2>1, <2>2, <3>2, <3>3 DEF Keeping, Copied
    <3> QED BY <1>8, <3>1, <3>4
  <2> QED BY <2>3, <2>4
<1>14. CASE Persist(m)
  <2>1. /\ Continue(m) /\ op.kind = "cron" /\ pc[m] = "persist"
        /\ taskCron' = (taskCron \ op.drop) \cup op.add
        /\ UNCHANGED <<crontab, taskRunning, taskHook, store>> /\ Due' = Due
    BY <1>2, <1>3, <1>14 DEF Persist, Located, Due, Up, device, service
  <2> QED BY <1>6, <1>7, <1>9, <1>4, <2>1, LinesAssumption
          DEF Keeping, Holds, Copied, Tasks
<1>15. CASE Prune(m)
  <2>1. /\ Continue(m) /\ op.kind = "remove" /\ pc[m] = "prune"
        /\ taskCron' = taskCron \ op.drop /\ taskRunning' = taskRunning \ op.drop
        /\ taskHook' = taskHook \ op.drop
        /\ UNCHANGED <<crontab, store>> /\ Due' = Due
    BY <1>2, <1>3, <1>15 DEF Prune, Located, Due, Up, device, service
  <2>2. op.drop \cap asked = {} /\ Adds(work[m]) = rest
    BY <1>7, <1>4, <2>1
  <2> QED BY <1>6, <1>9, <2>1, <2>2 DEF Keeping, Holds, Copied
<1>16. CASE Leave(m)
  <2>1. /\ Continue(m) /\ op.kind = "leave" /\ pc[m] = "leave"
        /\ UNCHANGED <<crontab, taskCron, taskRunning, taskHook, store>>
        /\ Due' \subseteq Due
    BY <1>2, <1>3, <1>16 DEF Leave, Located, Due, Up, files, device
  <2> QED BY <1>6, <1>7, <1>9, <1>4, <2>1 DEF Keeping, Holds, Copied
<1> QED BY <1>10, <1>11, <1>12, <1>13, <1>14, <1>15, <1>16 DEF Step

\* A new operation begins with everything in place.
LEMMA BeginKeep ==
  ASSUME Typed, Alone, Keep, NEW m \in Menus, NEW ops, NEW wanted, NEW kinds,
         Begins(m, ops, wanted, kinds), mishaps' = {}, mishaps = {}
  PROVE  Keep'
<1>1. /\ mishaps' = mishaps \cup (kinds \cup Overlap(m))
      /\ asked' = wanted /\ work'[m] = ops
      /\ pc[m] = "idle" /\ pc'[m] = First(Head(ops))
      /\ \A q \in Procs \ {m} : pc'[q] = pc[q]
      /\ m \in Procs /\ m # Service
      /\ UNCHANGED <<crontab, taskCron, taskRunning, taskHook, store, wiped, core, startOld>>
  BY LinesAssumption DEF Begins, Begin, Note, files, device, service, Typed, Queues, Procs
<1>2. kinds = {} /\ \A q \in Procs \ {m} : ~Busy(q)
  BY <1>1 DEF Overlap
<1>3. \A n \in Menus : pc[n] = "idle"
  BY <1>1, <1>2 DEF Busy, Procs, Typed, Queues, MenuPc
<1>4. Holds({}) /\ pc'[Service] = pc[Service]
  BY <1>1, <1>3 DEF Keep, MenusIdle, Procs
<1>5. /\ Head(ops) \in Ops /\ First(Head(ops)) \in {"file", "read"}
      /\ First(Head(ops)) = "read" => Head(ops).kind # "running"
  BY QueueTail DEF Begins, First
<1>6. wanted \subseteq asked \cup Adds(ops) /\ Spares(ops, wanted)
  BY <1>2 DEF Begins
<1>7. Due' \subseteq Due \cup Adds(ops)
  BY <1>1, <1>4, <1>6 DEF Due, Up
<1>8. Holds(Adds(work[m]))'
  BY <1>1, <1>4, <1>6, <1>7 DEF Holds, Copied
<1>9. Keeping(m)'
  BY <1>1, <1>5, <1>6, <1>8 DEF Keeping
<1>10. pc'[Service] # "af_write" /\ \A n \in Menus \ {m} : pc'[n] = "idle"
  BY <1>1, <1>2, <1>3 DEF Busy, Procs
<1> QED BY <1>1, <1>5, <1>9, <1>10 DEF Keep, MenusIdle

\* Fewer lines are due, and nothing else that Keep speaks of changes.
LEMMA LessDue ==
  ASSUME Keep, mishaps = {}, Due' \subseteq Due,
         UNCHANGED <<crontab, files, asked, store, wiped, work>>,
         \A m \in Menus : pc'[m] = pc[m] /\ seen'[m] = seen[m],
         pc'[Service] = "af_write" =>
             pc[Service] = "af_write" /\ seen'[Service] = seen[Service]
  PROVE  Keep'
<1>1. ASSUME NEW extra, Holds(extra) PROVE Due' \subseteq crontab \cup extra
  BY <1>1 DEF Holds
<1>2. MenusIdle' => Holds({})'
  BY <1>1 DEF Keep, MenusIdle, Holds, Copied, files
<1>3. ASSUME NEW m \in Menus, pc[m] # "idle" PROVE Keeping(m)'
  <2>1. Keeping(m)
    BY <1>3 DEF Keep
  <2>2. Holds(Adds(work[m]))'
    BY <2>1, <1>1 DEF Keeping, Holds, Copied, files
  <2> QED BY <2>1, <2>2 DEF Keeping, Copied, files
<1> QED BY <1>2, <1>3 DEF Keep

LEMMA NextKeep ==
  ASSUME Typed, Alone, Serving, Keep, [Next]_vars
  PROVE  Keep'
<1> SUFFICES ASSUME mishaps' = {} PROVE Keep'
  BY DEF Keep
<1>0. mishaps = {}
  BY MishapsStay
<1>1. CASE UNCHANGED vars
  BY <1>0, <1>1, LessDue DEF vars, files, device, service, procs, Due, Up
<1>2. ASSUME NEW m \in Menus, Choose(m) PROVE Keep'
  <2>1. CASE ModeOn(m) \/ SetAutostart(m)
    <3>1. /\ UNCHANGED <<crontab, files, asked, store, wiped, procs>>
          /\ UNCHANGED <<core, startOld>> \/ ~core'
      BY <2>1 DEF ModeOn, SetAutostart, service
    <3>2. Due' \subseteq Due
      BY <3>1 DEF Due, Up, procs
    <3> QED BY <1>0, <3>1, <3>2, LessDue DEF procs
  <2> QED BY <1>0, <1>2, <2>1, ChoiceBegins, BeginKeep
<1>3. ASSUME NEW p \in Procs, Abandoned(p) PROVE Keep'
  BY <1>3 DEF Abandoned, Note
<1>4. CASE AfterStart
  <2>1. /\ UNCHANGED <<crontab, files, asked, store, wiped, core, startOld, work>>
        /\ \A m \in Menus : pc'[m] = pc[m] /\ seen'[m] = seen[m]
        /\ pc[Service] = "af_wait"
    BY <1>4, LinesAssumption DEF AfterStart, ReadCron, Note, device, Typed, Queues, Values, Procs
  <2>2. CASE core
    <3>1. /\ Overlap(Service) \subseteq mishaps' /\ pc'[Service] = "af_write"
          /\ seen'[Service] = crontab \cup Merged
      BY <1>4, <2>2 DEF AfterStart, ReadCron, Note, Typed, Queues, Values, Procs
    <3>2. MenusIdle
      BY <3>1, LinesAssumption DEF Overlap, Busy, MenusIdle, Procs, Typed, Queues, MenuPc
    <3>3. Holds({}) /\ (wiped => store)
      BY <1>0, <2>1, <2>2, <3>2 DEF Keep, Serving
    <3>4. asked \ HookTasks \subseteq CronTasks \cup RunTasks \cup {Bot}
      BY DEF Typed, Values, Tasks
    <3>5. asked \cap (CronTasks \cup {Bot}) \subseteq crontab \cup taskCron
      BY <3>3 DEF Holds, Copied, Due
    <3>6. asked \ HookTasks \subseteq seen'[Service]
      BY <3>1, <3>3, <3>4, <3>5 DEF Holds, Merged
    <3>8. Due' \subseteq Due
      BY <2>1, <3>1 DEF Due, Up
    <3>9. Holds({})'
      BY <2>1, <3>3, <3>8 DEF Holds, Copied, files
    <3>10. MenusIdle'
      BY <2>1, <3>2 DEF MenusIdle
    <3> QED BY <2>1, <3>6, <3>9, <3>10 DEF Keep, MenusIdle
  <2>3. CASE ~core
    <3>1. pc'[Service] = "idle"
      BY <1>4, <2>3 DEF AfterStart, Typed, Queues, Procs
    <3>2. Due' \subseteq Due
      BY <2>1, <2>3 DEF Due, Up
    <3> QED BY <1>0, <2>1, <3>1, <3>2, LessDue
  <2> QED BY <2>2, <2>3
<1>5. CASE AfterStartWrite
  <2>1. /\ crontab' = seen[Service] /\ pc[Service] = "af_write" /\ pc'[Service] = "idle"
        /\ \A m \in Menus : pc'[m] = pc[m]
        /\ UNCHANGED <<files, asked, store, core, startOld>>
    BY <1>5, LinesAssumption DEF AfterStartWrite, device, service, Typed, Queues, Procs
  <2>2. \A m \in Menus : pc[m] = "idle"
    BY <1>0, <2>1, LinesAssumption DEF Alone, Clean, Busy, Procs, Typed, Queues, MenuPc
  <2>3. Holds({}) /\ asked \ HookTasks \subseteq seen[Service]
    BY <1>0, <2>1, <2>2 DEF Keep, MenusIdle
  <2>4. Due' \subseteq crontab'
    BY <2>1, <2>3, LinesAssumption DEF Due, Up, Tasks
  <2>5. Holds({})'
    BY <2>1, <2>3, <2>4 DEF Holds, Copied, files
  <2> QED BY <2>1, <2>2, <2>5 DEF Keep
<1>6. ASSUME Start PROVE Keep'
  <2>1. /\ UNCHANGED <<crontab, files, asked, store, wiped, startOld, work, seen>>
        /\ pc'[Service] = "af_wait"
        /\ \A m \in Menus : pc'[m] = pc[m]
    BY <1>6, LinesAssumption DEF Start, device, Typed, Queues, Procs
  <2>2. Due' \subseteq Due
    BY <2>1 DEF Due, Up
  <2> QED BY <1>0, <2>1, <2>2, LessDue
<1>7. CASE BootInit
  <2>1. CASE BootRefused
    <3>1. /\ crontab' = crontab \ {Watchdog} /\ ~core /\ pc[Service] = "idle"
          /\ UNCHANGED <<files, device, wiped, service, procs, asked>>
          /\ Overlap(Service) \subseteq mishaps'
      BY <1>7, <2>1 DEF BootInit, BootRefused, Note
    <3>2. Due' = Due /\ Watchdog \notin Due
      BY <3>1, LinesAssumption DEF Due, Up, Typed, Values, Tasks, service, procs
    <3>3. \A m \in Menus : pc[m] = "idle"
      BY <3>1, LinesAssumption DEF Overlap, Busy, Procs, Typed, Queues, MenuPc
    <3>4. Holds({})
      BY <1>0, <3>3 DEF Keep, MenusIdle
    <3>5. Holds({})'
      BY <3>1, <3>2, <3>4 DEF Holds, Copied, files, device
    <3> QED BY <3>1, <3>3, <3>5 DEF Keep, procs
  <2> QED BY <1>6, <1>7, <2>1 DEF BootInit
<1>8. CASE CoreGone
  <2>1. Due' \subseteq Due /\ ~core'
    BY <1>8 DEF CoreGone, Due, Up, procs
  <2> QED BY <1>0, <1>8, <2>1, LessDue DEF CoreGone, device, procs
<1>9. CASE Reboot
  <2>1. /\ mishaps' = mishaps \cup IF \E p \in Procs : Busy(p) THEN {"abandoned"} ELSE {}
        /\ crontab' = (IF store THEN {} ELSE crontab) /\ wiped' = store /\ ~core'
        /\ UNCHANGED <<files, asked, store>>
        /\ \A p \in Procs : pc'[p] = "idle"
    BY <1>9 DEF Reboot, Note, device
  <2>2. MenusIdle
    BY <2>1 DEF Busy, MenusIdle, Procs, Typed, Queues, MenuPc
  <2>3. Holds({}) /\ (wiped => store)
    BY <1>0, <2>2 DEF Keep, Serving
  <2>4. Due' \subseteq crontab'
    BY <2>1, <2>3 DEF Holds, Due, Up
  <2>5. Holds({})'
    BY <2>1, <2>3, <2>4 DEF Holds, Copied, files
  <2> QED BY <2>1, <2>5 DEF Keep, Procs
<1> QED BY <1>0, <1>1, <1>2, <1>3, <1>4, <1>5, <1>6, <1>7, <1>8, <1>9, StepKeep
        DEF Next, WatchdogStart

LEMMA KeepInvariant == Spec => [](Typed /\ Serving /\ Keep)
<1>1. Init => Typed /\ Alone /\ Serving /\ Keep
  <2>1. Init => Serving
    BY DEF Init, Serving, Up, Procs
  <2>2. Init => Keep
    BY DEF Init, Keep, Holds, Copied, Due, Up, Procs
  <2> QED BY <2>1, <2>2, InitType, InitAlone
<1>2. Typed /\ Alone /\ Serving /\ Keep /\ [Next]_vars => (Typed /\ Alone /\ Serving /\ Keep)'
  BY NextType, NextAlone, NextServing, NextKeep
<1> QED BY <1>1, <1>2, PTL DEF Spec

\* Without a mishap every task and the bot line that was asked for is where the next
\* start or cron finds it, for any number of tasks and menus.
THEOREM NothingLost == Spec => []AskedIsKept
<1>1. Serving /\ Keep => AskedIsKept
  BY DEF Serving, Keep, Holds, Copied, Due, AskedIsKept
<1> QED BY <1>1, KeepInvariant, PTL

\* Without a mishap cron runs everything asked for while the service is up.
THEOREM AllServed == Spec => []ServedWhileUp
<1>1. Typed /\ Serving /\ Keep => ServedWhileUp
  BY DEF Typed, Values, Tasks, Serving, Keep, Holds, Due, Up, ServedWhileUp
<1> QED BY <1>1, KeepInvariant, PTL

-----------------------------------------------------------------------------
(* The watchdog's line *)

Guarded == mishaps \cap {"overlap", "abandoned", "unread", "legacy"} = {}

\* The line is in the crontab and in every copy that will be written back, and no
\* operation under way drops it.
Watched ==
    Guarded =>
        /\ pc[Service] = "af_wait" /\ core /\ startOld => oldMode
        /\ pc[Service] = "af_write" /\ core /\ startOld => Watchdog \in seen[Service]
        /\ Up /\ startOld => Watchdog \in crontab
        /\ \A m \in Menus : pc[m] # "idle" => Watchdog \notin Drops(work[m])
        /\ \A m \in Menus : pc[m] = "write" /\ Up /\ startOld => Watchdog \in seen[m]

LEMMA NextWatched ==
  ASSUME Typed, Alone, Watched, [Next]_vars
  PROVE  Watched'
<1> SUFFICES ASSUME Guarded' PROVE Watched'
  BY DEF Watched
<1>0. Guarded
  BY MishapsStay DEF Guarded
<1> USE DEF Up
<1>1. CASE UNCHANGED vars
  BY <1>0, <1>1 DEF vars, service, procs, Watched
<1>2. ASSUME NEW m \in Menus, Choose(m) PROVE Watched'
  <2>1. CASE ModeOn(m) \/ SetAutostart(m)
    BY <1>0, <2>1 DEF ModeOn, SetAutostart, service, procs, Watched
  <2>2. CASE ~(ModeOn(m) \/ SetAutostart(m))
    <3>1. PICK ops, wanted, kinds : Begins(m, ops, wanted, kinds)
      BY <1>2, <2>2, ChoiceBegins
    <3>2. /\ mishaps' = mishaps \cup (kinds \cup Overlap(m)) /\ work'[m] = ops
          /\ pc'[m] = First(Head(ops)) /\ m \in Procs /\ m # Service
          /\ \A q \in Procs \ {m} : pc'[q] = pc[q] /\ work'[q] = work[q]
          /\ UNCHANGED <<crontab, service, seen>>
      BY <3>1, LinesAssumption DEF Begins, Begin, Note, Typed, Queues, Procs
    <3>3. Watchdog \notin Drops(ops) /\ pc'[m] # "write"
      BY <3>1, <3>2 DEF Begins, Guarded, First
    <3> QED BY <1>0, <3>2, <3>3 DEF Watched, service, Procs
  <2> QED BY <2>1, <2>2
<1>3. ASSUME NEW m \in Menus, Step(m) PROVE Watched'
  <2>1. /\ pc[m] # "idle" /\ work[m] \in Seq(Ops) /\ work[m] # <<>>
        /\ m \in Procs /\ m # Service
    BY <1>3, Current DEF Step, File, Read, Write, Store, Persist, Prune, Leave, Typed
  <2>2. /\ Drops(work[m]) = Head(work[m]).drop \cup Drops(Tail(work[m]))
        /\ Watchdog \notin Drops(work[m])
    BY <1>0, <2>1, QueueParts DEF Watched
  <2>3. /\ Continue(m) \/ \E label : Goto(m, label)
        /\ seen' = seen \/ \E lines : seen' = [seen EXCEPT ![m] = lines]
        /\ oldMode' = oldMode
        /\ UNCHANGED <<core, startOld>> \/ ~core'
    BY <1>3 DEF Step, File, Read, ReadCron, Write, Store, Persist, Prune, Leave, service
  <2>4. /\ \A q \in Procs \ {m} : pc'[q] = pc[q] /\ work'[q] = work[q] /\ seen'[q] = seen[q]
        /\ work'[m] = work[m] \/ work'[m] = Tail(work[m])
    BY <2>1, <2>3 DEF Continue, Goto, Typed, Queues, Values
  <2>5. Up' /\ startOld' => Watchdog \in crontab'
    <3>1. CASE Write(m)
      BY <1>0, <2>1, <2>2, <2>3, <2>4, <3>1 DEF Write, Watched, Procs
    <3>2. CASE ~Write(m)
      <4>1. crontab' = crontab
        BY <1>3, <3>2 DEF Step, File, Read, Store, Persist, Prune, Leave
      <4> QED BY <1>0, <2>1, <2>3, <2>4, <4>1 DEF Watched, Procs
    <3> QED BY <3>1, <3>2
  <2>6. pc'[m] = "write" /\ Up' /\ startOld' => Watchdog \in seen'[m]
    <3>1. CASE Read(m)
      <4>1. seen'[m] = crontab /\ crontab' = crontab
        BY <2>1, <3>1 DEF Read, ReadCron, Note, Guarded, Typed, Values
      <4> QED BY <2>5, <4>1
    <3>2. CASE ~Read(m)
      <4>1. Continue(m) \/ \E label \in {"read", "store", "persist", "prune", "leave"} : Goto(m, label)
        BY <1>3, <3>2 DEF Step, File, Write, Store, Persist, Prune, Leave, AfterStore
      <4>2. pc'[m] # "write"
        BY <2>1, <4>1 DEF Continue, Goto, First, Typed, Queues
      <4> QED BY <4>2
    <3> QED BY <3>1, <3>2
  <2>7. Watchdog \notin Drops(work'[m])
    BY <2>2, <2>4
  <2>8. \A n \in Menus \ {m} : pc'[n] = "write" /\ Up' /\ startOld' => Watchdog \in seen'[n]
    BY <1>0, <2>1, <2>3, <2>4 DEF Watched, Procs
  <2> QED BY <1>0, <2>1, <2>3, <2>4, <2>5, <2>6, <2>7, <2>8 DEF Watched, Procs
<1>4. ASSUME NEW p \in Procs, Abandoned(p) PROVE Watched'
  BY <1>4 DEF Abandoned, Note, Guarded
<1>5. CASE AfterStart
  <2>1. /\ UNCHANGED <<crontab, core, startOld, work>> /\ pc[Service] = "af_wait"
        /\ pc'[Service] = IF core THEN "af_write" ELSE "idle"
        /\ \A m \in Menus : pc'[m] = pc[m] /\ seen'[m] = seen[m]
    BY <1>5, LinesAssumption DEF AfterStart, ReadCron, Note, Typed, Queues, Values, Procs
  <2>2. core /\ startOld => Watchdog \in seen'[Service]
    BY <1>0, <1>5, <2>1 DEF AfterStart, ReadCron, Note, Merged, Watched, Typed, Values, Procs
  <2> QED BY <1>0, <2>1, <2>2 DEF Watched
<1>6. ASSUME Start PROVE Watched'
  <2>1. /\ UNCHANGED <<crontab, startOld, work, seen>> /\ oldMode' = startOld
        /\ pc'[Service] = "af_wait" /\ \A m \in Menus : pc'[m] = pc[m]
    BY <1>6, LinesAssumption DEF Start, Typed, Queues, Procs
  <2> QED BY <1>0, <2>1 DEF Watched
<1>7. CASE AfterStartWrite
  <2>1. /\ crontab' = seen[Service] /\ pc[Service] = "af_write" /\ pc'[Service] = "idle"
        /\ UNCHANGED <<core, startOld, work>>
        /\ \A m \in Menus : pc'[m] = pc[m]
    BY <1>7, LinesAssumption DEF AfterStartWrite, service, Typed, Queues, Procs
  <2>2. \A m \in Menus : pc[m] = "idle"
    BY <1>0, <2>1, LinesAssumption DEF Alone, Clean, Guarded, Busy, Procs, Typed, Queues, MenuPc
  <2> QED BY <1>0, <2>1, <2>2 DEF Watched
<1>8. CASE BootInit
  <2>1. CASE BootRefused
    BY <1>0, <1>8, <2>1 DEF BootInit, BootRefused, service, procs, Watched
  <2> QED BY <1>6, <1>8, <2>1 DEF BootInit
<1>9. CASE CoreGone
  BY <1>0, <1>9 DEF CoreGone, procs, Watched
<1>10. CASE Reboot
  BY <1>10 DEF Reboot, Procs, Watched
<1> QED BY <1>1, <1>2, <1>3, <1>4, <1>5, <1>6, <1>7, <1>8, <1>9, <1>10
        DEF Next, WatchdogStart

\* A core of conservative mode has its watchdog line once its AfterStart is over,
\* for any number of tasks and menus.
THEOREM WatchdogThere == Spec => []Supervised
<1>1. Init => Typed /\ Alone /\ Watched
  <2>1. Init => Watched
    BY DEF Init, Watched, Up, Procs
  <2> QED BY <2>1, InitType, InitAlone
<1>2. Typed /\ Alone /\ Watched /\ [Next]_vars => (Typed /\ Alone /\ Watched)'
  BY NextType, NextAlone, NextWatched
<1>3. Watched => Supervised
  BY DEF Watched, Guarded, Up, Supervised
<1> QED BY <1>1, <1>2, <1>3, PTL DEF Spec

-----------------------------------------------------------------------------
(* The menu lists what cron runs *)

\* On a device with a store the crontab runs ahead of the files only from the write
\* to the copy of it; the lines a removal is to prune have left the crontab before,
\* and what AfterStart writes is listed.
Copying(m) == pc[m] \in {"write", "store"}

Listing ==
    Clean /\ store =>
        /\ (\A m \in Menus : ~Copying(m)) => crontab \cap Tasks \subseteq Listed
        /\ \A m \in Menus : pc[m] = "store" => crontab \subseteq seen[m]
        /\ \A m \in Menus : pc[m] \in {"store", "prune"} /\ Head(work[m]).kind = "remove" =>
               crontab \cap Head(work[m]).drop = {}
        /\ pc[Service] = "af_write" => seen[Service] \cap Tasks \subseteq Listed

\* A step of an operation leaves no line of the crontab unlisted.
LEMMA StepListing ==
  ASSUME Typed, Alone, Listing, NEW m \in Menus, Step(m), Clean', Clean, store
  PROVE  Listing'
<1> DEFINE op == Head(work[m])
<1>1. pc[m] # "idle" /\ Queues
  BY DEF Step, File, Read, Write, Store, Persist, Prune, Leave, Typed
<1>2. /\ work[m] \in Seq(Ops) /\ work[m] # <<>> /\ op \in Ops
      /\ m \in Procs /\ m # Service /\ Located(m) /\ pc[m] \in MenuPc
  BY <1>1, Current DEF Queues
<1>3. /\ \A n \in Menus \ {m} : pc[n] = "idle"
      /\ pc[Service] # "af_write"
  BY <1>1, <1>2 DEF Alone, Busy, MenuPc, Procs, Queues
<1>4. \A q \in Procs \ {m} : pc'[q] = pc[q]
  BY DEF Step, File, Read, Write, Store, Persist, Prune, Leave, Continue, Goto, Typed, Queues
<1>5. /\ \A n \in Menus \ {m} : pc'[n] = "idle"
      /\ pc'[Service] # "af_write"
  BY <1>2, <1>3, <1>4 DEF Procs
<1>6. ASSUME pc'[m] \notin {"write", "store", "prune"}, crontab' \cap Tasks \subseteq Listed'
      PROVE  Listing'
  BY <1>5, <1>6 DEF Listing, Copying
<1>7. ASSUME Continue(m)
      PROVE  pc'[m] \in {"idle", "file", "read"}
  BY <1>2, <1>7 DEF Continue, First, Typed, Queues
<1>8. ASSUME NEW label, Goto(m, label)
      PROVE  pc'[m] = label /\ work' = work
  BY <1>2, <1>8 DEF Goto, Typed, Queues
<1>9. ~Copying(m) => crontab \cap Tasks \subseteq Listed
  BY <1>3 DEF Listing, Copying
<1>10. CASE File(m)
  <2>1. Continue(m) \/ Goto(m, "read")
    BY <1>10 DEF File
  <2>2. op.kind \in {"running", "hook"} /\ op.drop = op.add
    BY <1>2, <1>10 DEF File, Located, Ops
  <2>3. crontab' = crontab /\ Listed \subseteq Listed'
    BY <1>10, <2>2 DEF File, Listed
  <2>4. crontab \cap Tasks \subseteq Listed
    BY <1>9, <1>10 DEF File, Copying
  <2> QED BY <1>6, <1>7, <1>8, <2>1, <2>3, <2>4
<1>11. CASE Read(m)
  <2>1. pc'[m] = "write"
    BY <1>8, <1>11 DEF Read
  <2> QED BY <1>5, <2>1 DEF Listing, Copying
<1>12. CASE Write(m)
  <2>1. /\ pc'[m] = "store" /\ work' = work
        /\ crontab' = (seen[m] \ op.drop) \cup op.add
        /\ seen'[m] = crontab'
    BY <1>2, <1>8, <1>12 DEF Write, Typed, Values
  <2>2. op.kind = "remove" => op.add = {}
    BY <1>2 DEF Ops, Home
  <2> QED BY <1>5, <2>1, <2>2 DEF Listing, Copying
<1>13. CASE Store(m)
  <2>1. /\ taskCron' = seen[m]
        /\ UNCHANGED <<crontab, taskRunning, taskHook>>
        /\ crontab \subseteq seen[m]
        /\ op.kind = "remove" => crontab \cap op.drop = {}
    BY <1>13 DEF Store, Listing
  <2>2. crontab' \cap Tasks \subseteq Listed'
    BY <2>1 DEF Listed
  <2>3. CASE AfterStore(op.kind) = "done"
    <3>1. Continue(m)
      BY <1>13, <2>3 DEF Store
    <3> QED BY <1>6, <1>7, <2>2, <3>1
  <2>4. CASE AfterStore(op.kind) # "done"
    <3>1. Goto(m, AfterStore(op.kind)) /\ AfterStore(op.kind) \in {"persist", "prune", "leave"}
      BY <1>13, <2>4 DEF Store, AfterStore
    <3>2. pc'[m] \in {"persist", "prune", "leave"} /\ work' = work
      BY <1>8, <3>1
    <3> QED BY <1>5, <2>1, <2>2, <3>2 DEF Listing, Copying
  <2> QED BY <2>3, <2>4
<1>14. CASE Persist(m)
  <2>1. op.drop = op.add
    BY <1>2, <1>14 DEF Persist, Located, Ops
  <2>2. Continue(m) /\ crontab' = crontab /\ Listed \subseteq Listed'
    BY <1>14, <2>1 DEF Persist, Listed
  <2>3. crontab \cap Tasks \subseteq Listed
    BY <1>9, <1>14 DEF Persist, Copying
  <2> QED BY <1>6, <1>7, <2>2, <2>3
<1>15. CASE Prune(m)
  <2>1. /\ Continue(m) /\ crontab' = crontab
        /\ taskCron' = taskCron \ op.drop /\ taskRunning' = taskRunning \ op.drop
        /\ taskHook' = taskHook \ op.drop
    BY <1>15 DEF Prune
  <2>2. crontab \cap op.drop = {}
    BY <1>2, <1>15 DEF Prune, Located, Listing
  <2>3. crontab \cap Tasks \subseteq Listed
    BY <1>9, <1>15 DEF Prune, Copying
  <2>4. crontab' \cap Tasks \subseteq Listed'
    BY <2>1, <2>2, <2>3 DEF Listed
  <2> QED BY <1>6, <1>7, <2>1, <2>4
<1>16. CASE Leave(m)
  <2>1. Continue(m) /\ crontab' = crontab /\ Listed' = Listed
    BY <1>16 DEF Leave, Listed, files
  <2>2. crontab \cap Tasks \subseteq Listed
    BY <1>9, <1>16 DEF Leave, Copying
  <2> QED BY <1>6, <1>7, <2>1, <2>2
<1> QED BY <1>10, <1>11, <1>12, <1>13, <1>14, <1>15, <1>16 DEF Step

\* Nothing Listing speaks of changes, but for lines that leave the crontab.
LEMMA SameListing ==
  ASSUME Listing, Clean, store' = store, crontab' \subseteq crontab,
         UNCHANGED <<files, work>>,
         \A m \in Menus : pc'[m] = pc[m] /\ seen'[m] = seen[m],
         pc'[Service] = "af_write" =>
             pc[Service] = "af_write" /\ seen'[Service] = seen[Service]
  PROVE  Listing'
<1>1. Listed' = Listed
  BY DEF Listed, files
<1>2. \A m \in Menus : Copying(m)' <=> Copying(m)
  BY DEF Copying
<1> QED BY <1>1, <1>2 DEF Listing

LEMMA NextListing ==
  ASSUME Typed, Alone, Listing, [Next]_vars
  PROVE  Listing'
<1> SUFFICES ASSUME Clean', store' PROVE Listing'
  BY DEF Listing
<1>0. Clean
  BY MishapsStay DEF Clean
<1>1. CASE UNCHANGED vars
  BY <1>0, <1>1, SameListing DEF vars, device, procs
<1>2. ASSUME NEW m \in Menus, Choose(m) PROVE Listing'
  <2>1. CASE ModeOn(m) \/ SetAutostart(m)
    BY <1>0, <2>1, SameListing DEF ModeOn, SetAutostart, procs
  <2>2. CASE ~(ModeOn(m) \/ SetAutostart(m))
    <3>1. PICK ops, wanted, kinds : Begins(m, ops, wanted, kinds)
      BY <1>2, <2>2, ChoiceBegins
    <3>2. /\ Overlap(m) \subseteq mishaps'
          /\ pc[m] = "idle" /\ pc'[m] \in {"file", "read"} /\ m \in Procs /\ m # Service
          /\ \A q \in Procs \ {m} : pc'[q] = pc[q]
          /\ UNCHANGED <<crontab, files, device>>
      BY <3>1, LinesAssumption DEF Begins, Begin, Note, First, Typed, Queues, Procs
    <3>3. \A q \in Procs \ {m} : ~Busy(q)
      BY <3>2 DEF Overlap, Clean
    <3>4. /\ \A n \in Menus : pc[n] = "idle"
          /\ pc'[Service] # "af_write" /\ \A n \in Menus \ {m} : pc'[n] = "idle"
      BY <3>2, <3>3 DEF Busy, Procs, Typed, Queues, MenuPc
    <3>5. crontab \cap Tasks \subseteq Listed /\ Listed' = Listed
      BY <1>0, <3>2, <3>4 DEF Listing, Copying, Listed, files, device
    <3> QED BY <3>2, <3>4, <3>5 DEF Listing
  <2> QED BY <2>1, <2>2
<1>3. ASSUME NEW m \in Menus, Step(m) PROVE Listing'
  <2>1. store
    BY <1>3 DEF Step, File, Read, Write, Store, Persist, Prune, Leave, device
  <2> QED BY <1>0, <1>3, <2>1, StepListing
<1>4. ASSUME NEW p \in Procs, Abandoned(p) PROVE Listing'
  BY <1>4 DEF Abandoned, Note, Clean
<1>5. CASE AfterStart
  <2>1. /\ UNCHANGED <<crontab, files, work, device>>
        /\ \A m \in Menus : pc'[m] = pc[m] /\ seen'[m] = seen[m]
    BY <1>5, LinesAssumption DEF AfterStart, ReadCron, Note, Typed, Queues, Values, Procs
  <2>2. CASE core
    <3>1. /\ Overlap(Service) \subseteq mishaps'
          /\ seen'[Service] \subseteq crontab \cup Merged
      BY <1>5, <2>2 DEF AfterStart, ReadCron, Note, Typed, Values, Procs
    <3>2. \A m \in Menus : pc[m] = "idle"
      BY <3>1, LinesAssumption DEF Overlap, Clean, Busy, Procs, Typed, Queues, MenuPc
    <3>3. crontab \cap Tasks \subseteq Listed /\ Listed' = Listed
      BY <1>0, <2>1, <3>2 DEF Listing, Copying, Listed, files, device
    <3>4. seen'[Service] \cap Tasks \subseteq Listed
      BY <3>1, <3>3, LinesAssumption DEF Merged, Listed
    <3> QED BY <2>1, <3>2, <3>3, <3>4 DEF Listing
  <2>3. CASE ~core
    <3>1. pc'[Service] = "idle"
      BY <1>5, <2>3 DEF AfterStart, Typed, Queues, Procs
    <3> QED BY <1>0, <2>1, <3>1, SameListing DEF device
  <2> QED BY <2>2, <2>3
<1>6. ASSUME Start PROVE Listing'
  <2>1. /\ UNCHANGED <<crontab, files, device, work, seen>>
        /\ pc'[Service] = "af_wait"
        /\ \A m \in Menus : pc'[m] = pc[m]
    BY <1>6, LinesAssumption DEF Start, Typed, Queues, Procs
  <2> QED BY <1>0, <2>1, SameListing DEF device
<1>7. CASE AfterStartWrite
  <2>1. /\ crontab' = seen[Service] /\ pc[Service] = "af_write" /\ pc'[Service] = "idle"
        /\ \A m \in Menus : pc'[m] = pc[m]
        /\ UNCHANGED <<files, device>>
    BY <1>7, LinesAssumption DEF AfterStartWrite, Typed, Queues, Procs
  <2>2. \A m \in Menus : pc[m] = "idle"
    BY <1>0, <2>1, LinesAssumption DEF Alone, Busy, Procs, Typed, Queues, MenuPc
  <2>3. seen[Service] \cap Tasks \subseteq Listed /\ Listed' = Listed
    BY <1>0, <2>1 DEF Listing, Listed, files, device
  <2> QED BY <2>1, <2>2, <2>3 DEF Listing
<1>8. CASE BootInit
  <2>1. CASE BootRefused
    BY <1>0, <1>8, <2>1, SameListing DEF BootInit, BootRefused, device, procs
  <2> QED BY <1>6, <1>8, <2>1 DEF BootInit
<1>9. CASE CoreGone
  BY <1>0, <1>9, SameListing DEF CoreGone, device, procs
<1>10. CASE Reboot
  BY <1>10 DEF Reboot, device, Listing, Procs
<1> QED BY <1>1, <1>2, <1>3, <1>4, <1>5, <1>6, <1>7, <1>8, <1>9, <1>10
        DEF Next, WatchdogStart

\* On a device with a store the task menu lists every task cron runs, for any number
\* of tasks and menus.
THEOREM StoreListed == Spec => []StoreListsAll
<1>1. Init => Typed /\ Alone /\ Listing
  <2>1. Init => Listing
    BY DEF Init, Listing, Procs
  <2> QED BY <2>1, InitType, InitAlone
<1>2. Typed /\ Alone /\ Listing /\ [Next]_vars => (Typed /\ Alone /\ Listing)'
  BY NextType, NextAlone, NextListing
<1>3. Listing => StoreListsAll
  BY DEF Listing, Copying, MenusIdle, Clean, StoreListsAll
<1> QED BY <1>1, <1>2, <1>3, PTL DEF Spec

=============================================================================
