--------------------------- MODULE SettingsProofs ---------------------------
(***************************************************************************)
(* For any number of menus, bots, ports and operations: keys that belong   *)
(* together agree, SSH is open as shown, and a pure mode the bot announced *)
(* holds, wherever nothing is under way and no mishap was noted.           *)
(***************************************************************************)
EXTENDS Settings, TLAPS

-----------------------------------------------------------------------------
\* Types.

\* What one write puts: some keys, each with a value it can have.
Puts == {f \in UNION {[D -> UNION {ValuesOf(k) : k \in Keys}] : D \in SUBSET Keys} :
            \A k \in DOMAIN f : f[k] \in ValuesOf(k)}
Plain == {"unmark", "restore", "fw_read", "fw_start", "fw_stop"}
OnPort == {"open", "close", "mark"}
Steps ==
    {Set(f) : f \in Puts} \cup {Do(type, None) : type \in Plain}
    \cup {Do(type, port) : type \in OnPort, port \in SshPorts}
\* All the steps of a plan.
StepsOf(steps) == UNION {steps[i] : i \in DOMAIN steps}
Pending(p) == StepsOf(plan[p])
Restoring(steps) == \E s \in StepsOf(steps) : s.type = "restore"

\* What must come in its order: the archive is put back in a single step, the
\* firewall is touched last, and started from what has been read just before.
Orderly(steps) ==
    /\ Restoring(steps) => steps = <<{Do("restore", None)}>>
    /\ Do("fw_stop", None) \in StepsOf(steps) =>
          \/ steps = <<{Do("fw_stop", None)}>>
          \/ \E f \in Puts : steps = <<{Set(f)}, {Do("fw_stop", None)}>>
    /\ Do("fw_start", None) \in StepsOf(steps) \/ Do("fw_read", None) \in StepsOf(steps) =>
          \/ steps = <<{Do("fw_start", None)}>>
          \/ steps = <<{Do("fw_read", None)}, {Do("fw_start", None)}>>
          \/ \E f \in Puts : steps = <<{Set(f)}, {Do("fw_read", None)}, {Do("fw_start", None)}>>

IsPlan(steps) ==
    /\ steps \in Seq(SUBSET Steps)
    /\ \A i \in DOMAIN steps : steps[i] # {}
    /\ Orderly(steps)
IsView(view) == IsFile(view.cfg) /\ view.lines \subseteq SshPorts

Typed ==
    /\ IsFile(cfg) /\ lines \subseteq SshPorts /\ rules \subseteq SshPorts /\ missed \subseteq SshPorts
    /\ diverting \in BOOLEAN /\ pure \in BOOLEAN /\ ops \in 0 .. MaxOps
    /\ (saved.file = NoFile \/ IsFile(saved.file)) /\ saved.bad \subseteq Groups
    /\ DOMAIN seen = Procs /\ DOMAIN plan = Procs /\ DOMAIN copy = Procs
    /\ \A p \in Procs :
        /\ seen[p] = NoView \/ IsView(seen[p])
        /\ copy[p] = NoFile \/ IsFile(copy[p])
        /\ IsPlan(plan[p])
        /\ plan[p] # <<>> => ~Idle(p)
    /\ stale \in [Procs -> SUBSET Groups] /\ spoiled \subseteq Groups

\* What a step about SSH does to rules and lines.
SshStep(step) ==
    \/ step.type \in {"open", "close"} /\ Iptables(step.type, step.port) /\ UNCHANGED lines
    \/ /\ step.type \in {"mark", "unmark"}
       /\ lines' = IF step.type = "mark" THEN lines \cup {step.port} ELSE {}
       /\ UNCHANGED <<rules, missed>>

LEMMA KeysAre ==
    /\ Keys = {"redir_mod", "redir_mod_bf", "firewall_area", "ipv6_redir", "ipv6_support", "push_TG", "chat_ID",
               "push_Po", "push_Po_key", "push_SynoChat", "push_ChatURL", "ssh_port", "rest"}
    /\ Groups = {"mode", "ipv6", "tg", "po", "syno", "ssh", "rest"}
    /\ \A g \in Groups : Group[g] \subseteq Keys
<1>1. Groups = {"mode", "ipv6", "tg", "po", "syno", "ssh", "rest"} BY DEF Groups, Group
<1>2. QED BY <1>1 DEF Keys, Group

LEMMA FileIsSome == ASSUME NEW file, IsFile(file) PROVE file # NoFile
  BY KeysAre DEF IsFile, NoFile

LEMMA PutIs ==
    ASSUME NEW D \in SUBSET Keys, NEW f, f = [k \in D |-> f[k]], \A k \in D : f[k] \in ValuesOf(k)
    PROVE  f \in Puts /\ Set(f) \in Steps
<1>1. f \in [D -> UNION {ValuesOf(k) : k \in Keys}] OBVIOUS
<1>2. f \in Puts BY <1>1 DEF Puts
<1>3. QED BY <1>2 DEF Steps

LEMMA PutOne ==
    ASSUME NEW key \in Keys, NEW value \in ValuesOf(key)
    PROVE  Set([k \in {key} |-> value]) \in Steps
<1> DEFINE f == [k \in {key} |-> value]
<1>1. f = [k \in {key} |-> f[k]] OBVIOUS
<1> QED BY <1>1, PutIs

LEMMA PutMany ==
    ASSUME NEW keys \in SUBSET Keys, NEW value, \A key \in keys : value \in ValuesOf(key)
    PROVE  Put(keys, value) \in SUBSET Steps
  BY PutOne DEF Put

\* A step is a write, or names itself and its port.
LEMMA StepIs ==
    ASSUME NEW step \in Steps
    PROVE  /\ step.type = "set" => step.put \in Puts /\ step = Set(step.put)
           /\ step.type # "set" => step = Do(step.type, step.port)
           /\ step.type \in OnPort => step.port \in SshPorts
           /\ step.type \in Plain => step.port = None
           /\ step.type \in {"set"} \cup OnPort \cup Plain
  BY DEF Steps, Set, Do, OnPort, Plain

LEMMA OneSet ==
    ASSUME NEW a, a \in SUBSET Steps, a # {}
    PROVE  /\ <<a>> \in Seq(SUBSET Steps) /\ StepsOf(<<a>>) = a
           /\ \A i \in DOMAIN <<a>> : <<a>>[i] # {}
  BY DEF StepsOf
LEMMA TwoSets ==
    ASSUME NEW a, a \in SUBSET Steps, a # {}, NEW b, b \in SUBSET Steps, b # {}
    PROVE  /\ <<a, b>> \in Seq(SUBSET Steps) /\ StepsOf(<<a, b>>) = a \cup b
           /\ \A i \in DOMAIN <<a, b>> : <<a, b>>[i] # {}
<1>1. DOMAIN <<a, b>> = {1, 2} OBVIOUS
<1> QED BY <1>1 DEF StepsOf
LEMMA ThreeSets ==
    ASSUME NEW a, a \in SUBSET Steps, a # {}, NEW b, b \in SUBSET Steps, b # {}, NEW c, c \in SUBSET Steps, c # {}
    PROVE  /\ <<a, b, c>> \in Seq(SUBSET Steps) /\ StepsOf(<<a, b, c>>) = a \cup b \cup c
           /\ \A i \in DOMAIN <<a, b, c>> : <<a, b, c>>[i] # {}
<1>1. DOMAIN <<a, b, c>> = {1, 2, 3} OBVIOUS
<1> QED BY <1>1 DEF StepsOf

\* What is left of a plan once one of the steps at its head is made.
Rest(steps, step) ==
    IF Head(steps) \ {step} = {} THEN Tail(steps) ELSE <<Head(steps) \ {step}>> \o Tail(steps)

LEMMA Shortened ==
    ASSUME NEW steps, IsPlan(steps), steps # <<>>, NEW step \in Head(steps)
    PROVE  /\ step \in Steps /\ step \in StepsOf(steps)
           /\ StepsOf(Rest(steps, step)) \subseteq StepsOf(steps)
           /\ StepsOf(steps) \subseteq StepsOf(Rest(steps, step)) \cup {step}
           /\ IsPlan(Rest(steps, step))
<1> steps \in Seq(SUBSET Steps) /\ Len(steps) \in Nat \ {0} /\ Head(steps) = steps[1] /\ 1 \in DOMAIN steps
  BY DEF IsPlan
<1> DEFINE h == Head(steps) \ {step}
           t == Tail(steps)
           r == Rest(steps, step)
<1>1. step \in Steps /\ step \in StepsOf(steps)
  BY DEF StepsOf
<1>2. t \in Seq(SUBSET Steps) /\ DOMAIN t = 1 .. Len(steps) - 1 /\ \A i \in DOMAIN t : t[i] = steps[i + 1]
  OBVIOUS
<1>3. /\ r \in Seq(SUBSET Steps) /\ StepsOf(r) \subseteq StepsOf(steps)
      /\ StepsOf(steps) \subseteq StepsOf(r) \cup {step}
      /\ \A i \in DOMAIN r : r[i] # {}
  <2>1. CASE h = {}
    <3>1. r = t BY <2>1 DEF Rest
    <3>2. \A i \in DOMAIN t : i + 1 \in DOMAIN steps BY <1>2
    <3>3. \A i \in DOMAIN steps : i = 1 \/ (i - 1 \in DOMAIN t /\ t[i - 1] = steps[i]) BY <1>2
    <3>4. steps[1] \subseteq {step} BY <2>1
    <3>5. StepsOf(r) \subseteq StepsOf(steps) BY <3>1, <3>2, <1>2 DEF StepsOf
    <3>6. StepsOf(steps) \subseteq StepsOf(r) \cup {step} BY <3>1, <3>3, <3>4 DEF StepsOf
    <3>7. \A i \in DOMAIN r : r[i] # {} BY <3>1, <3>2, <1>2 DEF IsPlan
    <3> QED BY <3>1, <3>5, <3>6, <3>7, <1>2
  <2>2. CASE h # {}
    <3>1. r = <<h>> \o t BY <2>2 DEF Rest
    <3>2. h \in SUBSET Steps BY DEF StepsOf
    <3>3. /\ r \in Seq(SUBSET Steps) /\ DOMAIN r = DOMAIN steps /\ r[1] = h
          /\ \A i \in DOMAIN r : i # 1 => r[i] = steps[i]
      BY <3>1, <3>2, <1>2
    <3>4. \A i \in DOMAIN r : r[i] \subseteq steps[i] /\ steps[i] \subseteq r[i] \cup {step} BY <3>3
    <3>5. StepsOf(r) \subseteq StepsOf(steps) /\ StepsOf(steps) \subseteq StepsOf(r) \cup {step}
      BY <3>3, <3>4 DEF StepsOf
    <3>6. \A i \in DOMAIN r : r[i] # {} BY <3>3, <2>2 DEF IsPlan
    <3> QED BY <3>3, <3>5, <3>6
  <2> QED BY <2>1, <2>2
<1>4. Orderly(r)
  <2>1. Orderly(steps) BY DEF IsPlan
  <2>2. ASSUME NEW a, steps = <<{a}>> PROVE r = <<>>
    <3> step = a /\ Head(steps) \ {step} = {} BY <2>2
    <3> QED BY <2>2 DEF Rest
  <2>3. ASSUME NEW a, NEW b, steps = <<{a}, {b}>> PROVE r = <<{b}>>
    <3> step = a /\ Head(steps) \ {step} = {} BY <2>3
    <3> QED BY <2>3 DEF Rest
  <2>4. ASSUME NEW a, NEW b, NEW c, steps = <<{a}, {b}, {c}>> PROVE r = <<{b}, {c}>>
    <3> step = a /\ Head(steps) \ {step} = {} BY <2>4
    <3> QED BY <2>4 DEF Rest
  <2>5. StepsOf(<<>>) = {} BY DEF StepsOf
  <2>6. Restoring(r) => r = <<{Do("restore", None)}>>
    BY <1>3, <2>1, <2>2, <2>5 DEF Orderly, Restoring
  <2>7. Do("fw_stop", None) \in StepsOf(r) => r = <<{Do("fw_stop", None)}>>
    BY <1>3, <2>1, <2>2, <2>3, <2>5 DEF Orderly
  <2>8. Do("fw_start", None) \in StepsOf(r) \/ Do("fw_read", None) \in StepsOf(r) =>
          r = <<{Do("fw_start", None)}>> \/ r = <<{Do("fw_read", None)}, {Do("fw_start", None)}>>
    BY <1>3, <2>1, <2>2, <2>3, <2>4, <2>5 DEF Orderly
  <2> QED BY <2>6, <2>7, <2>8 DEF Orderly
<1> QED BY <1>1, <1>3, <1>4 DEF IsPlan

-----------------------------------------------------------------------------
\* What a menu and the bot offer are plans.

\* A plan that only writes.
LEMMA WritesAreOrderly ==
    ASSUME NEW steps, \A s \in StepsOf(steps) : s.type \in {"set", "open", "close", "mark", "unmark"}
    PROVE  Orderly(steps)
  BY DEF Orderly, Restoring, Do

LEMMA PutType ==
    ASSUME NEW keys, NEW value, NEW s \in Put(keys, value)
    PROVE  s.type = "set"
<1>1. PICK key \in keys : s = Set([k \in {key} |-> value]) BY DEF Put
<1> QED BY <1>1 DEF Set

LEMMA Values ==
    /\ \A k \in Keys : None \in ValuesOf(k)
    /\ \A m \in Modes : m \in ValuesOf("redir_mod") /\ m \in ValuesOf("redir_mod_bf")
    /\ \A a \in Areas : a \in ValuesOf("firewall_area")
    /\ \A port \in SshPorts : port \in ValuesOf("ssh_port")
    /\ \A k \in Keys \ {"redir_mod", "redir_mod_bf", "firewall_area", "ssh_port"} : "ON" \in ValuesOf(k)
    /\ ValuesOf("redir_mod") = Modes \cup {None} /\ ValuesOf("redir_mod_bf") = Modes \cup {None}
    /\ ValuesOf("ssh_port") = SshPorts \cup {None} /\ ValuesOf("firewall_area") = Areas \cup {None}
<1>1. \A k \in {"redir_mod", "redir_mod_bf"} : ValuesOf(k) = Modes \cup {None}
  BY DEF ValuesOf
<1>2. ValuesOf("firewall_area") = Areas \cup {None}
  BY DEF ValuesOf
<1>3. ValuesOf("ssh_port") = SshPorts \cup {None}
  BY DEF ValuesOf
<1>4. ASSUME NEW k \in Keys \ {"redir_mod", "redir_mod_bf", "firewall_area", "ssh_port"}
      PROVE  ValuesOf(k) = {"ON", None}
  BY <1>4 DEF ValuesOf
<1> QED BY <1>1, <1>2, <1>3, <1>4

LEMMA OneWrite ==
    ASSUME NEW a, a \in SUBSET Steps, a # {}, \A s \in a : s.type \in {"set", "open", "close", "mark", "unmark"}
    PROVE  IsPlan(<<a>>)
  BY OneSet, WritesAreOrderly DEF IsPlan
LEMMA TwoWrites ==
    ASSUME NEW a, a \in SUBSET Steps, a # {}, \A s \in a : s.type \in {"set", "open", "close", "mark", "unmark"},
           NEW b, b \in SUBSET Steps, b # {}, \A s \in b : s.type \in {"set", "open", "close", "mark", "unmark"}
    PROVE  IsPlan(<<a, b>>)
<1>1. \A s \in StepsOf(<<a, b>>) : s.type \in {"set", "open", "close", "mark", "unmark"}
  <2>1. StepsOf(<<a, b>>) = a \cup b BY TwoSets
  <2> QED BY <2>1
<1> QED BY <1>1, TwoSets, WritesAreOrderly DEF IsPlan
LEMMA ThreeWrites ==
    ASSUME NEW a, a \in SUBSET Steps, a # {}, \A s \in a : s.type \in {"set", "open", "close", "mark", "unmark"},
           NEW b, b \in SUBSET Steps, b # {}, \A s \in b : s.type \in {"set", "open", "close", "mark", "unmark"},
           NEW c, c \in SUBSET Steps, c # {}, \A s \in c : s.type \in {"set", "open", "close", "mark", "unmark"}
    PROVE  IsPlan(<<a, b, c>>)
<1>1. \A s \in StepsOf(<<a, b, c>>) : s.type \in {"set", "open", "close", "mark", "unmark"}
  <2>1. StepsOf(<<a, b, c>>) = a \cup b \cup c BY ThreeSets
  <2> QED BY <2>1
<1> QED BY <1>1, ThreeSets, WritesAreOrderly DEF IsPlan

\* One write of one key is a set of one step.
LEMMA OneIs ==
    ASSUME NEW key \in Keys, NEW value \in ValuesOf(key)
    PROVE  /\ One(key, value) = {Set([k \in {key} |-> value])}
           /\ One(key, value) \in SUBSET Steps /\ One(key, value) # {}
           /\ \A s \in One(key, value) : s.type = "set"
<1>1. One(key, value) = {Set([k \in {key} |-> value])} BY DEF One, Put
<1>2. Set([k \in {key} |-> value]).type = "set" BY DEF Set
<1>3. Set([k \in {key} |-> value]) \in Steps BY PutOne
<1> HIDE DEF Set
<1> QED BY <1>1, <1>2, <1>3

LEMMA SshSteps ==
    /\ \A type \in OnPort, port \in SshPorts :
         /\ {Do(type, port)} \in SUBSET Steps /\ {Do(type, port)} # {}
         /\ \A s \in {Do(type, port)} : s.type \in {"open", "close", "mark"}
    /\ {Do("unmark", None)} \in SUBSET Steps /\ {Do("unmark", None)} # {}
    /\ \A s \in {Do("unmark", None)} : s.type = "unmark"
  BY DEF Steps, OnPort, Plain, Do

LEMMA PortIs == ASSUME NEW file, IsFile(file) PROVE Port(file) \in SshPorts
  BY SettingsAssumption, KeysAre, Values DEF IsFile, Port, OrElse

\* A write of a key or two keys in two ways, alone and before the firewall.
LEMMA SetIs ==
    ASSUME NEW D \in SUBSET Keys, NEW f, f = [k \in D |-> f[k]], \A k \in D : f[k] \in ValuesOf(k)
    PROVE  /\ f \in Puts /\ {Set(f)} \in SUBSET Steps /\ {Set(f)} # {}
           /\ \A s \in {Set(f)} : s.type = "set"
<1>1. f \in Puts /\ Set(f) \in Steps BY PutIs
<1>2. Set(f).type = "set" BY DEF Set
<1> HIDE DEF Set
<1> QED BY <1>1, <1>2

LEMMA StepTypes ==
    /\ \A f : Set(f).type = "set"
    /\ \A type, port : Do(type, port).type = type /\ Do(type, port).port = port
    /\ \A type, port, other, o : Do(type, port) = Do(other, o) => type = other /\ port = o
<1>1. \A f : Set(f).type = "set" BY DEF Set
<1>2. \A type, port : Do(type, port).type = type /\ Do(type, port).port = port BY DEF Do
<1> HIDE DEF Do
<1> QED BY <1>1, <1>2

LEMMA Joined ==
    ASSUME NEW a, NEW b, NEW c
    PROVE  <<a>> \o <<b, c>> = <<a, b, c>> /\ <<a>> \o <<>> = <<a>>
<1> DEFINE S == {a, b, c}
<1>1. <<a>> \in Seq(S) /\ <<b, c>> \in Seq(S) /\ Len(<<a>>) = 1 /\ Len(<<b, c>>) = 2
  OBVIOUS
<1>2. <<a>> \o <<b, c>> = [i \in 1 .. 3 |-> IF i <= 1 THEN <<a>>[i] ELSE <<b, c>>[i - 1]]
  BY <1>1
<1>3. <<a, b, c>> = [i \in 1 .. 3 |-> IF i <= 1 THEN <<a>>[i] ELSE <<b, c>>[i - 1]]
  OBVIOUS
<1>4. <<a>> \o <<>> = <<a>>
  OBVIOUS
<1> QED BY <1>2, <1>3, <1>4

\* The steps of a plan of two or three sets, whatever the sets are.
LEMMA UnionOfTwo == ASSUME NEW a, NEW b PROVE StepsOf(<<a, b>>) = a \cup b
<1>1. DOMAIN <<a, b>> = {1, 2} OBVIOUS
<1> QED BY <1>1 DEF StepsOf

LEMMA UnionOfThree == ASSUME NEW a, NEW b, NEW c PROVE StepsOf(<<a, b, c>>) = a \cup b \cup c
<1>1. DOMAIN <<a, b, c>> = {1, 2, 3} OBVIOUS
<1> QED BY <1>1 DEF StepsOf

LEMMA StopIsPlan == ASSUME NEW f \in Puts PROVE IsPlan(<<{Set(f)}, {Do("fw_stop", None)}>>)
<1> DEFINE a == {Set(f)}  b == {Do("fw_stop", None)}
<1>1. a \in SUBSET Steps /\ a # {} BY DEF Steps
<1>2. b \in SUBSET Steps /\ b # {} BY DEF Steps, Plain
<1>6. \A s \in a \cup b : s.type \in {"set", "fw_stop"} BY StepTypes
<1> HIDE DEF a, b
<1>3. StepsOf(<<a, b>>) = a \cup b BY UnionOfTwo
<1>4. /\ ~Restoring(<<a, b>>) /\ Do("fw_start", None) \notin a \cup b /\ Do("fw_read", None) \notin a \cup b
  BY <1>3, <1>6, StepTypes DEF Restoring
<1>5. Orderly(<<a, b>>) BY <1>3, <1>4 DEF Orderly, a, b
<1>8. <<a, b>> \in Seq(SUBSET Steps) BY <1>1, <1>2, TwoSets
<1>7. IsPlan(<<a, b>>) BY <1>1, <1>2, <1>5, <1>8 DEF IsPlan
<1> QED BY <1>7 DEF a, b

LEMMA StartIsPlan ==
    ASSUME NEW f \in Puts PROVE IsPlan(<<{Set(f)}, {Do("fw_read", None)}, {Do("fw_start", None)}>>)
<1> DEFINE a == {Set(f)}  b == {Do("fw_read", None)}  c == {Do("fw_start", None)}
<1>1. a \in SUBSET Steps /\ a # {} BY DEF Steps
<1>2. b \in SUBSET Steps /\ b # {} BY DEF Steps, Plain
<1>9. c \in SUBSET Steps /\ c # {} BY DEF Steps, Plain
<1>6. \A s \in a \cup b \cup c : s.type \in {"set", "fw_read", "fw_start"} BY StepTypes
<1> HIDE DEF a, b, c
<1>3. StepsOf(<<a, b, c>>) = a \cup b \cup c BY UnionOfThree
<1>4. ~Restoring(<<a, b, c>>) /\ Do("fw_stop", None) \notin a \cup b \cup c
  BY <1>3, <1>6, StepTypes DEF Restoring
<1>5. Orderly(<<a, b, c>>) BY <1>3, <1>4 DEF Orderly, a, b, c
<1>8. <<a, b, c>> \in Seq(SUBSET Steps) BY <1>1, <1>2, <1>9, ThreeSets
<1>7. IsPlan(<<a, b, c>>) BY <1>1, <1>2, <1>9, <1>5, <1>8 DEF IsPlan
<1> QED BY <1>7 DEF a, b, c

LEMMA RestartIsPlan == IsPlan(<<{Do("fw_read", None)}, {Do("fw_start", None)}>>)
<1> DEFINE b == {Do("fw_read", None)}  c == {Do("fw_start", None)}
<1>1. b \in SUBSET Steps /\ b # {} BY DEF Steps, Plain
<1>2. c \in SUBSET Steps /\ c # {} BY DEF Steps, Plain
<1>6. \A s \in b \cup c : s.type \in {"fw_read", "fw_start"} BY StepTypes
<1> HIDE DEF b, c
<1>3. StepsOf(<<b, c>>) = b \cup c BY UnionOfTwo
<1>4. ~Restoring(<<b, c>>) /\ Do("fw_stop", None) \notin b \cup c
  BY <1>3, <1>6, StepTypes DEF Restoring
<1>5. Orderly(<<b, c>>) BY <1>3, <1>4 DEF Orderly, b, c
<1>8. <<b, c>> \in Seq(SUBSET Steps) BY <1>1, <1>2, TwoSets
<1>7. IsPlan(<<b, c>>) BY <1>1, <1>2, <1>5, <1>8 DEF IsPlan
<1> QED BY <1>7 DEF b, c

LEMMA RestoreIsPlan == IsPlan(<<{Do("restore", None)}>>)
<1> DEFINE b == {Do("restore", None)}
<1>2. b \in SUBSET Steps /\ b # {} BY DEF Steps, Plain
<1>3. StepsOf(<<b>>) = b BY <1>2, OneSet
<1>4. Do("fw_stop", None) \notin b /\ Do("fw_start", None) \notin b /\ Do("fw_read", None) \notin b BY DEF Do
<1>5. Orderly(<<b>>) BY <1>3, <1>4 DEF Orderly
<1> QED BY <1>2, <1>5, OneSet DEF IsPlan

LEMMA ModePlans ==
    ASSUME NEW mode \in Modes, NEW v6 \in BOOLEAN
    PROVE  IsPlan(Redir(mode)) /\ IsPlan(GatewayGuide(mode, v6)) /\ IsPlan(LocalGuide) /\ IsPlan(Restart)
<1>1. "4" \in Areas /\ "1" \in Areas /\ "2" \in Areas /\ "Redir" \in Modes /\ Pure \in Modes
  BY DEF Areas, Modes
<1>5. ASSUME NEW key \in {"redir_mod", "firewall_area"}, NEW value \in ValuesOf(key)
      PROVE  /\ One(key, value) \in SUBSET Steps /\ One(key, value) # {}
             /\ \A s \in One(key, value) : s.type = "set"
  BY KeysAre, OneIs
<1>6. mode \in ValuesOf("redir_mod") /\ Pure \in ValuesOf("redir_mod") /\ "Redir" \in ValuesOf("redir_mod")
      /\ "2" \in ValuesOf("firewall_area") /\ "4" \in ValuesOf("firewall_area")
  BY <1>1, Values
<1>2. IsPlan(Redir(mode))
  <2>1. IsPlan(<<One("redir_mod", mode)>>) BY <1>5, <1>6, OneWrite
  <2>2. IsPlan(<<One("redir_mod", Pure), One("firewall_area", "4")>>) BY <1>5, <1>6, TwoWrites
  <2> QED BY <2>1, <2>2 DEF Redir
<1>3. IsPlan(LocalGuide)
  BY <1>5, <1>6, TwoWrites DEF LocalGuide
<1>4. IsPlan(GatewayGuide(mode, v6))
  <2> DEFINE a == One("redir_mod", mode) \cup One("firewall_area", "1")
  <2>1. a \in SUBSET Steps /\ a # {} /\ \A s \in a : s.type = "set"
    BY <1>1, OneIs, Values, KeysAre
  <2>2. CASE v6
    <3>1. GatewayGuide(mode, v6) = <<a, One("ipv6_redir", "ON"), One("ipv6_support", "ON")>>
      BY <2>2, Joined DEF GatewayGuide
    <3>2. ASSUME NEW key \in {"ipv6_redir", "ipv6_support"}
          PROVE  /\ One(key, "ON") \in SUBSET Steps /\ One(key, "ON") # {}
                 /\ \A s \in One(key, "ON") : s.type = "set"
      BY OneIs, Values, KeysAre
    <3> HIDE DEF a
    <3>3. IsPlan(<<a, One("ipv6_redir", "ON"), One("ipv6_support", "ON")>>)
      BY <2>1, <3>2, ThreeWrites
    <3> QED BY <3>1, <3>3
  <2>3. CASE ~v6
    <3>1. GatewayGuide(mode, v6) = <<a>> BY <2>3, Joined DEF GatewayGuide
    <3> HIDE DEF a
    <3> QED BY <2>1, <3>1, OneWrite
  <2> QED BY <2>2, <2>3
<1> QED BY <1>2, <1>3, <1>4, RestartIsPlan DEF Restart

LEMMA KeyPlans ==
    ASSUME NEW view, IsView(view)
    PROVE  /\ IsPlan(Ipv6(view))
           /\ IsPlan(Push(view, "tg", "push_TG")) /\ IsPlan(Push(view, "po", "push_Po"))
           /\ \A user \in {"ON", None} : IsPlan(Syno(view, user))
           /\ \A value \in {"ON", None} : IsPlan(<<One("rest", value)>>)
           /\ IsPlan(BindPush)
<1> DEFINE K == Keys \ {"redir_mod", "redir_mod_bf", "firewall_area", "ssh_port"}
<1>1. ASSUME NEW keys \in SUBSET K, keys # {}, NEW value \in {"ON", None}
      PROVE  Put(keys, value) \in SUBSET Steps /\ Put(keys, value) # {} /\ \A s \in Put(keys, value) : s.type = "set"
  <2>1. \A key \in keys : value \in ValuesOf(key) BY Values
  <2>2. Put(keys, value) # {} BY <1>1 DEF Put
  <2> QED BY <2>1, <2>2, PutMany, PutType
<1>2. ASSUME NEW key \in K, NEW value \in {"ON", None}
      PROVE  /\ One(key, value) \in SUBSET Steps /\ One(key, value) # {}
             /\ \A s \in One(key, value) : s.type = "set"
  <2>1. {key} \in SUBSET K /\ {key} # {} OBVIOUS
  <2> QED BY <1>1, <2>1 DEF One
<1>3. /\ "ipv6_redir" \in K /\ "ipv6_support" \in K /\ "push_TG" \in K /\ "push_Po" \in K
      /\ "push_SynoChat" \in K /\ "push_ChatURL" \in K /\ "rest" \in K
  BY KeysAre
<1>4. /\ Group["tg"] \ {"push_TG"} \in SUBSET K /\ Group["tg"] \ {"push_TG"} # {}
      /\ Group["po"] \ {"push_Po"} \in SUBSET K /\ Group["po"] \ {"push_Po"} # {}
  BY KeysAre DEF Group
<1> HIDE DEF K
<1>5. IsPlan(Ipv6(view))
  <2>1. IsPlan(<<One("ipv6_redir", None)>>) BY <1>2, <1>3, OneWrite
  <2>2. IsPlan(<<One("ipv6_redir", "ON"), One("ipv6_support", "ON")>>) BY <1>2, <1>3, TwoWrites
  <2> QED BY <2>1, <2>2 DEF Ipv6
<1>6. ASSUME NEW g \in {"tg", "po"}, NEW first \in K, Group[g] \ {first} \in SUBSET K, Group[g] \ {first} # {}
      PROVE  IsPlan(Push(view, g, first))
  <2>1. \A value \in {"ON", None} : IsPlan(<<One(first, value), Put(Group[g] \ {first}, value)>>)
    BY <1>1, <1>2, <1>6, TwoWrites
  <2> QED BY <2>1 DEF Push
<1>7. ASSUME NEW user \in {"ON", None} PROVE IsPlan(Syno(view, user))
  <2>1. IsPlan(<<One("push_SynoChat", None), One("push_ChatURL", None)>>) BY <1>2, <1>3, TwoWrites
  <2>2. IsPlan(<<One("push_SynoChat", user) \cup One("push_ChatURL", "ON")>>)
    <3> DEFINE a == One("push_SynoChat", user) \cup One("push_ChatURL", "ON")
    <3>1. a \in SUBSET Steps /\ a # {} /\ \A s \in a : s.type = "set" BY <1>2, <1>3
    <3> HIDE DEF a
    <3>2. IsPlan(<<a>>) BY <3>1, OneWrite
    <3> QED BY <3>2 DEF a
  <2> QED BY <2>1, <2>2 DEF Syno
<1>8. \A value \in {"ON", None} : IsPlan(<<One("rest", value)>>) BY <1>2, <1>3, OneWrite
<1>9. IsPlan(BindPush)
  <2> DEFINE D == Group["tg"]  f == [k \in D |-> "ON"]
  <2>1. D \in SUBSET Keys /\ f = [k \in D |-> f[k]] /\ \A k \in D : f[k] \in ValuesOf(k)
    BY Values, KeysAre DEF Group
  <2>2. {Set(f)} \in SUBSET Steps /\ {Set(f)} # {} /\ \A s \in {Set(f)} : s.type = "set" BY <2>1, SetIs
  <2>3. IsPlan(<<{Set(f)}>>) BY <2>2, OneWrite
  <2> QED BY <2>3 DEF BindPush
<1> QED BY <1>3, <1>4, <1>5, <1>6, <1>7, <1>8, <1>9

LEMMA SshPlans ==
    ASSUME NEW view, IsView(view), NEW port \in SshPorts
    PROVE  IsPlan(OpenSsh(port)) /\ IsPlan(CloseSsh(port)) /\ IsPlan(SetPort(view, port))
<1>0. \A type \in OnPort : /\ {Do(type, port)} \in SUBSET Steps /\ {Do(type, port)} # {}
                          /\ \A s \in {Do(type, port)} : s.type \in {"open", "close", "mark"}
  BY SshSteps
<1>1. IsPlan(OpenSsh(port)) BY <1>0, TwoWrites DEF OpenSsh, OnPort
<1>2. IsPlan(CloseSsh(port)) BY <1>0, SshSteps, TwoWrites DEF CloseSsh, OnPort
<1>3. IsPlan(SetPort(view, port))
  <2> DEFINE old == Port(view.cfg)
  <2>1. old \in SshPorts BY PortIs DEF IsView
  <2>2. SetPort(view, port) = <<One("ssh_port", port), {Do("close", old)}, {Do("unmark", None)}>>
    BY Joined DEF SetPort, CloseSsh
  <2>3. /\ One("ssh_port", port) \in SUBSET Steps /\ One("ssh_port", port) # {}
        /\ \A s \in One("ssh_port", port) : s.type = "set"
    BY OneIs, Values, KeysAre
  <2>4. IsPlan(<<One("ssh_port", port), {Do("close", old)}, {Do("unmark", None)}>>)
    BY <2>1, <2>3, SshSteps, ThreeWrites DEF OnPort
  <2> QED BY <2>2, <2>4
<1> QED BY <1>1, <1>2, <1>3

LEMMA BotModePlans ==
    ASSUME NEW view, IsView(view)
    PROVE  IsPlan(StopRedir(view)) /\ IsPlan(StartRedir(view))
<1>1. view.cfg["redir_mod"] \in Modes \cup {None} /\ view.cfg["redir_mod_bf"] \in Modes \cup {None}
  BY KeysAre, Values DEF IsView, IsFile
<1>2. OrElse(view.cfg["redir_mod"], "Redir") \in Modes /\ OrElse(view.cfg["redir_mod_bf"], "Redir") \in Modes
  BY <1>1 DEF OrElse, Modes
<1>3. IsPlan(StopRedir(view))
  <2> DEFINE D == {"redir_mod_bf", "firewall_area"}
             f == [k \in D |-> IF k = "firewall_area" THEN "4" ELSE OrElse(view.cfg["redir_mod"], "Redir")]
  <2>1. D \in SUBSET Keys /\ f = [k \in D |-> f[k]] /\ \A k \in D : f[k] \in ValuesOf(k)
    BY <1>2, Values, KeysAre DEF Areas
  <2>2. f \in Puts BY <2>1, SetIs
  <2>3. IsPlan(<<{Set(f)}, {Do("fw_stop", None)}>>) BY <2>2, StopIsPlan
  <2> QED BY <2>3 DEF StopRedir
<1>4. IsPlan(StartRedir(view))
  <2> DEFINE value == OrElse(view.cfg["redir_mod_bf"], "Redir")
             D == {"redir_mod"}
             f == [k \in D |-> value]
  <2>1. D \in SUBSET Keys /\ f = [k \in D |-> f[k]] /\ \A k \in D : f[k] \in ValuesOf(k)
    BY <1>2, Values, KeysAre
  <2>2. f \in Puts BY <2>1, SetIs
  <2>3. IsPlan(<<{Set(f)}, {Do("fw_read", None)}, {Do("fw_start", None)}>>) BY <2>2, StartIsPlan
  <2>4. One("redir_mod", value) = {Set(f)}
    <3>1. value \in ValuesOf("redir_mod") /\ "redir_mod" \in Keys BY <1>2, Values, KeysAre
    <3> HIDE DEF value
    <3> QED BY <3>1, OneIs
  <2>5. StartRedir(view) = <<{Set(f)}, {Do("fw_read", None)}, {Do("fw_start", None)}>>
    BY <2>4 DEF StartRedir
  <2> QED BY <2>3, <2>5
<1> QED BY <1>3, <1>4

LEMMA MenuOffersPlans ==
    ASSUME NEW view, IsView(view), NEW g \in Topics, NEW steps \in MenuPlans(view)[g]
    PROVE  IsPlan(steps)
<1>1. g \in {"mode", "ipv6", "tg", "po", "syno", "ssh", "rest"} BY SettingsAssumption, KeysAre
<1>2. CASE g = "mode"
  <2>1. \/ \E mode \in Modes : steps = Redir(mode)
        \/ \E mode \in Modes, v6 \in BOOLEAN : steps = GatewayGuide(mode, v6)
        \/ steps = LocalGuide \/ steps = Restart
    BY <1>2 DEF MenuPlans, Modes
  <2>2. Pure \in Modes /\ TRUE \in BOOLEAN BY DEF Modes
  <2> QED BY <2>1, <2>2, ModePlans
<1>3. CASE g \in {"ipv6", "tg", "po", "syno", "rest"}
  BY <1>3, KeyPlans DEF MenuPlans
<1>4. CASE g = "ssh"
  BY <1>4, SshPlans, PortIs DEF MenuPlans, IsView
<1> QED BY <1>1, <1>2, <1>3, <1>4

LEMMA BotOffersPlans ==
    ASSUME NEW view, IsView(view), NEW steps \in BotPlans(view)
    PROVE  IsPlan(steps)
<1>1. "Redir" \in Modes /\ TRUE \in BOOLEAN BY DEF Modes
<1> QED BY <1>1, BotModePlans, KeyPlans, RestoreIsPlan, ModePlans DEF BotPlans

LEMMA NothingIsPlan == IsPlan(<<>>) /\ StepsOf(<<>>) = {}
  BY DEF IsPlan, StepsOf, Orderly, Restoring

LEMMA GroupsAre ==
    /\ \A s : GroupsOf(s) \subseteq Groups
    /\ \A p : ToDo(p) \subseteq Groups
<1>1. ASSUME NEW s PROVE GroupsOf(s) \subseteq Groups
  BY KeysAre DEF GroupsOf
<1> QED BY <1>1 DEF ToDo

\* A write leaves a file that has all keys, with values they can have.
LEMMA WrittenIsFile ==
    ASSUME NEW old, IsFile(old), NEW f \in Puts,
           NEW new, new = [k \in Keys |-> IF k \in DOMAIN f THEN f[k] ELSE old[k]]
    PROVE  IsFile(new)
<1>1. \A k \in DOMAIN f : f[k] \in ValuesOf(k) BY DEF Puts
<1> QED BY <1>1 DEF IsFile

\* Everything is of its kind.
LEMMA TypedHolds == Spec => []Typed
<1>1. Init => Typed
  <2> SUFFICES ASSUME Init PROVE Typed OBVIOUS
  <2>1. IsFile(cfg) BY Values DEF Init, IsFile
  <2>2. \A p \in Procs : plan[p] = <<>> /\ seen[p] = NoView /\ copy[p] = NoFile BY DEF Init
  <2>3. stale \in [Procs -> SUBSET Groups] /\ ops \in 0 .. MaxOps BY SettingsAssumption DEF Init
  <2> QED BY <2>1, <2>2, <2>3, NothingIsPlan DEF Init, Typed
<1>2. ASSUME Typed, [Next]_vars PROVE Typed'
  <2> USE <1>2
  <2>0. cfg # NoFile /\ (\A p \in Procs : seen[p].cfg # NoFile => IsView(seen[p]))
    BY FileIsSome DEF Typed, NoView
  <2>1. ASSUME NEW p \in Procs, Look(p) PROVE Typed'
    BY <2>1, <2>0 DEF Look, Typed, IsView, Idle
  <2>2. ASSUME NEW p \in Procs, Answer(p) PROVE Typed'
    <3>1. PICK g \in Topics : \E steps \in MenuPlans(seen[p])[g] : plan' = [plan EXCEPT ![p] = steps]
      BY <2>2 DEF Answer
    <3>2. PICK steps \in MenuPlans(seen[p])[g] : plan' = [plan EXCEPT ![p] = steps] BY <3>1
    <3>3. IsView(seen[p]) BY <2>2, <2>0 DEF Answer, Idle
    <3>4. IsPlan(steps) BY <3>3, MenuOffersPlans
    <3>5. ops' \in 0 .. MaxOps BY <2>2, SettingsAssumption DEF Answer, Typed
    <3> QED BY <2>2, <3>2, <3>4, <3>5 DEF Answer, Typed, Idle
  <2>3. ASSUME NEW p \in Procs, Told(p) PROVE Typed'
    <3> DEFINE view == [cfg |-> cfg, lines |-> lines]
    <3>1. PICK steps \in BotPlans(view) : plan' = [plan EXCEPT ![p] = steps] BY <2>3 DEF Told
    <3>2. IsView(view) BY DEF IsView, Typed
    <3>3. seen' = [seen EXCEPT ![p] = view] BY <2>3 DEF Told
    <3>4. IsPlan(steps) BY <3>1, <3>2, BotOffersPlans
    <3>5. ops' \in 0 .. MaxOps BY <2>3, SettingsAssumption DEF Told, Typed
    <3>6. view.cfg # NoFile BY <2>0
    <3> HIDE DEF view
    <3> QED BY <2>3, <3>1, <3>2, <3>3, <3>4, <3>5, <3>6 DEF Told, Typed, Idle
  <2>4. ASSUME NEW p \in Procs, Read(p) PROVE Typed'
    BY <2>4 DEF Read, Typed, Idle
  \* What every step does to plans, copies and history.
  <2>5. ASSUME NEW p \in Procs, plan[p] # <<>>, NEW step \in Head(plan[p]), NEW bad, bad \subseteq Groups,
               Made(p, step, bad)
        PROVE  /\ step \in Steps /\ DOMAIN seen' = Procs /\ DOMAIN plan' = Procs /\ DOMAIN copy' = Procs
               /\ \A q \in Procs : /\ seen'[q] = NoView \/ IsView(seen'[q])
                                   /\ copy'[q] = NoFile \/ IsFile(copy'[q])
                                   /\ IsPlan(plan'[q])
                                   /\ plan'[q] # <<>> => seen'[q].cfg # NoFile
               /\ stale' \in [Procs -> SUBSET Groups] /\ spoiled' \subseteq Groups
    <3>1. plan' = [plan EXCEPT ![p] = Rest(plan[p], step)] BY <2>5 DEF Made, Rest
    <3>2. IsPlan(Rest(plan[p], step)) /\ step \in Steps BY <2>5, Shortened DEF Typed
    <3>3. seen' = [seen EXCEPT ![p] = IF Rest(plan[p], step) = <<>> THEN NoView ELSE seen[p]]
      BY <2>5 DEF Made, Rest
    <3>4. copy' = [copy EXCEPT ![p] = IF step.type = "fw_read" THEN copy[p] ELSE NoFile] BY <2>5 DEF Made
    <3>5. stale' \in [Procs -> SUBSET Groups] /\ spoiled' \subseteq Groups
      BY <2>5, GroupsAre DEF Made, Typed
    <3> HIDE DEF Rest
    <3> QED BY <2>5, <3>1, <3>2, <3>3, <3>4, <3>5 DEF Typed, Idle
  <2>6. ASSUME NEW p \in Procs, Write(p) PROVE Typed'
    <3>1. PICK step \in Head(plan[p]) :
            /\ step.type = "set"
            /\ cfg' = [k \in Keys |-> IF k \in DOMAIN step.put THEN step.put[k] ELSE copy[p][k]]
            /\ Made(p, step, {g \in Groups : \E k \in Group[g] \ DOMAIN step.put : cfg[k] # copy[p][k]})
            /\ pure' = (pure /\ "firewall_area" \notin DOMAIN step.put)
      BY <2>6 DEF Write
    <3>2. step \in Steps BY <2>6, <3>1, Shortened DEF Write, Typed
    <3>3. step.put \in Puts BY <3>1, <3>2, StepIs
    <3>4. IsFile(copy[p]) BY <2>6 DEF Write, Typed
    <3>5. IsFile(cfg') BY <3>1, <3>3, <3>4, WrittenIsFile
    <3>6. pure' \in BOOLEAN BY <3>1 DEF Typed
    <3> DEFINE bad == {g \in Groups : \E k \in Group[g] \ DOMAIN step.put : cfg[k] # copy[p][k]}
    <3>7. Made(p, step, bad) /\ bad \subseteq Groups BY <3>1
    <3> HIDE DEF bad
    <3> QED BY <2>5, <2>6, <3>5, <3>6, <3>7 DEF Write, Typed, Idle
  <2>7. ASSUME NEW p \in Procs, Ssh(p) PROVE Typed'
    <3>1. PICK step \in Head(plan[p]) :
            /\ step.type \in {"open", "close", "mark", "unmark"}
            /\ SshStep(step)
            /\ Made(p, step, {})
      BY <2>7 DEF Ssh, SshStep
    <3>2. step \in Steps BY <2>7, <3>1, Shortened DEF Ssh, Typed
    <3>3. step.type \in {"open", "close", "mark"} => step.port \in SshPorts BY <3>1, <3>2, StepIs DEF OnPort
    <3>4. lines' \subseteq SshPorts /\ rules' \subseteq SshPorts /\ missed' \subseteq SshPorts
      BY <3>1, <3>3 DEF SshStep, Iptables, Typed
    <3> QED BY <2>5, <2>7, <3>1, <3>4 DEF Ssh, Typed, Idle
  <2>8. ASSUME NEW p \in Procs, Firewall(p) PROVE Typed'
    <3>1. PICK step \in Head(plan[p]) :
            /\ Made(p, step, {}) /\ diverting' \in BOOLEAN /\ pure' \in BOOLEAN
      BY <2>8 DEF Firewall, Typed
    <3> QED BY <2>5, <2>8, <3>1 DEF Firewall, Typed, Idle
  <2>9. CASE Backup
    <3>1. saved'.file = cfg /\ saved'.bad \subseteq Groups BY <2>9, GroupsAre DEF Backup, Typed
    <3>2. ops' \in 0 .. MaxOps BY <2>9, SettingsAssumption DEF Backup, Typed
    <3> QED BY <2>9, <3>1, <3>2 DEF Backup, Typed, Idle
  <2>10. ASSUME NEW p \in Procs, Restore(p) PROVE Typed'
    <3> DEFINE bad == saved.bad \cup (IF lines # {} /\ Port(cfg) # Port(saved.file) THEN {"ssh"} ELSE {})
    <3>1. PICK step \in Head(plan[p]) : step.type = "restore" /\ cfg' = saved.file /\ Made(p, step, bad)
      BY <2>10 DEF Restore
    <3>2. bad \subseteq Groups /\ IsFile(saved.file) BY <2>10, KeysAre DEF Restore, Typed
    <3> HIDE DEF bad
    <3> QED BY <2>5, <2>10, <3>1, <3>2 DEF Restore, Typed, Idle
  <2>11. ASSUME NEW p \in Procs, Forget(p), spoiled' \subseteq Groups,
                UNCHANGED <<cfg, lines, rules, missed, diverting, saved, stale, pure, ops>>
         PROVE  Typed'
    BY <2>11, NothingIsPlan DEF Forget, Typed, Idle
  <2>12. ASSUME NEW p \in Procs, RestoreRefused(p) \/ Killed(p) PROVE Typed'
    BY <2>11, <2>12, GroupsAre DEF RestoreRefused, Killed, Typed
  <2>13. CASE Reload
    BY <2>13, KeysAre DEF Reload, Rebuilt, Typed, Idle
  <2>14. CASE Reboot
    <3>1. spoiled' \subseteq Groups BY <2>14, GroupsAre DEF Reboot, Typed
    <3> QED BY <2>14, <3>1, NothingIsPlan DEF Reboot, Rebuilt, Typed, Idle
  <2>15. CASE UNCHANGED vars
    BY <2>15 DEF vars, Typed, Idle
  <2> QED BY <2>1, <2>2, <2>3, <2>4, <2>6, <2>7, <2>8, <2>9, <2>10, <2>12, <2>13, <2>14, <2>15 DEF Next, Step
<1>3. QED BY <1>1, <1>2, PTL DEF Spec

LEMMA PutsAreKeys == ASSUME NEW step \in Steps PROVE DOMAIN step.put \subseteq Keys
<1>1. \A f \in Puts : DOMAIN f \subseteq Keys BY DEF Puts
<1>2. \A type, port : DOMAIN (Do(type, port).put) = {} BY DEF Do, NoFile
<1>3. CASE step.type = "set" BY <1>1, <1>3, StepIs
<1>4. CASE step.type # "set" BY <1>2, <1>4, StepIs
<1> QED BY <1>3, <1>4

\* Every file, plan and picture is of its kind: whatever menus and bots write,
\* each key of ShellCrash.cfg has a value it can have.
THEOREM TypeCorrect == Spec => []TypeOK
<1>1. Typed => TypeOK
  <2> SUFFICES ASSUME Typed PROVE TypeOK OBVIOUS
  <2>1. ASSUME NEW p \in Procs
        PROVE  /\ DOMAIN seen[p].cfg \in {{}, Keys} /\ seen[p].lines \subseteq SshPorts
               /\ DOMAIN copy[p] \in {{}, Keys}
    BY <2>1 DEF Typed, NoView, NoFile, IsView, IsFile
  <2>2. ASSUME NEW p \in Procs, NEW i \in DOMAIN plan[p]
        PROVE  plan[p][i] # {} /\ \A s \in plan[p][i] : DOMAIN s.put \subseteq Keys
    <3>1. IsPlan(plan[p]) BY DEF Typed
    <3>2. plan[p][i] # {} /\ plan[p][i] \subseteq Steps BY <3>1 DEF IsPlan
    <3> QED BY <3>2, PutsAreKeys
  <2> QED BY <2>1, <2>2 DEF Typed, TypeOK
<1>2. QED BY <1>1, TypedHolds, PTL

-----------------------------------------------------------------------------
\* What a plan leads to.

\* A file in which the keys of g agree.
GoodFile(g, file) ==
    /\ g = "mode" => /\ file["redir_mod"] = Pure => file["firewall_area"] = "4"
                     /\ file["redir_mod_bf"] # Pure
    /\ g = "ipv6" => (file["ipv6_redir"] = "ON" => file["ipv6_support"] = "ON")
    /\ g \in {"tg", "po"} => \A j, k \in Group[g] : file[j] = file[k]
    /\ g = "syno" => (file["push_SynoChat"] = "ON" => file["push_ChatURL"] = "ON")

\* As far as g goes, the steps lead from file to aim.
Leads(steps, g, file, aim) ==
    /\ \A s \in StepsOf(steps) : \A k \in Group[g] \cap DOMAIN s.put : s.put[k] = aim[k]
    /\ \A k \in Group[g] : file[k] = aim[k] \/ \E s \in StepsOf(steps) : k \in DOMAIN s.put

\* The ports with the kind of step in steps.
With(type, steps) == {port \in SshPorts : Do(type, port) \in StepsOf(steps)}
Unmarks(steps) == Do("unmark", None) \in StepsOf(steps)
\* Once the steps are made, rules and lines are equal, at the port aimed at,
\* but for the ports in m.
SshLeads(steps, l, r, m, aim) ==
    LET after == IF Unmarks(steps) THEN {} ELSE l \cup With("mark", steps) IN
    /\ ((r \cup With("open", steps)) \ With("close", steps)) \ m = after \ m
    /\ after \subseteq {Port(aim)}
    /\ \/ With("open", steps) = {} /\ With("mark", steps) = {}
       \/ With("close", steps) = {} /\ ~Unmarks(steps)

\* Once the steps are made from such a state, all is well with g.
OnTrackAt(steps, g, file, l, r, m, up, announced) ==
    /\ \E aim : /\ GoodFile(g, aim) /\ Leads(steps, g, file, aim)
                /\ g = "ssh" => SshLeads(steps, l, r, m, aim)
                /\ g = "mode" /\ Do("fw_stop", None) \in StepsOf(steps) => aim["firewall_area"] = "4"
    /\ g = "mode" /\ announced => ~up /\ file["firewall_area"] = "4"
OnTrack(steps, g) == OnTrackAt(steps, g, cfg, lines, rules, missed, diverting, pure)

\* A process with an operation about g under way, other than to restore.
Claims(p, g) == ~Restoring(plan[p]) /\ \E s \in Pending(p) : g \in GroupsOf(s)
\* One of them goes on from what is no longer true.
Doomed(g) == \E p \in Procs : Claims(p, g) /\ g \in stale[p]
\* While nobody is at work on g all is well with it; one who is alone at it
\* will leave it well.
Kept(g) ==
    /\ (\A p \in Procs : ~Claims(p, g)) => OnTrack(<<>>, g)
    /\ \A p \in Procs : Claims(p, g) /\ (\A q \in Procs \ {p} : ~Claims(q, g)) => OnTrack(plan[p], g)
\* A menu that waits for an answer shows what is true.
Shown(g) ==
    \A p \in Procs : plan[p] = <<>> /\ ~Idle(p) /\ g \notin stale[p] =>
        /\ \A k \in Group[g] : seen[p].cfg[k] = cfg[k]
        /\ g = "ssh" => seen[p].lines = lines
\* A firewall that is starting has read the area that still stands.
ReadRight ==
    \A p \in Procs :
        /\ plan[p] = <<{Do("fw_start", None)}>> => copy[p] # NoFile
        /\ plan[p] = <<>> => copy[p] = NoFile
        /\ /\ plan[p] \in {<<{Do("fw_start", None)}>>, <<{Do("fw_read", None)}, {Do("fw_start", None)}>>}
           /\ copy[p] # NoFile /\ "mode" \notin spoiled \cup stale[p]
           => copy[p]["firewall_area"] = cfg["firewall_area"]
\* The backup is good as far as it is not known to be bad.
SavedGood == saved.file # NoFile => \A g \in Groups \ saved.bad : GoodFile(g, saved.file)

Settled ==
    /\ \A g \in Groups \ spoiled : (Doomed(g) \/ Kept(g)) /\ Shown(g)
    /\ ReadRight /\ SavedGood

LEMMA SettledIsSound ==
    ASSUME Typed, Settled, NEW g \in Sound
    PROVE  OnTrack(<<>>, g)
<1>1. g \in Groups \ spoiled BY DEF Sound
<1>2. \A p \in Procs : ~Claims(p, g)
  BY DEF Sound, Claims, ToDo, Pending, StepsOf
<1> QED BY <1>1, <1>2 DEF Settled, Doomed, Kept

LEMMA SameIsGood ==
    ASSUME NEW g \in Groups, NEW f, NEW h, \A k \in Group[g] : f[k] = h[k], GoodFile(g, f)
    PROVE  GoodFile(g, h)
<1>1. CASE g = "mode" BY <1>1 DEF GoodFile, Group
<1>2. CASE g = "ipv6" BY <1>2 DEF GoodFile, Group
<1>3. CASE g \in {"tg", "po"} BY <1>3 DEF GoodFile
<1>4. CASE g = "syno" BY <1>4 DEF GoodFile, Group
<1>5. CASE g \in {"ssh", "rest"} BY <1>5 DEF GoodFile
<1> QED BY <1>1, <1>2, <1>3, <1>4, <1>5, KeysAre

\* With no step left about g, on track is well.
LEMMA ArrivedAt ==
    ASSUME NEW g \in Groups, NEW file, NEW l, NEW r, NEW m, NEW up, NEW announced
    PROVE  OnTrackAt(<<>>, g, file, l, r, m, up, announced) <=>
             /\ GoodFile(g, file)
             /\ g = "ssh" => r \ m = l \ m /\ l \subseteq {Port(file)}
             /\ g = "mode" /\ announced => ~up /\ file["firewall_area"] = "4"
<1>1. With("open", <<>>) = {} /\ With("mark", <<>>) = {} /\ With("close", <<>>) = {} /\ ~Unmarks(<<>>)
  BY NothingIsPlan DEF With, Unmarks
<1>2. ASSUME OnTrackAt(<<>>, g, file, l, r, m, up, announced)
      PROVE  /\ GoodFile(g, file)
             /\ g = "ssh" => r \ m = l \ m /\ l \subseteq {Port(file)}
  <2>1. PICK aim : /\ GoodFile(g, aim) /\ Leads(<<>>, g, file, aim)
                   /\ g = "ssh" => SshLeads(<<>>, l, r, m, aim)
    BY <1>2 DEF OnTrackAt
  <2>2. \A k \in Group[g] : file[k] = aim[k] BY <2>1, NothingIsPlan DEF Leads
  <2>3. GoodFile(g, file) BY <2>1, <2>2, SameIsGood
  <2>4. g = "ssh" => Port(file) = Port(aim) BY <2>2 DEF Group, Port
  <2> QED BY <2>1, <2>3, <2>4, <1>1 DEF SshLeads
<1>3. ASSUME GoodFile(g, file), g = "ssh" => r \ m = l \ m /\ l \subseteq {Port(file)},
             g = "mode" /\ announced => ~up /\ file["firewall_area"] = "4"
      PROVE  OnTrackAt(<<>>, g, file, l, r, m, up, announced)
  <2>1. Leads(<<>>, g, file, file) BY NothingIsPlan DEF Leads
  <2>2. g = "ssh" => SshLeads(<<>>, l, r, m, file) BY <1>1, <1>3 DEF SshLeads
  <2> QED BY <1>3, <2>1, <2>2, NothingIsPlan DEF OnTrackAt
<1> QED BY <1>2, <1>3 DEF OnTrackAt

LEMMA Arrived ==
    ASSUME NEW g \in Groups
    PROVE  OnTrack(<<>>, g) <=>
             /\ GoodFile(g, cfg)
             /\ g = "ssh" => rules \ missed = lines \ missed /\ lines \subseteq {Port(cfg)}
             /\ g = "mode" /\ pure => ~diverting /\ cfg["firewall_area"] = "4"
  BY ArrivedAt DEF OnTrack

-----------------------------------------------------------------------------
\* What is offered leads to what is well, for one who was shown what is true.

\* The steps write what h says, at most; and at least the keys in covered.
Writes(set, h, covered) ==
    /\ \A s \in set : \A k \in DOMAIN s.put : k \in DOMAIN h /\ s.put[k] = h[k]
    /\ \A k \in covered : \E s \in set : k \in DOMAIN s.put
After(h) == [k \in Keys |-> IF k \in DOMAIN h THEN h[k] ELSE cfg[k]]
Makes(steps, h) == Writes(StepsOf(steps), h, DOMAIN h)
SshFree(steps) == \A s \in StepsOf(steps) : s.type \notin {"open", "close", "mark", "unmark"}

LEMMA SetWrites ==
    ASSUME NEW f, NEW h, DOMAIN f \subseteq DOMAIN h, \A k \in DOMAIN f : f[k] = h[k]
    PROVE  Writes({Set(f)}, h, DOMAIN f)
<1>1. Set(f).put = f BY DEF Set
<1> HIDE DEF Set
<1> QED BY <1>1 DEF Writes
LEMMA OneWrites ==
    ASSUME NEW key \in Keys, NEW value, NEW h, key \in DOMAIN h, h[key] = value
    PROVE  Writes(One(key, value), h, {key})
<1> DEFINE f == [k \in {key} |-> value]
<1>1. Writes({Set(f)}, h, DOMAIN f) BY SetWrites
<1>2. One(key, value) = {Set(f)} BY DEF One, Put
<1>3. DOMAIN f = {key} OBVIOUS
<1> HIDE DEF f
<1> QED BY <1>1, <1>2, <1>3
LEMMA PutWrites ==
    ASSUME NEW keys, NEW value, NEW h, keys \subseteq DOMAIN h, \A k \in keys : h[k] = value
    PROVE  Writes(Put(keys, value), h, keys)
<1>1. ASSUME NEW key \in keys
      PROVE  LET put == Set([k \in {key} |-> value]).put IN DOMAIN put = {key} /\ put[key] = value
  BY DEF Set
<1>2. \A s \in Put(keys, value) : \E key \in keys : DOMAIN s.put = {key} /\ s.put[key] = value
  BY <1>1 DEF Put
<1>3. \A key \in keys : \E s \in Put(keys, value) : DOMAIN s.put = {key}
  BY <1>1 DEF Put
<1> QED BY <1>2, <1>3 DEF Writes
LEMMA DoWrites ==
    ASSUME NEW type, NEW port, NEW h
    PROVE  Writes({Do(type, port)}, h, {})
<1>1. DOMAIN (Do(type, port).put) = {} BY DEF Do, NoFile
<1> HIDE DEF Do
<1> QED BY <1>1 DEF Writes
LEMMA BothWrite ==
    ASSUME NEW a, NEW b, NEW h, NEW c, NEW d, Writes(a, h, c), Writes(b, h, d)
    PROVE  Writes(a \cup b, h, c \cup d)
  BY DEF Writes

\* Off SSH, steps that write h lead to the file with h in it.
LEMMA MakesLead ==
    ASSUME NEW g \in Groups, OnTrack(<<>>, g), IsFile(cfg), NEW steps, NEW h, Makes(steps, h), DOMAIN h \subseteq Keys,
           GoodFile(g, After(h)), g = "ssh" => SshFree(steps) /\ "ssh_port" \notin DOMAIN h,
           g = "mode" /\ Do("fw_stop", None) \in StepsOf(steps) => After(h)["firewall_area"] = "4"
    PROVE  OnTrack(steps, g)
<1>1. Group[g] \subseteq Keys BY KeysAre
<1>2. Leads(steps, g, cfg, After(h)) BY <1>1 DEF Leads, Makes, Writes, After
<1>3. g = "ssh" => SshLeads(steps, lines, rules, missed, After(h))
  <2> SUFFICES ASSUME g = "ssh" PROVE SshLeads(steps, lines, rules, missed, After(h)) OBVIOUS
  <2>1. With("open", steps) = {} /\ With("mark", steps) = {} /\ With("close", steps) = {} /\ ~Unmarks(steps)
    BY StepTypes DEF With, Unmarks, SshFree
  <2>2. rules \ missed = lines \ missed /\ lines \subseteq {Port(cfg)} BY Arrived
  <2>3. Port(After(h)) = Port(cfg) BY KeysAre DEF After, Port
  <2> QED BY <2>1, <2>2, <2>3 DEF SshLeads
<1>4. g = "mode" /\ pure => ~diverting /\ cfg["firewall_area"] = "4" BY Arrived
<1> QED BY <1>2, <1>3, <1>4 DEF OnTrack, OnTrackAt

\* A group of which h writes nothing stays good.
LEMMA ElsewhereGood ==
    ASSUME NEW g \in Groups, OnTrack(<<>>, g), NEW h, DOMAIN h \cap Group[g] = {}
    PROVE  GoodFile(g, After(h))
<1>1. \A k \in Group[g] : After(h)[k] = cfg[k] BY KeysAre DEF After
<1>2. GoodFile(g, cfg) BY Arrived
<1> QED BY <1>1, <1>2, SameIsGood

LEMMA WritesAlone ==
    ASSUME NEW steps, \A s \in StepsOf(steps) : s.type = "set"
    PROVE  SshFree(steps) /\ Do("fw_stop", None) \notin StepsOf(steps)
  BY StepTypes DEF SshFree

\* Makes of one, two and three sets.
LEMMA MakesOne ==
    ASSUME NEW a, NEW h, Writes(a, h, DOMAIN h)
    PROVE  Makes(<<a>>, h) /\ StepsOf(<<a>>) = a
<1>1. StepsOf(<<a>>) = a BY DEF StepsOf
<1> QED BY <1>1 DEF Makes
LEMMA MakesTwo ==
    ASSUME NEW a, NEW b, NEW h, NEW c, NEW d, Writes(a, h, c), Writes(b, h, d), DOMAIN h = c \cup d
    PROVE  Makes(<<a, b>>, h) /\ StepsOf(<<a, b>>) = a \cup b
<1>0. DOMAIN <<a, b>> = {1, 2} OBVIOUS
<1>1. StepsOf(<<a, b>>) = a \cup b BY <1>0 DEF StepsOf
<1> QED BY <1>1, BothWrite DEF Makes
LEMMA MakesThree ==
    ASSUME NEW a, NEW b, NEW e, NEW h, NEW c, NEW d, NEW f,
           Writes(a, h, c), Writes(b, h, d), Writes(e, h, f), DOMAIN h = c \cup d \cup f
    PROVE  Makes(<<a, b, e>>, h) /\ StepsOf(<<a, b, e>>) = a \cup b \cup e
<1>0. DOMAIN <<a, b, e>> = {1, 2, 3} OBVIOUS
<1>1. StepsOf(<<a, b, e>>) = a \cup b \cup e BY <1>0 DEF StepsOf
<1>2. Writes(a \cup b, h, c \cup d) BY BothWrite
<1>3. Writes((a \cup b) \cup e, h, (c \cup d) \cup f) BY <1>2, BothWrite
<1> QED BY <1>1, <1>3 DEF Makes

\* What view shows of g is true.
Sees(view, g) ==
    /\ \A k \in Group[g] : view.cfg[k] = cfg[k]
    /\ g = "ssh" => view.lines = lines

LEMMA RedirLeads ==
    ASSUME NEW g \in Groups, OnTrack(<<>>, g), IsFile(cfg), NEW mode \in Modes
    PROVE  OnTrack(Redir(mode), g)
<1>1. GoodFile(g, cfg) BY Arrived
<1>2. CASE mode = Pure
  <2> DEFINE h == [k \in {"redir_mod", "firewall_area"} |-> IF k = "redir_mod" THEN Pure ELSE "4"]
             a == One("redir_mod", Pure)  b == One("firewall_area", "4")
  <2>1. DOMAIN h = {"redir_mod"} \cup {"firewall_area"} /\ DOMAIN h \subseteq Keys BY KeysAre
  <2>2. Writes(a, h, {"redir_mod"}) BY OneWrites, KeysAre
  <2>3. Writes(b, h, {"firewall_area"}) BY OneWrites, KeysAre
  <2>4. \A s \in a \cup b : s.type = "set" BY PutType DEF One
  <2>5. GoodFile(g, After(h))
    <3>1. CASE g = "mode" BY <1>1, <3>1, KeysAre DEF GoodFile, After
    <3>2. CASE g # "mode"
      <4>1. DOMAIN h \cap Group[g] = {} BY <3>2, KeysAre DEF Group
      <4> QED BY <4>1, ElsewhereGood
    <3> QED BY <3>1, <3>2
  <2>6. "ssh_port" \notin DOMAIN h OBVIOUS
  <2> HIDE DEF h, a, b
  <2>7. Makes(<<a, b>>, h) /\ StepsOf(<<a, b>>) = a \cup b BY <2>1, <2>2, <2>3, MakesTwo
  <2>8. OnTrack(<<a, b>>, g) BY <2>1, <2>4, <2>5, <2>6, <2>7, WritesAlone, MakesLead
  <2> QED BY <2>8, <1>2 DEF Redir, a, b
<1>3. CASE mode # Pure
  <2> DEFINE h == [k \in {"redir_mod"} |-> mode]
             a == One("redir_mod", mode)
  <2>1. DOMAIN h = {"redir_mod"} /\ DOMAIN h \subseteq Keys BY KeysAre
  <2>2. Writes(a, h, {"redir_mod"}) BY OneWrites, KeysAre
  <2>4. \A s \in a : s.type = "set" BY PutType DEF One
  <2>5. GoodFile(g, After(h))
    <3>1. CASE g = "mode" BY <1>1, <1>3, <3>1, KeysAre DEF GoodFile, After
    <3>2. CASE g # "mode"
      <4>1. DOMAIN h \cap Group[g] = {} BY <3>2, KeysAre DEF Group
      <4> QED BY <4>1, ElsewhereGood
    <3> QED BY <3>1, <3>2
  <2>6. "ssh_port" \notin DOMAIN h OBVIOUS
  <2> HIDE DEF h, a
  <2>7. Makes(<<a>>, h) /\ StepsOf(<<a>>) = a BY <2>1, <2>2, MakesOne
  <2>8. OnTrack(<<a>>, g) BY <2>1, <2>4, <2>5, <2>6, <2>7, WritesAlone, MakesLead
  <2> QED BY <2>8, <1>3 DEF Redir, a
<1> QED BY <1>2, <1>3

LEMMA GuidesLead ==
    ASSUME NEW g \in Groups, OnTrack(<<>>, g), IsFile(cfg), NEW mode \in {"Redir", "Mix"}, NEW v6 \in BOOLEAN
    PROVE  OnTrack(GatewayGuide(mode, v6), g) /\ OnTrack(LocalGuide, g)
<1>1. GoodFile(g, cfg) BY Arrived
<1>2. mode # Pure BY DEF Pure
<1>3. OnTrack(LocalGuide, g)
  <2> DEFINE h == [k \in {"redir_mod", "firewall_area"} |-> IF k = "redir_mod" THEN "Redir" ELSE "2"]
             a == One("redir_mod", "Redir")  b == One("firewall_area", "2")
  <2>1. DOMAIN h = {"redir_mod"} \cup {"firewall_area"} /\ DOMAIN h \subseteq Keys BY KeysAre
  <2>2. Writes(a, h, {"redir_mod"}) BY OneWrites, KeysAre
  <2>3. Writes(b, h, {"firewall_area"}) BY OneWrites, KeysAre
  <2>4. \A s \in a \cup b : s.type = "set" BY PutType DEF One
  <2>5. GoodFile(g, After(h))
    <3>1. CASE g = "mode" BY <1>1, <3>1, KeysAre DEF GoodFile, After, Pure
    <3>2. CASE g # "mode"
      <4>1. DOMAIN h \cap Group[g] = {} BY <3>2, KeysAre DEF Group
      <4> QED BY <4>1, ElsewhereGood
    <3> QED BY <3>1, <3>2
  <2>6. "ssh_port" \notin DOMAIN h OBVIOUS
  <2> HIDE DEF h, a, b
  <2>7. Makes(<<a, b>>, h) /\ StepsOf(<<a, b>>) = a \cup b BY <2>1, <2>2, <2>3, MakesTwo
  <2>8. OnTrack(<<a, b>>, g) BY <2>1, <2>4, <2>5, <2>6, <2>7, WritesAlone, MakesLead
  <2> QED BY <2>8 DEF LocalGuide, a, b
<1> DEFINE D == {"redir_mod"} \cup {"firewall_area"}
           six == {"ipv6_redir"} \cup {"ipv6_support"}
           All == (IF v6 THEN D \cup six ELSE D)
           h == [k \in All |-> IF k = "redir_mod" THEN mode ELSE IF k = "firewall_area" THEN "1" ELSE "ON"]
           a == One("redir_mod", mode) \cup One("firewall_area", "1")
<1>4. Writes(a, h, D) /\ \A s \in a : s.type = "set"
  <2>1. Writes(One("redir_mod", mode), h, {"redir_mod"}) BY OneWrites, KeysAre
  <2>2. Writes(One("firewall_area", "1"), h, {"firewall_area"}) BY OneWrites, KeysAre
  <2>3. \A s \in a : s.type = "set" BY PutType DEF One
  <2> HIDE DEF h
  <2> QED BY <2>1, <2>2, <2>3, BothWrite
<1>5. DOMAIN h = All /\ DOMAIN h \subseteq Keys /\ "ssh_port" \notin DOMAIN h BY KeysAre
<1>6. GoodFile(g, After(h))
  <2>1. CASE g = "mode" BY <1>1, <1>2, <2>1, KeysAre DEF GoodFile, After
  <2>2. CASE g = "ipv6" BY <1>1, <2>2, KeysAre DEF GoodFile, After
  <2>3. CASE g \notin {"mode", "ipv6"}
    <3>1. DOMAIN h \cap Group[g] = {} BY <2>3, KeysAre DEF Group
    <3> QED BY <3>1, ElsewhereGood
  <2> QED BY <2>1, <2>2, <2>3
<1>7. OnTrack(GatewayGuide(mode, v6), g)
  <2>1. CASE v6
    <3> DEFINE b == One("ipv6_redir", "ON")  c == One("ipv6_support", "ON")
    <3>1. Writes(b, h, {"ipv6_redir"}) /\ Writes(c, h, {"ipv6_support"})
      BY <2>1, OneWrites, KeysAre
    <3>2. \A s \in a \cup b \cup c : s.type = "set" BY PutType DEF One
    <3>3. DOMAIN h = D \cup {"ipv6_redir"} \cup {"ipv6_support"} BY <2>1
    <3>4. GatewayGuide(mode, v6) = <<a, b, c>> BY <2>1, Joined DEF GatewayGuide
    <3> HIDE DEF a, b, c, h, D
    <3>5. Makes(<<a, b, c>>, h) /\ StepsOf(<<a, b, c>>) = a \cup b \cup c BY <1>4, <3>1, <3>3, MakesThree
    <3> QED BY <1>5, <1>6, <3>2, <3>4, <3>5, WritesAlone, MakesLead
  <2>2. CASE ~v6
    <3>1. DOMAIN h = D BY <2>2
    <3>2. GatewayGuide(mode, v6) = <<a>> BY <2>2, Joined DEF GatewayGuide
    <3> HIDE DEF a, h, D
    <3>3. Makes(<<a>>, h) /\ StepsOf(<<a>>) = a BY <1>4, <3>1, MakesOne
    <3> QED BY <1>4, <1>5, <1>6, <3>2, <3>3, WritesAlone, MakesLead
  <2> QED BY <2>1, <2>2
<1> QED BY <1>3, <1>7

LEMMA RestartLeads ==
    ASSUME NEW g \in Groups, OnTrack(<<>>, g), IsFile(cfg)
    PROVE  OnTrack(Restart, g)
<1> DEFINE h == NoFile  a == {Do("fw_read", None)}  b == {Do("fw_start", None)}
<1>1. DOMAIN h = {} \cup {} /\ DOMAIN h \subseteq Keys /\ "ssh_port" \notin DOMAIN h BY DEF NoFile
<1>2. Writes(a, h, {}) /\ Writes(b, h, {}) BY DoWrites
<1>3. GoodFile(g, After(h)) BY <1>1, ElsewhereGood
<1>4. \A s \in a \cup b : s.type \in {"fw_read", "fw_start"} BY StepTypes
<1> HIDE DEF h, a, b
<1>5. Makes(<<a, b>>, h) /\ StepsOf(<<a, b>>) = a \cup b BY <1>1, <1>2, MakesTwo
<1>7. SshFree(<<a, b>>) /\ Do("fw_stop", None) \notin StepsOf(<<a, b>>) BY <1>4, <1>5, StepTypes DEF SshFree
<1>6. OnTrack(<<a, b>>, g) BY <1>1, <1>3, <1>5, <1>7, MakesLead
<1> QED BY <1>6 DEF Restart, a, b

\* The same, for steps that write alone.
LEMMA WritingLeads ==
    ASSUME NEW g \in Groups, OnTrack(<<>>, g), IsFile(cfg), NEW steps, NEW h, Makes(steps, h),
           DOMAIN h \subseteq Keys \ {"ssh_port"}, \A s \in StepsOf(steps) : s.type = "set",
           DOMAIN h \cap Group[g] # {} => GoodFile(g, After(h))
    PROVE  OnTrack(steps, g)
<1>1. GoodFile(g, After(h)) BY ElsewhereGood
<1> QED BY <1>1, WritesAlone, MakesLead

LEMMA OneKeyLeads ==
    ASSUME NEW g \in Groups, OnTrack(<<>>, g), IsFile(cfg), NEW key \in Keys \ {"ssh_port"}, NEW value,
           key \in Group[g] => GoodFile(g, After([k \in {key} |-> value]))
    PROVE  OnTrack(<<One(key, value)>>, g)
<1> DEFINE h == [k \in {key} |-> value]  a == One(key, value)
<1>1. DOMAIN h = {key} /\ Writes(a, h, {key}) BY OneWrites
<1>2. \A s \in a : s.type = "set" BY PutType DEF One
<1>3. DOMAIN h \cap Group[g] # {} => GoodFile(g, After(h)) OBVIOUS
<1> HIDE DEF h, a
<1>4. Makes(<<a>>, h) /\ StepsOf(<<a>>) = a BY <1>1, MakesOne
<1>5. OnTrack(<<a>>, g) BY <1>1, <1>2, <1>3, <1>4, WritingLeads
<1> QED BY <1>5 DEF a

LEMMA TwoKeysLead ==
    ASSUME NEW g \in Groups, OnTrack(<<>>, g), IsFile(cfg),
           NEW key \in Keys \ {"ssh_port"}, NEW keys \in SUBSET (Keys \ {"ssh_port"}), NEW value,
           ({key} \cup keys) \cap Group[g] # {} => GoodFile(g, After([k \in {key} \cup keys |-> value]))
    PROVE  OnTrack(<<One(key, value), Put(keys, value)>>, g)
<1> DEFINE h == [k \in {key} \cup keys |-> value]  a == One(key, value)  b == Put(keys, value)
<1>1. DOMAIN h = {key} \cup keys /\ Writes(a, h, {key}) BY OneWrites
<1>2. Writes(b, h, keys) BY PutWrites
<1>3. \A s \in a \cup b : s.type = "set" BY PutType DEF One
<1>4. DOMAIN h \cap Group[g] # {} => GoodFile(g, After(h)) OBVIOUS
<1> HIDE DEF h, a, b
<1>5. Makes(<<a, b>>, h) /\ StepsOf(<<a, b>>) = a \cup b BY <1>1, <1>2, MakesTwo
<1>6. OnTrack(<<a, b>>, g) BY <1>1, <1>3, <1>4, <1>5, WritingLeads
<1> QED BY <1>6 DEF a, b

LEMMA KeysLead ==
    ASSUME NEW g \in Groups, OnTrack(<<>>, g), IsFile(cfg), NEW view
    PROVE  /\ OnTrack(Ipv6(view), g)
           /\ OnTrack(Push(view, "tg", "push_TG"), g) /\ OnTrack(Push(view, "po", "push_Po"), g)
           /\ \A user \in {"ON", None} : OnTrack(Syno(view, user), g)
           /\ \A value \in {"ON", None} : OnTrack(<<One("rest", value)>>, g)
           /\ OnTrack(BindPush, g)
<1>0. GoodFile(g, cfg) BY Arrived
<1>1. None # "ON" BY SettingsAssumption
<1>2. OnTrack(Ipv6(view), g)
  <2>1. "ipv6_redir" \in Group[g] => GoodFile(g, After([k \in {"ipv6_redir"} |-> None]))
    <3>1. "ipv6_redir" \in Group[g] => g = "ipv6" BY KeysAre DEF Group
    <3> QED BY <1>1, <3>1, KeysAre DEF GoodFile, After
  <2>2. OnTrack(<<One("ipv6_redir", None)>>, g) BY <2>1, KeysAre, OneKeyLeads
  <2> DEFINE keys == {"ipv6_support"}  both == {"ipv6_redir"} \cup keys
  <2>3. both \cap Group[g] # {} => GoodFile(g, After([k \in both |-> "ON"]))
    <3>1. both \cap Group[g] # {} => g = "ipv6" BY KeysAre DEF Group
    <3> QED BY <3>1, KeysAre DEF GoodFile, After
  <2>4. OnTrack(<<One("ipv6_redir", "ON"), Put(keys, "ON")>>, g) BY <2>3, KeysAre, TwoKeysLead
  <2> QED BY <2>2, <2>4 DEF Ipv6, One
<1>3. ASSUME NEW own \in {"tg", "po"}, NEW first \in Group[own]
      PROVE  OnTrack(Push(view, own, first), g)
  <2> DEFINE keys == Group[own] \ {first}  both == {first} \cup keys
  <2>1. both = Group[own] /\ first \in Keys \ {"ssh_port"} /\ keys \in SUBSET (Keys \ {"ssh_port"})
    BY KeysAre DEF Group
  <2>2. ASSUME NEW value PROVE both \cap Group[g] # {} => GoodFile(g, After([k \in both |-> value]))
    <3>1. both \cap Group[g] # {} => g = own BY <2>1, KeysAre DEF Group
    <3>2. \A k \in Group[own] : After([j \in both |-> value])[k] = value BY <2>1, KeysAre DEF After
    <3> QED BY <3>1, <3>2 DEF GoodFile
  <2> HIDE DEF keys
  <2>3. \A value : OnTrack(<<One(first, value), Put(keys, value)>>, g) BY <2>1, <2>2, TwoKeysLead
  <2> QED BY <2>3 DEF Push, keys
<1>4. "push_TG" \in Group["tg"] /\ "push_Po" \in Group["po"] BY DEF Group
<1>5. ASSUME NEW user \in {"ON", None} PROVE OnTrack(Syno(view, user), g)
  <2> DEFINE keys == {"push_ChatURL"}  both == {"push_SynoChat"} \cup keys
  <2>0. both \cap Group[g] # {} => g = "syno" BY KeysAre DEF Group
  <2>1. both \cap Group[g] # {} => GoodFile(g, After([k \in both |-> None]))
    BY <1>1, <2>0, KeysAre DEF GoodFile, After
  <2>2. OnTrack(<<One("push_SynoChat", None), Put(keys, None)>>, g) BY <2>1, KeysAre, TwoKeysLead
  <2>3. OnTrack(<<One("push_SynoChat", user) \cup One("push_ChatURL", "ON")>>, g)
    <3> DEFINE h == [k \in both |-> IF k = "push_ChatURL" THEN "ON" ELSE user]
               a == One("push_SynoChat", user)  b == One("push_ChatURL", "ON")  c == a \cup b
    <3>1. DOMAIN h = {"push_SynoChat"} \cup {"push_ChatURL"} /\ DOMAIN h \subseteq Keys \ {"ssh_port"} BY KeysAre
    <3>2. Writes(a, h, {"push_SynoChat"}) /\ Writes(b, h, {"push_ChatURL"}) BY KeysAre, OneWrites
    <3>3. \A s \in c : s.type = "set" BY PutType DEF One
    <3>4. DOMAIN h \cap Group[g] # {} => GoodFile(g, After(h))
      BY <2>0, KeysAre DEF GoodFile, After
    <3> HIDE DEF h, a, b
    <3>5. Writes(c, h, DOMAIN h) BY <3>1, <3>2, BothWrite
    <3> HIDE DEF c
    <3>6. Makes(<<c>>, h) /\ StepsOf(<<c>>) = c BY <3>5, MakesOne
    <3>7. OnTrack(<<c>>, g) BY <3>1, <3>3, <3>4, <3>6, WritingLeads
    <3> QED BY <3>7 DEF c, a, b
  <2> QED BY <2>2, <2>3 DEF Syno, One
<1>6. ASSUME NEW value \in {"ON", None} PROVE OnTrack(<<One("rest", value)>>, g)
  <2>1. "rest" \in Group[g] => g = "rest" BY KeysAre DEF Group
  <2>2. "rest" \in Group[g] => GoodFile(g, After([k \in {"rest"} |-> value])) BY <2>1 DEF GoodFile
  <2> QED BY <2>2, KeysAre, OneKeyLeads
<1>7. OnTrack(BindPush, g)
  <2> DEFINE h == [k \in Group["tg"] |-> "ON"]  a == {Set(h)}
  <2>1. Writes(a, h, DOMAIN h) BY SetWrites
  <2>2. DOMAIN h \subseteq Keys \ {"ssh_port"} BY KeysAre DEF Group
  <2>3. DOMAIN h \cap Group[g] # {} => GoodFile(g, After(h))
    <3>1. DOMAIN h \cap Group[g] # {} => g = "tg" BY KeysAre DEF Group
    <3>2. \A k \in Group["tg"] : After(h)[k] = "ON" BY KeysAre DEF After
    <3> QED BY <3>1, <3>2 DEF GoodFile
  <2>4. \A s \in a : s.type = "set" BY StepTypes
  <2> HIDE DEF h, a
  <2>5. Makes(<<a>>, h) /\ StepsOf(<<a>>) = a BY <2>1, MakesOne
  <2>6. OnTrack(<<a>>, g) BY <2>2, <2>3, <2>4, <2>5, WritingLeads
  <2> QED BY <2>6 DEF BindPush, a, h
<1> QED BY <1>2, <1>3, <1>4, <1>5, <1>6, <1>7

LEMMA BotLeads ==
    ASSUME NEW g \in Groups, OnTrack(<<>>, g), IsFile(cfg), NEW view, Sees(view, g)
    PROVE  /\ view.cfg["firewall_area"] # "4" => OnTrack(StopRedir(view), g)
           /\ OnTrack(StartRedir(view), g)
<1>0. GoodFile(g, cfg) BY Arrived
<1>1. g = "mode" => /\ view.cfg["redir_mod"] = cfg["redir_mod"] /\ view.cfg["redir_mod_bf"] = cfg["redir_mod_bf"]
                    /\ view.cfg["firewall_area"] = cfg["firewall_area"]
  BY DEF Sees, Group
<1>2. ASSUME view.cfg["firewall_area"] # "4" PROVE OnTrack(StopRedir(view), g)
  <2> DEFINE value == OrElse(view.cfg["redir_mod"], "Redir")
             D == {"redir_mod_bf", "firewall_area"}
             h == [k \in D |-> IF k = "firewall_area" THEN "4" ELSE value]
             a == {Set(h)}  b == {Do("fw_stop", None)}
  <2>1. g = "mode" => value # Pure BY <1>0, <1>1, <1>2 DEF GoodFile, OrElse, Pure
  <2>2. Writes(a, h, DOMAIN h) /\ Writes(b, h, {}) BY SetWrites, DoWrites
  <2>3. DOMAIN h = D /\ DOMAIN h \subseteq Keys /\ "ssh_port" \notin DOMAIN h BY KeysAre
  <2>4. After(h)["firewall_area"] = "4" BY KeysAre DEF After
  <2>5. GoodFile(g, After(h))
    <3>1. CASE g = "mode" BY <2>1, <3>1, KeysAre DEF GoodFile, After
    <3>2. CASE g # "mode"
      <4>1. D \cap Group[g] = {} BY <3>2, KeysAre DEF Group
      <4> QED BY <4>1, <2>3, ElsewhereGood
    <3> QED BY <3>1, <3>2
  <2>6. \A s \in a \cup b : s.type \in {"set", "fw_stop"} BY StepTypes
  <2>7. StopRedir(view) = <<a, b>> BY DEF StopRedir
  <2> HIDE DEF value, D, h, a, b
  <2>8. Makes(<<a, b>>, h) /\ StepsOf(<<a, b>>) = a \cup b BY <2>2, MakesTwo
  <2>9. SshFree(<<a, b>>) BY <2>6, <2>8 DEF SshFree
  <2> QED BY <2>3, <2>4, <2>5, <2>7, <2>8, <2>9, MakesLead
<1>3. OnTrack(StartRedir(view), g)
  <2> DEFINE value == OrElse(view.cfg["redir_mod_bf"], "Redir")
             h == [k \in {"redir_mod"} |-> value]
             a == One("redir_mod", value)  b == {Do("fw_read", None)}  c == {Do("fw_start", None)}
  <2>1. g = "mode" => value # Pure BY <1>0, <1>1 DEF GoodFile, OrElse, Pure
  <2>2. Writes(a, h, {"redir_mod"}) /\ Writes(b, h, {}) /\ Writes(c, h, {}) BY OneWrites, DoWrites, KeysAre
  <2>3. DOMAIN h = {"redir_mod"} /\ DOMAIN h \subseteq Keys /\ "ssh_port" \notin DOMAIN h BY KeysAre
  <2>5. GoodFile(g, After(h))
    <3>1. CASE g = "mode" BY <1>0, <2>1, <3>1, KeysAre DEF GoodFile, After
    <3>2. CASE g # "mode"
      <4>1. {"redir_mod"} \cap Group[g] = {} BY <3>2, KeysAre DEF Group
      <4> QED BY <4>1, <2>3, ElsewhereGood
    <3> QED BY <3>1, <3>2
  <2>6. \A s \in a \cup b \cup c : s.type \in {"set", "fw_read", "fw_start"} BY StepTypes, PutType DEF One
  <2>7. StartRedir(view) = <<a, b, c>> BY DEF StartRedir
  <2> HIDE DEF value, h, a, b, c
  <2>8. Makes(<<a, b, c>>, h) /\ StepsOf(<<a, b, c>>) = a \cup b \cup c BY <2>2, <2>3, MakesThree
  <2>9. SshFree(<<a, b, c>>) /\ Do("fw_stop", None) \notin StepsOf(<<a, b, c>>)
    BY <2>6, <2>8, StepTypes DEF SshFree
  <2> QED BY <2>3, <2>5, <2>7, <2>8, <2>9, MakesLead
<1> QED BY <1>2, <1>3

\* Steps about SSH that write nothing but the port.
LEMMA SshOnTrack ==
    ASSUME NEW g \in Groups, OnTrack(<<>>, g), IsFile(cfg), NEW steps, NEW h, Makes(steps, h), DOMAIN h \subseteq {"ssh_port"},
           g = "ssh" => SshLeads(steps, lines, rules, missed, After(h)),
           Do("fw_stop", None) \notin StepsOf(steps)
    PROVE  OnTrack(steps, g)
<1>1. Group[g] \subseteq Keys BY KeysAre
<1>2. Leads(steps, g, cfg, After(h)) BY <1>1 DEF Leads, Makes, Writes, After
<1>3. GoodFile(g, After(h))
  <2>1. CASE g = "ssh" BY <2>1 DEF GoodFile
  <2>2. CASE g # "ssh"
    <3>1. DOMAIN h \cap Group[g] = {} BY <2>2, KeysAre DEF Group
    <3> QED BY <3>1, ElsewhereGood
  <2> QED BY <2>1, <2>2
<1>4. g = "mode" /\ pure => ~diverting /\ cfg["firewall_area"] = "4" BY Arrived
<1> QED BY <1>2, <1>3, <1>4 DEF OnTrack, OnTrackAt

LEMMA SshLead ==
    ASSUME NEW g \in Groups, OnTrack(<<>>, g), Typed, NEW view, IsView(view), Sees(view, g), NEW port \in SshPorts
    PROVE  /\ view.lines = {} => OnTrack(OpenSsh(Port(view.cfg)), g)
           /\ OnTrack(CloseSsh(Port(view.cfg)), g)
           /\ OnTrack(SetPort(view, port), g)
<1> DEFINE old == Port(view.cfg)
<1>0. IsFile(cfg) /\ lines \subseteq SshPorts /\ rules \subseteq SshPorts /\ old \in SshPorts
  BY PortIs DEF Typed, IsView
<1>1. g = "ssh" => rules \ missed = lines \ missed /\ lines \subseteq {old} /\ old = Port(cfg) /\ view.lines = lines
  BY Arrived DEF Sees, Group, Port
<1>2. view.lines = {} => OnTrack(OpenSsh(old), g)
  <2> DEFINE a == {Do("open", old)}  b == {Do("mark", old)}  h == NoFile
  <2>1. Writes(a, h, {}) /\ Writes(b, h, {}) /\ DOMAIN h = {} BY DoWrites DEF NoFile
  <2>2. \A s \in a \cup b : s.type \in {"open", "mark"} /\ s.port = old BY StepTypes
  <2>3. Do("open", old) \in a \cup b /\ Do("mark", old) \in a \cup b OBVIOUS
  <2> HIDE DEF a, b, h, old
  <2>4. Makes(<<a, b>>, h) /\ StepsOf(<<a, b>>) = a \cup b BY <2>1, MakesTwo
  <2>5. /\ With("open", <<a, b>>) = {old} /\ With("mark", <<a, b>>) = {old} /\ With("close", <<a, b>>) = {}
        /\ ~Unmarks(<<a, b>>) /\ Do("fw_stop", None) \notin StepsOf(<<a, b>>)
    BY <1>0, <2>2, <2>3, <2>4, StepTypes DEF With, Unmarks
  <2>6. Port(After(h)) = Port(cfg) BY <2>1, KeysAre DEF After, Port
  <2>7. view.lines = {} /\ g = "ssh" => SshLeads(<<a, b>>, lines, rules, missed, After(h))
    BY <1>1, <2>5, <2>6 DEF SshLeads
  <2>8. view.lines = {} => OnTrack(<<a, b>>, g) BY <1>0, <2>1, <2>4, <2>5, <2>7, SshOnTrack
  <2> QED BY <2>8 DEF OpenSsh, a, b
<1>3. OnTrack(CloseSsh(old), g)
  <2> DEFINE a == {Do("close", old)}  b == {Do("unmark", None)}  h == NoFile
  <2>1. Writes(a, h, {}) /\ Writes(b, h, {}) /\ DOMAIN h = {} BY DoWrites DEF NoFile
  <2>2. \A s \in a \cup b : s.type \in {"close", "unmark"} /\ (s.type = "close" => s.port = old) BY StepTypes
  <2>3. Do("close", old) \in a \cup b /\ Do("unmark", None) \in a \cup b OBVIOUS
  <2> HIDE DEF a, b, h, old
  <2>4. Makes(<<a, b>>, h) /\ StepsOf(<<a, b>>) = a \cup b BY <2>1, MakesTwo
  <2>5. /\ With("open", <<a, b>>) = {} /\ With("mark", <<a, b>>) = {} /\ With("close", <<a, b>>) = {old}
        /\ Unmarks(<<a, b>>) /\ Do("fw_stop", None) \notin StepsOf(<<a, b>>)
    BY <1>0, <2>2, <2>3, <2>4, StepTypes DEF With, Unmarks
  <2>7. g = "ssh" => SshLeads(<<a, b>>, lines, rules, missed, After(h)) BY <1>1, <2>5 DEF SshLeads
  <2>8. OnTrack(<<a, b>>, g) BY <1>0, <2>1, <2>4, <2>5, <2>7, SshOnTrack
  <2> QED BY <2>8 DEF CloseSsh, a, b
<1>4. OnTrack(SetPort(view, port), g)
  <2> DEFINE a == {Do("close", old)}  b == {Do("unmark", None)}  c == One("ssh_port", port)
             h == [k \in {"ssh_port"} |-> port]
  <2>1. Writes(a, h, {}) /\ Writes(b, h, {}) /\ Writes(c, h, {"ssh_port"}) /\ DOMAIN h = {"ssh_port"}
    BY DoWrites, OneWrites, KeysAre
  <2>2. \A s \in c \cup a \cup b : s.type \in {"set", "close", "unmark"} /\ (s.type = "close" => s.port = old)
    BY StepTypes, PutType DEF One
  <2>3. Do("close", old) \in c \cup a \cup b /\ Do("unmark", None) \in c \cup a \cup b OBVIOUS
  <2>4. SetPort(view, port) = <<c, a, b>> BY Joined DEF SetPort, CloseSsh
  <2> HIDE DEF a, b, c, h, old
  <2>5. Makes(<<c, a, b>>, h) /\ StepsOf(<<c, a, b>>) = c \cup a \cup b BY <2>1, MakesThree
  <2>6. /\ With("open", <<c, a, b>>) = {} /\ With("mark", <<c, a, b>>) = {} /\ With("close", <<c, a, b>>) = {old}
        /\ Unmarks(<<c, a, b>>) /\ Do("fw_stop", None) \notin StepsOf(<<c, a, b>>)
    BY <1>0, <2>2, <2>3, <2>5, StepTypes DEF With, Unmarks
  <2>7. g = "ssh" => SshLeads(<<c, a, b>>, lines, rules, missed, After(h)) BY <1>1, <2>6 DEF SshLeads
  <2>8. OnTrack(<<c, a, b>>, g) BY <1>0, <2>1, <2>5, <2>6, <2>7, SshOnTrack
  <2> QED BY <2>4, <2>8
<1> QED BY <1>2, <1>3, <1>4

\* Whatever is offered to one who was shown what is true leads to what is well.
LEMMA OffersLead ==
    ASSUME Typed, NEW g \in Groups, OnTrack(<<>>, g), NEW view, IsView(view), Sees(view, g), NEW steps,
           \/ \E topic \in Topics : steps \in MenuPlans(view)[topic]
           \/ steps \in BotPlans(view) /\ ~Restoring(steps)
    PROVE  OnTrack(steps, g)
<1>0. IsFile(cfg) /\ Port(view.cfg) \in SshPorts BY PortIs DEF Typed, IsView
<1>1. ASSUME NEW topic \in Topics, steps \in MenuPlans(view)[topic] PROVE OnTrack(steps, g)
  <2>0. topic \in {"mode", "ipv6", "tg", "po", "syno", "ssh", "rest"} BY SettingsAssumption, KeysAre
  <2>1. CASE topic = "mode"
    <3>1. \/ \E mode \in Modes : steps = Redir(mode)
          \/ \E mode \in {"Redir", "Mix"}, v6 \in BOOLEAN : steps = GatewayGuide(mode, v6)
          \/ steps = LocalGuide \/ steps = Restart
      BY <1>1, <2>1 DEF MenuPlans
    <3>2. "Redir" \in {"Redir", "Mix"} /\ TRUE \in BOOLEAN OBVIOUS
    <3> QED BY <1>0, <3>1, <3>2, RedirLeads, GuidesLead, RestartLeads
  <2>2. CASE topic \in {"ipv6", "tg", "po", "syno", "rest"}
    <3>1. \/ steps = Ipv6(view) \/ steps = Push(view, "tg", "push_TG") \/ steps = Push(view, "po", "push_Po")
          \/ \E user \in {"ON", None} : steps = Syno(view, user)
          \/ \E value \in {"ON", None} : steps = <<One("rest", value)>>
      BY <1>1, <2>2 DEF MenuPlans
    <3> QED BY <1>0, <3>1, KeysLead
  <2>3. CASE topic = "ssh"
    <3>1. \/ \E port \in SshPorts : steps = SetPort(view, port)
          \/ steps = IF view.lines = {} THEN OpenSsh(Port(view.cfg)) ELSE CloseSsh(Port(view.cfg))
      BY <1>1, <2>3 DEF MenuPlans
    <3> QED BY <1>0, <3>1, SshLead
  <2> QED BY <2>0, <2>1, <2>2, <2>3
<1>2. ASSUME steps \in BotPlans(view), ~Restoring(steps) PROVE OnTrack(steps, g)
  <2>1. \/ steps = Restart \/ steps = BindPush
        \/ steps = IF view.cfg["firewall_area"] = "4" THEN StartRedir(view) ELSE StopRedir(view)
        \/ steps = <<{Do("restore", None)}>>
    BY <1>2 DEF BotPlans
  <2>2. Restoring(<<{Do("restore", None)}>>) BY StepTypes DEF Restoring, StepsOf
  <2> QED BY <1>0, <1>2, <2>1, <2>2, RestartLeads, KeysLead, BotLeads
<1> QED BY <1>1, <1>2

-----------------------------------------------------------------------------
\* Steps.

LEMMA StepKinds ==
    ASSUME NEW step \in Steps, NEW g \in Groups
    PROVE  /\ step.type = "set" => (g \in GroupsOf(step) <=> Group[g] \cap DOMAIN step.put # {})
           /\ step.type # "set" => DOMAIN step.put = {}
           /\ step.type \in {"open", "close", "mark", "unmark"} => GroupsOf(step) = {"ssh"}
           /\ step.type \in {"fw_read", "fw_start", "fw_stop"} => GroupsOf(step) = {"mode"}
           /\ step.type = "restore" => GroupsOf(step) = Groups
<1>1. step.type # "set" => DOMAIN step.put = {}
  <2>1. \A type, port : DOMAIN (Do(type, port).put) = {} BY DEF Do, NoFile
  <2> QED BY <2>1, StepIs
<1>2. step.type \in {"set", "restore", "open", "close", "mark", "unmark", "fw_read", "fw_start", "fw_stop"}
  BY StepIs DEF OnPort, Plain
<1> QED BY <1>1, <1>2 DEF GroupsOf

\* A step that is not about g may be left out, as far as g goes.
LEMMA Less ==
    ASSUME NEW g \in Groups, NEW steps, NEW rest, NEW step \in Steps,
           StepsOf(rest) \subseteq StepsOf(steps), StepsOf(steps) \subseteq StepsOf(rest) \cup {step},
           g \notin GroupsOf(step), NEW file, NEW l, NEW r, NEW m, NEW up, NEW announced,
           OnTrackAt(steps, g, file, l, r, m, up, announced)
    PROVE  OnTrackAt(rest, g, file, l, r, m, up, announced)
<1>1. PICK aim : /\ GoodFile(g, aim) /\ Leads(steps, g, file, aim)
                 /\ g = "ssh" => SshLeads(steps, l, r, m, aim)
                 /\ g = "mode" /\ Do("fw_stop", None) \in StepsOf(steps) => aim["firewall_area"] = "4"
  BY DEF OnTrackAt
<1>2. Group[g] \cap DOMAIN step.put = {} BY StepKinds
<1>3. Leads(rest, g, file, aim) BY <1>1, <1>2 DEF Leads
<1>4. g = "ssh" => SshLeads(rest, l, r, m, aim)
  <2> SUFFICES ASSUME g = "ssh" PROVE SshLeads(rest, l, r, m, aim) OBVIOUS
  <2>1. step.type \notin {"open", "close", "mark", "unmark"} BY StepKinds
  <2>2. /\ With("open", rest) = With("open", steps) /\ With("mark", rest) = With("mark", steps)
        /\ With("close", rest) = With("close", steps) /\ Unmarks(rest) = Unmarks(steps)
    BY <2>1, StepTypes DEF With, Unmarks
  <2> QED BY <1>1, <2>2 DEF SshLeads
<1> QED BY <1>1, <1>3, <1>4 DEF OnTrackAt

\* With no step about g left, the plan has done what it had to.
LEMMA Done ==
    ASSUME NEW g \in Groups, NEW steps, StepsOf(steps) \subseteq Steps, \A s \in StepsOf(steps) : g \notin GroupsOf(s),
           NEW file, NEW l, NEW r, NEW m, NEW up, NEW announced,
           OnTrackAt(steps, g, file, l, r, m, up, announced)
    PROVE  OnTrackAt(<<>>, g, file, l, r, m, up, announced)
<1>1. PICK aim : /\ GoodFile(g, aim) /\ Leads(steps, g, file, aim)
                 /\ g = "ssh" => SshLeads(steps, l, r, m, aim)
  BY DEF OnTrackAt
<1>2. \A s \in StepsOf(steps) : Group[g] \cap DOMAIN s.put = {} BY StepKinds
<1>3. Leads(<<>>, g, file, aim) BY <1>1, <1>2, NothingIsPlan DEF Leads
<1>4. g = "ssh" => SshLeads(<<>>, l, r, m, aim)
  <2> SUFFICES ASSUME g = "ssh" PROVE SshLeads(<<>>, l, r, m, aim) OBVIOUS
  <2>1. \A s \in StepsOf(steps) : s.type \notin {"open", "close", "mark", "unmark"} BY StepKinds
  <2>2. /\ With("open", steps) = {} /\ With("mark", steps) = {} /\ With("close", steps) = {} /\ ~Unmarks(steps)
        /\ With("open", <<>>) = {} /\ With("mark", <<>>) = {} /\ With("close", <<>>) = {} /\ ~Unmarks(<<>>)
    BY <2>1, StepTypes, NothingIsPlan DEF With, Unmarks
  <2> QED BY <1>1, <2>2 DEF SshLeads
<1> QED BY <1>1, <1>3, <1>4, NothingIsPlan DEF OnTrackAt

\* On track depends on what g is about only.
Untouched(g) ==
    /\ \A k \in Group[g] : cfg'[k] = cfg[k]
    /\ g = "ssh" => lines' = lines /\ rules' = rules /\ missed' = missed
    /\ g = "mode" => diverting' = diverting /\ pure' = pure
OnTrackNext(steps, g) == OnTrackAt(steps, g, cfg', lines', rules', missed', diverting', pure')

LEMMA StillOnTrack ==
    ASSUME NEW g \in Groups, Untouched(g), NEW steps, OnTrack(steps, g)
    PROVE  OnTrackNext(steps, g)
<1>1. PICK aim : /\ GoodFile(g, aim) /\ Leads(steps, g, cfg, aim)
                 /\ g = "ssh" => SshLeads(steps, lines, rules, missed, aim)
                 /\ g = "mode" /\ Do("fw_stop", None) \in StepsOf(steps) => aim["firewall_area"] = "4"
  BY DEF OnTrack, OnTrackAt
<1>2. Leads(steps, g, cfg', aim) BY <1>1 DEF Leads, Untouched
<1>3. g = "mode" => cfg'["firewall_area"] = cfg["firewall_area"] BY DEF Untouched, Group
<1> QED BY <1>1, <1>2, <1>3 DEF OnTrack, OnTrackAt, OnTrackNext, Untouched

\* Nobody's plan or picture changes, and g stays as it is.
LEMMA Standing ==
    ASSUME Typed, NEW g \in Groups, Doomed(g) \/ Kept(g), Shown(g), Untouched(g), UNCHANGED <<plan, seen, stale>>
    PROVE  (Doomed(g) \/ Kept(g))' /\ Shown(g)'
<1>1. \A p \in Procs : Claims(p, g)' <=> Claims(p, g) BY DEF Claims, Pending
<1>2. Doomed(g) => Doomed(g)' BY <1>1 DEF Doomed
<1>3. Kept(g) => Kept(g)' BY <1>1, StillOnTrack DEF Kept, OnTrack, OnTrackNext
<1>4. Shown(g)' BY DEF Shown, Untouched, Idle
<1> QED BY <1>2, <1>3, <1>4

\* p makes a step of its plan.
LEMMA Stepping ==
    ASSUME Typed, Settled, NEW p \in Procs, plan[p] # <<>>, NEW step \in Head(plan[p]), NEW bad, Made(p, step, bad),
           ~Restoring(plan[p]), NEW g \in Groups \ spoiled',
           g \notin GroupsOf(step) => Untouched(g),
           g \in GroupsOf(step) /\ OnTrack(plan[p], g) => OnTrackNext(plan'[p], g)
    PROVE  (Doomed(g) \/ Kept(g))' /\ Shown(g)'
<1> DEFINE rest == Rest(plan[p], step)
<1>1. /\ plan' = [plan EXCEPT ![p] = rest]
      /\ seen' = [seen EXCEPT ![p] = IF rest = <<>> THEN NoView ELSE seen[p]]
      /\ stale' = [q \in Procs |-> IF q = p \/ Idle(q) THEN stale[q] ELSE stale[q] \cup GroupsOf(step)]
      /\ spoiled' = spoiled \cup bad \cup (stale[p] \cap GroupsOf(step))
  BY DEF Made, Rest
<1>2. /\ step \in Steps /\ step \in StepsOf(plan[p]) /\ StepsOf(rest) \subseteq StepsOf(plan[p])
      /\ StepsOf(plan[p]) \subseteq StepsOf(rest) \cup {step} /\ IsPlan(rest) /\ IsPlan(plan[p])
  BY Shortened DEF Typed
<1>3. g \notin spoiled /\ (g \in GroupsOf(step) => g \notin stale[p]) BY <1>1
<1>4. (Doomed(g) \/ Kept(g)) /\ Shown(g) BY <1>3 DEF Settled
<1> HIDE DEF rest
<1>5. plan'[p] = rest /\ \A q \in Procs \ {p} : plan'[q] = plan[q] /\ seen'[q] = seen[q]
  BY <1>1 DEF Typed
<1>6. \A q \in Procs \ {p} : Claims(q, g)' <=> Claims(q, g) BY <1>5 DEF Claims, Pending
<1>7. ~Restoring(rest) BY <1>2 DEF Restoring
<1>8. Claims(p, g)' => Claims(p, g) BY <1>2, <1>5, <1>7 DEF Claims, Pending
<1>9. \A q \in Procs : stale[q] \subseteq stale'[q] BY <1>1
<1>10. plan'[p] = <<>> => seen'[p] = NoView BY <1>1, <1>5 DEF Typed
<1>11. CASE g \notin GroupsOf(step)
  <2>1. Claims(p, g)' <=> Claims(p, g) BY <1>2, <1>5, <1>7, <1>11 DEF Claims, Pending
  <2>2. Doomed(g) => Doomed(g)' BY <2>1, <1>6, <1>9 DEF Doomed
  <2>3. \A steps : OnTrack(steps, g) => OnTrackNext(steps, g) BY <1>11, StillOnTrack
  <2>4. OnTrack(plan[p], g) => OnTrackNext(rest, g)
    BY <2>3, <1>2, <1>11, Less DEF OnTrackNext
  <2>5. Kept(g) => Kept(g)'
    <3> SUFFICES ASSUME Kept(g) PROVE Kept(g)' OBVIOUS
    <3>1. (\A q \in Procs : ~Claims(q, g)') => OnTrackNext(<<>>, g) BY <2>1, <2>3, <1>6 DEF Kept
    <3>2. ASSUME NEW q \in Procs, Claims(q, g)', \A o \in Procs \ {q} : ~Claims(o, g)'
          PROVE  OnTrackNext(plan'[q], g)
      <4>1. Claims(q, g) /\ \A o \in Procs \ {q} : ~Claims(o, g) BY <3>2, <2>1, <1>6
      <4>2. OnTrack(plan[q], g) BY <4>1 DEF Kept
      <4> QED BY <4>2, <2>3, <2>4, <1>5
    <3> QED BY <3>1, <3>2 DEF Kept, OnTrack, OnTrackNext
  <2>6. Shown(g)'
    <3>1. Untouched(g) BY <1>11
    <3> SUFFICES ASSUME NEW q \in Procs, plan'[q] = <<>>, seen'[q].cfg # NoFile, g \notin stale'[q]
                 PROVE  /\ \A k \in Group[g] : seen'[q].cfg[k] = cfg'[k]
                        /\ g = "ssh" => seen'[q].lines = lines'
      BY DEF Shown, Idle
    <3>2. q # p BY <1>10 DEF NoView
    <3>3. plan[q] = <<>> /\ seen[q].cfg # NoFile /\ g \notin stale[q] /\ seen'[q] = seen[q] BY <3>2, <1>5, <1>9
    <3> QED BY <3>1, <3>3, <1>4 DEF Shown, Idle, Untouched
  <2> QED BY <2>2, <2>5, <2>6, <1>4
<1>12. CASE g \in GroupsOf(step)
  <2>1. Claims(p, g) BY <1>2, <1>12 DEF Claims, Pending
  <2>2. \A q \in Procs \ {p} : ~Idle(q) => g \in stale'[q] BY <1>1, <1>12
  <2>3. Shown(g)'
    BY <2>2, <1>5, <1>10 DEF Shown, Idle, NoView
  <2>4. ASSUME NEW q \in Procs \ {p}, Claims(q, g) PROVE Doomed(g)'
    <3>1. plan[q] # <<>> BY <2>4, NothingIsPlan DEF Claims, Pending
    <3>2. ~Idle(q) BY <3>1 DEF Typed
    <3> QED BY <2>2, <2>4, <3>2, <1>6 DEF Doomed
  <2>5. ASSUME \A q \in Procs \ {p} : ~Claims(q, g) PROVE Kept(g)'
    <3>1. ~Doomed(g) BY <2>5, <1>3, <1>12 DEF Doomed
    <3>2. OnTrackNext(rest, g) BY <2>1, <2>5, <3>1, <1>4, <1>5, <1>12 DEF Kept
    <3>3. ~Claims(p, g)' => OnTrackNext(<<>>, g)
      <4> SUFFICES ASSUME ~Claims(p, g)' PROVE OnTrackNext(<<>>, g) OBVIOUS
      <4>1. \A s \in StepsOf(rest) : g \notin GroupsOf(s) BY <1>5, <1>7 DEF Claims, Pending
      <4>2. StepsOf(rest) \subseteq Steps BY <1>2 DEF IsPlan, StepsOf
      <4> QED BY <3>2, <4>1, <4>2, Done DEF OnTrackNext
    <3>4. \A q \in Procs : Claims(q, g)' => q = p BY <2>5, <1>6
    <3> QED BY <3>2, <3>3, <3>4, <1>5 DEF Kept, OnTrack, OnTrackNext
  <2> QED BY <2>3, <2>4, <2>5
<1> QED BY <1>11, <1>12

\* A write of one of the steps leaves the others to lead to the same aim.
LEMMA WriteTrack ==
    ASSUME NEW g \in Groups, NEW steps, OnTrack(steps, g), NEW step \in StepsOf(steps), step \in Steps, step.type = "set",
           NEW rest, StepsOf(rest) \subseteq StepsOf(steps), StepsOf(steps) \subseteq StepsOf(rest) \cup {step},
           \A k \in Group[g] : cfg'[k] = IF k \in DOMAIN step.put THEN step.put[k] ELSE cfg[k],
           UNCHANGED <<lines, rules, missed, diverting>>, pure' = (pure /\ "firewall_area" \notin DOMAIN step.put)
    PROVE  OnTrackNext(rest, g)
<1>1. PICK aim : /\ GoodFile(g, aim) /\ Leads(steps, g, cfg, aim)
                 /\ g = "ssh" => SshLeads(steps, lines, rules, missed, aim)
                 /\ g = "mode" /\ Do("fw_stop", None) \in StepsOf(steps) => aim["firewall_area"] = "4"
  BY DEF OnTrack, OnTrackAt
<1>2. Leads(rest, g, cfg', aim)
  <2>1. ASSUME NEW k \in Group[g] PROVE cfg'[k] = aim[k] \/ \E s \in StepsOf(rest) : k \in DOMAIN s.put
    <3>1. CASE k \in DOMAIN step.put BY <1>1, <3>1 DEF Leads
    <3>2. CASE k \notin DOMAIN step.put BY <1>1, <3>2 DEF Leads
    <3> QED BY <3>1, <3>2
  <2> QED BY <1>1, <2>1 DEF Leads
<1>3. g = "ssh" => SshLeads(rest, lines', rules', missed', aim)
  <2>1. /\ With("open", rest) = With("open", steps) /\ With("mark", rest) = With("mark", steps)
        /\ With("close", rest) = With("close", steps) /\ Unmarks(rest) = Unmarks(steps)
    BY StepTypes DEF With, Unmarks
  <2> QED BY <1>1, <2>1 DEF SshLeads
<1>4. g = "mode" /\ pure' => ~diverting' /\ cfg'["firewall_area"] = "4"
  <2>1. g = "mode" /\ pure => ~diverting /\ cfg["firewall_area"] = "4" BY DEF OnTrack, OnTrackAt
  <2>2. g = "mode" => "firewall_area" \in Group[g] BY DEF Group
  <2> QED BY <2>1, <2>2
<1> QED BY <1>1, <1>2, <1>3, <1>4 DEF OnTrackNext, OnTrackAt

\* So does a command of iptables or an edit of firewall.user.
LEMMA SshTrack ==
    ASSUME NEW steps, OnTrack(steps, "ssh"), NEW step \in StepsOf(steps), step \in Steps,
           step.type \in {"open", "close", "mark", "unmark"},
           NEW rest, StepsOf(rest) \subseteq StepsOf(steps), StepsOf(steps) \subseteq StepsOf(rest) \cup {step},
           SshStep(step),
           UNCHANGED cfg
    PROVE  OnTrackNext(rest, "ssh")
<1>1. PICK aim : /\ GoodFile("ssh", aim) /\ Leads(steps, "ssh", cfg, aim) /\ SshLeads(steps, lines, rules, missed, aim)
  BY DEF OnTrack, OnTrackAt
<1>2. DOMAIN step.put = {} BY StepKinds, KeysAre
<1>3. Leads(rest, "ssh", cfg', aim)
  <2>1. ASSUME NEW k \in Group["ssh"], NEW s \in StepsOf(steps), k \in DOMAIN s.put
        PROVE  s \in StepsOf(rest)
    BY <1>2, <2>1
  <2> QED BY <1>1, <2>1 DEF Leads
<1>4. step = Do(step.type, step.port) /\ (step.type \in {"open", "close", "mark"} => step.port \in SshPorts)
      /\ (step.type = "unmark" => step.port = None)
  BY StepIs DEF OnPort, Plain
<1>5. /\ \A type \in {"open", "close", "mark"} :
           /\ With(type, rest) \subseteq With(type, steps)
           /\ With(type, steps) \subseteq With(type, rest) \cup (IF type = step.type THEN {step.port} ELSE {})
      /\ step.type \in {"open", "close", "mark"} => step.port \in With(step.type, steps)
      /\ Unmarks(rest) => Unmarks(steps)
      /\ step.type # "unmark" => Unmarks(rest) = Unmarks(steps)
      /\ step.type = "unmark" => Unmarks(steps)
  BY <1>4, StepTypes DEF With, Unmarks
<1>6. SshLeads(rest, lines', rules', missed', aim)
  <2>1. CASE step.type = "open" BY <1>1, <1>5, <2>1 DEF SshLeads, SshStep, Iptables
  <2>2. CASE step.type = "close" BY <1>1, <1>5, <2>2 DEF SshLeads, SshStep, Iptables
  <2>3. CASE step.type = "mark" BY <1>1, <1>5, <2>3 DEF SshLeads, SshStep
  <2>4. CASE step.type = "unmark" BY <1>1, <1>5, <2>4 DEF SshLeads, SshStep
  <2> QED BY <2>1, <2>2, <2>3, <2>4
<1> QED BY <1>1, <1>3, <1>6 DEF OnTrackNext, OnTrackAt

\* And a step of the firewall, that reads the area, starts with the area read
\* or stops, last.
LEMMA FirewallTrack ==
    ASSUME NEW steps, IsPlan(steps), OnTrack(steps, "mode"), NEW step \in StepsOf(steps), step \in Steps,
           step.type \in {"fw_read", "fw_start", "fw_stop"},
           NEW rest, StepsOf(rest) \subseteq StepsOf(steps), StepsOf(steps) \subseteq StepsOf(rest) \cup {step},
           step.type = "fw_read" => UNCHANGED <<diverting, pure>>,
           step.type = "fw_start" => UNCHANGED pure /\ (diverting' => cfg["firewall_area"] # "4"),
           step.type = "fw_stop" => steps = <<{step}>> /\ ~diverting',
           UNCHANGED cfg
    PROVE  OnTrackNext(rest, "mode")
<1>1. PICK aim : /\ GoodFile("mode", aim) /\ Leads(steps, "mode", cfg, aim)
                 /\ Do("fw_stop", None) \in StepsOf(steps) => aim["firewall_area"] = "4"
  BY DEF OnTrack, OnTrackAt
<1>2. DOMAIN step.put = {} BY StepKinds, KeysAre
<1>3. Leads(rest, "mode", cfg', aim)
  <2>1. ASSUME NEW k \in Group["mode"], NEW s \in StepsOf(steps), k \in DOMAIN s.put
        PROVE  s \in StepsOf(rest)
    BY <1>2, <2>1
  <2> QED BY <1>1, <2>1 DEF Leads
<1>4. pure => ~diverting /\ cfg["firewall_area"] = "4" BY DEF OnTrack, OnTrackAt
<1>5. step.type = "fw_stop" => cfg["firewall_area"] = "4"
  <2> SUFFICES ASSUME step.type = "fw_stop" PROVE cfg["firewall_area"] = "4" OBVIOUS
  <2>1. StepsOf(steps) = {step} BY DEF StepsOf
  <2>2. step = Do("fw_stop", None) BY StepIs DEF Plain
  <2>3. "firewall_area" \in Group["mode"] BY DEF Group
  <2> QED BY <1>1, <1>2, <2>1, <2>2, <2>3 DEF Leads
<1>6. pure' => ~diverting' /\ cfg'["firewall_area"] = "4" BY <1>4, <1>5
<1> QED BY <1>1, <1>3, <1>6 DEF OnTrackNext, OnTrackAt

\* A firewall that is stopped is stopped by the last step of a plan, and one
\* that is started by a plan that has just read.
LEMMA FirewallIsLast ==
    ASSUME NEW steps, IsPlan(steps), steps # <<>>, NEW step \in Head(steps), step.type \in {"fw_read", "fw_start", "fw_stop"}
    PROVE  /\ step = Do(step.type, None)
           /\ step.type = "fw_stop" => steps = <<{step}>>
           /\ step.type = "fw_start" => steps = <<{step}>>
           /\ step.type = "fw_read" => steps = <<{step}, {Do("fw_start", None)}>>
<1>1. step \in StepsOf(steps) /\ step \in Steps BY Shortened
<1>2. step = Do(step.type, None) BY <1>1, StepIs DEF Plain
<1>3. \A f \in Puts : step # Set(f) BY StepTypes
<1>4. Orderly(steps) BY DEF IsPlan
<1>5. \A a : steps = <<{a}>> => step = a OBVIOUS
<1>6. \A a, b : steps = <<{a}, {b}>> => step = a OBVIOUS
<1>7. \A a, b, c : steps = <<{a}, {b}, {c}>> => step = a OBVIOUS
<1>8. step.type = "fw_stop" => steps = <<{step}>>
  BY <1>1, <1>2, <1>3, <1>4, <1>6 DEF Orderly
<1>9. step.type \in {"fw_start", "fw_read"} =>
        steps = <<{Do("fw_start", None)}>> \/ steps = <<{Do("fw_read", None)}, {Do("fw_start", None)}>>
  BY <1>1, <1>2, <1>3, <1>4, <1>7 DEF Orderly
<1>10. step.type = "fw_start" => steps = <<{step}>> BY <1>2, <1>6, <1>9, StepTypes
<1>11. step.type = "fw_read" => steps = <<{step}, {Do("fw_start", None)}>> BY <1>2, <1>5, <1>9, StepTypes
<1> QED BY <1>2, <1>8, <1>10, <1>11

\* Somebody begins a plan that was offered.
LEMMA Planning ==
    ASSUME Typed, Settled, NEW p \in Procs, plan[p] = <<>>, NEW view, IsView(view), NEW steps,
           plan' = [plan EXCEPT ![p] = steps], seen'[p] = view,
           \A q \in Procs \ {p} : seen'[q] = seen[q] /\ stale'[q] = stale[q],
           \/ \E topic \in Topics : steps \in MenuPlans(view)[topic]
           \/ steps \in BotPlans(view),
           NEW g \in Groups \ spoiled, g \notin stale'[p] => Sees(view, g),
           UNCHANGED <<cfg, lines, rules, missed, diverting, pure>>
    PROVE  (Doomed(g) \/ Kept(g))' /\ Shown(g)'
<1>1. (Doomed(g) \/ Kept(g)) /\ Shown(g) BY DEF Settled
<1>2. plan'[p] = steps /\ seen'[p] = view /\ \A q \in Procs \ {p} : plan'[q] = plan[q] /\ seen'[q] = seen[q]
  BY DEF Typed
<1>3. \A q \in Procs \ {p} : Claims(q, g)' <=> Claims(q, g) BY <1>2 DEF Claims, Pending
<1>4. ~Claims(p, g) BY NothingIsPlan DEF Claims, Pending
<1>5. Doomed(g) => Doomed(g)' BY <1>3, <1>4 DEF Doomed
<1>6. \A other : OnTrack(other, g) <=> OnTrackNext(other, g) BY DEF OnTrack, OnTrackNext
<1>7. Shown(g)' BY <1>1, <1>2 DEF Shown, Sees, Idle
<1>8. ASSUME Kept(g) PROVE (Doomed(g) \/ Kept(g))'
  <2>1. CASE ~Claims(p, g)'
    BY <2>1, <1>2, <1>3, <1>4, <1>6, <1>8 DEF Kept, OnTrack, OnTrackNext
  <2>2. CASE Claims(p, g)' /\ \E q \in Procs \ {p} : Claims(q, g)
    BY <2>2, <1>3 DEF Kept
  <2>3. CASE Claims(p, g)' /\ \A q \in Procs \ {p} : ~Claims(q, g)
    <3>1. OnTrack(<<>>, g) BY <2>3, <1>4, <1>8 DEF Kept
    <3>2. CASE g \in stale'[p] BY <2>3, <3>2 DEF Doomed
    <3>3. CASE g \notin stale'[p]
      <4>1. ~Restoring(steps) BY <2>3, <1>2 DEF Claims
      <4>2. OnTrackNext(plan'[p], g) BY <3>1, <3>3, <4>1, <1>2, <1>6, OffersLead
      <4>3. \A q \in Procs : Claims(q, g)' => q = p BY <2>3, <1>3
      <4> QED BY <2>3, <4>2, <4>3 DEF Kept, OnTrack, OnTrackNext
    <3> QED BY <3>2, <3>3
  <2> QED BY <2>1, <2>2, <2>3
<1> QED BY <1>1, <1>5, <1>7, <1>8

\* Somebody who has no claim on g goes.
LEMMA Leaving ==
    ASSUME Typed, Settled, NEW p \in Procs, Forget(p), NEW g \in Groups \ spoiled, ~Claims(p, g),
           UNCHANGED <<cfg, lines, rules, missed, diverting, pure, stale>>
    PROVE  (Doomed(g) \/ Kept(g))' /\ Shown(g)'
<1>1. (Doomed(g) \/ Kept(g)) /\ Shown(g) BY DEF Settled
<1>2. plan'[p] = <<>> /\ seen'[p] = NoView /\ \A q \in Procs \ {p} : plan'[q] = plan[q] /\ seen'[q] = seen[q]
  BY DEF Typed, Forget
<1>3. \A q \in Procs : Claims(q, g)' <=> Claims(q, g) BY <1>2, NothingIsPlan DEF Claims, Pending
<1>4. Doomed(g) => Doomed(g)' BY <1>3 DEF Doomed
<1>5. \A other : OnTrack(other, g) <=> OnTrackNext(other, g) BY DEF OnTrack, OnTrackNext
<1>6. Shown(g)' BY <1>1, <1>2 DEF Shown, Idle, NoView
<1>7. Kept(g) => Kept(g)'
  <2>1. \A q \in Procs : Claims(q, g) => plan'[q] = plan[q] BY <1>2
  <2> QED BY <2>1, <1>3, <1>5 DEF Kept, OnTrack, OnTrackNext
<1> QED BY <1>1, <1>4, <1>6, <1>7

\* What the firewall has read stands, or it is known not to.
LEMMA Reading ==
    ASSUME Typed, ReadRight, NEW p \in Procs, plan[p] # <<>>, NEW step \in Head(plan[p]), NEW bad, Made(p, step, bad),
           "mode" \notin spoiled' \cup GroupsOf(step) => cfg'["firewall_area"] = cfg["firewall_area"],
           step.type = "fw_read" => copy[p] # NoFile /\ cfg' = cfg
    PROVE  ReadRight'
<1> DEFINE rest == Rest(plan[p], step)
           start == Do("fw_start", None)
           read == Do("fw_read", None)
<1>1. /\ plan' = [plan EXCEPT ![p] = rest]
      /\ copy' = [copy EXCEPT ![p] = IF step.type = "fw_read" THEN copy[p] ELSE NoFile]
      /\ stale' = [q \in Procs |-> IF q = p \/ Idle(q) THEN stale[q] ELSE stale[q] \cup GroupsOf(step)]
      /\ spoiled \subseteq spoiled'
  BY DEF Made, Rest
<1>2. /\ step \in Steps /\ step \in StepsOf(plan[p]) /\ StepsOf(rest) \subseteq StepsOf(plan[p])
      /\ StepsOf(plan[p]) \subseteq StepsOf(rest) \cup {step} /\ IsPlan(rest) /\ IsPlan(plan[p])
  BY Shortened DEF Typed
<1>3. /\ plan'[p] = rest /\ copy'[p] = IF step.type = "fw_read" THEN copy[p] ELSE NoFile
      /\ \A q \in Procs \ {p} : plan'[q] = plan[q] /\ copy'[q] = copy[q]
  BY <1>1 DEF Typed
<1>4. ASSUME NEW q \in Procs \ {p}, plan[q] # <<>>, "mode" \notin spoiled' \cup stale'[q]
      PROVE  cfg'["firewall_area"] = cfg["firewall_area"] /\ "mode" \notin spoiled \cup stale[q]
  <2>1. ~Idle(q) BY <1>4 DEF Typed
  <2> QED BY <1>1, <1>4, <2>1
<1>5. ASSUME NEW q \in Procs \ {p}
      PROVE  /\ plan'[q] = <<{start}>> => copy'[q] # NoFile
             /\ plan'[q] = <<>> => copy'[q] = NoFile
             /\ /\ plan'[q] \in {<<{start}>>, <<{read}, {start}>>} /\ copy'[q] # NoFile
                /\ "mode" \notin spoiled' \cup stale'[q]
                => copy'[q]["firewall_area"] = cfg'["firewall_area"]
  BY <1>3, <1>4 DEF ReadRight
<1> HIDE DEF rest
<1>6. /\ plan'[p] = <<{start}>> => copy'[p] # NoFile
      /\ plan'[p] = <<>> => copy'[p] = NoFile
      /\ /\ plan'[p] \in {<<{start}>>, <<{read}, {start}>>} /\ copy'[p] # NoFile
         /\ "mode" \notin spoiled' \cup stale'[p]
         => copy'[p]["firewall_area"] = cfg'["firewall_area"]
  <2>1. CASE step.type = "fw_read"
    <3>1. plan[p] = <<{read}, {start}>> BY <2>1, <1>2, FirewallIsLast
    <3>2. copy'[p] = copy[p] /\ copy[p] # NoFile /\ cfg' = cfg BY <2>1, <1>3
    <3>4. rest # <<>>
      <4>1. 2 \in DOMAIN plan[p] /\ plan[p][2] = {start} BY <3>1
      <4>2. start \in StepsOf(plan[p]) BY <4>1 DEF StepsOf
      <4> QED BY <4>2, <2>1, <1>2, StepTypes, NothingIsPlan
    <3>3. "mode" \notin spoiled' \cup stale'[p] => "mode" \notin spoiled \cup stale[p] BY <1>1
    <3> QED BY <3>1, <3>2, <3>3, <3>4, <1>3 DEF ReadRight
  <2>2. CASE step.type # "fw_read"
    <3>1. copy'[p] = NoFile BY <2>2, <1>3
    <3>2. rest # <<{start}>>
      <4> SUFFICES ASSUME rest = <<{start}>> PROVE FALSE OBVIOUS
      <4>1. StepsOf(rest) = {start} BY DEF StepsOf
      <4>2. start \in StepsOf(plan[p]) BY <4>1, <1>2
      <4>3. \/ plan[p] = <<{start}>> \/ plan[p] = <<{read}, {start}>>
            \/ \E f \in Puts : plan[p] = <<{Set(f)}, {read}, {start}>>
        BY <4>2, <1>2 DEF IsPlan, Orderly
      <4>4. CASE plan[p] = <<{start}>>
        <5>1. Head(plan[p]) \ {step} = {} /\ Tail(plan[p]) = <<>> BY <4>4
        <5>2. rest = <<>> BY <5>1 DEF rest, Rest
        <5> QED BY <5>2, <4>1, NothingIsPlan
      <4>5. CASE plan[p] = <<{read}, {start}>>
        <5>1. step = read BY <4>5
        <5> QED BY <5>1, <2>2, StepTypes
      <4>6. ASSUME NEW f \in Puts, plan[p] = <<{Set(f)}, {read}, {start}>> PROVE FALSE
        <5>1. step = Set(f) BY <4>6
        <5>2. read \in StepsOf(plan[p]) /\ read # step /\ read # start
          <6>1. 2 \in DOMAIN plan[p] /\ plan[p][2] = {read} BY <4>6
          <6>2. read \in StepsOf(plan[p]) BY <6>1 DEF StepsOf
          <6> QED BY <6>2, <5>1, StepTypes
        <5> QED BY <5>2, <4>1, <1>2
      <4> QED BY <4>3, <4>4, <4>5, <4>6
    <3> QED BY <3>1, <3>2, <1>3
  <2> QED BY <2>1, <2>2
<1> QED BY <1>5, <1>6 DEF ReadRight

\* Nothing that is offered starts the firewall unread.
LEMMA OffersRead ==
    ASSUME NEW view, IsView(view), NEW steps,
           \/ \E topic \in Topics : steps \in MenuPlans(view)[topic]
           \/ steps \in BotPlans(view)
    PROVE  steps # <<{Do("fw_start", None)}>>
<1> DEFINE start == Do("fw_start", None)
<1>1. ASSUME NEW a, NEW s \in a, s # start PROVE <<a>> # <<{start}>> BY <1>1
<1>2. \A a, b : <<a, b>> # <<{start}>> OBVIOUS
<1>3. \A a, b, c : <<a, b, c>> # <<{start}>> OBVIOUS
<1>4. \A f : Set(f) # start BY StepTypes
<1>5. ASSUME NEW key, NEW value PROVE \E s \in One(key, value) : s # start
  <2>1. Set([k \in {key} |-> value]) \in One(key, value) BY DEF One, Put
  <2> QED BY <2>1, <1>4
<1>6. ASSUME NEW topic \in Topics, steps \in MenuPlans(view)[topic] PROVE steps # <<{start}>>
  <2>0. topic \in {"mode", "ipv6", "tg", "po", "syno", "ssh", "rest"} BY SettingsAssumption, KeysAre
  <2>1. CASE topic = "mode"
    <3>1. \A mode : Redir(mode) # <<{start}>> BY <1>1, <1>2, <1>5 DEF Redir
    <3>2. \A mode : GatewayGuide(mode, TRUE) # <<{start}>> BY <1>3, Joined DEF GatewayGuide
    <3>3. ASSUME NEW mode PROVE GatewayGuide(mode, FALSE) # <<{start}>>
      <4>1. GatewayGuide(mode, FALSE) = <<One("redir_mod", mode) \cup One("firewall_area", "1")>>
        BY Joined DEF GatewayGuide
      <4>2. \E s \in One("redir_mod", mode) \cup One("firewall_area", "1") : s # start BY <1>5
      <4> QED BY <4>1, <4>2, <1>1
    <3>4. LocalGuide # <<{start}>> /\ Restart # <<{start}>> BY <1>2 DEF LocalGuide, Restart
    <3>5. \/ \E mode \in Modes : steps = Redir(mode)
          \/ \E mode \in {"Redir", "Mix"}, v6 \in BOOLEAN : steps = GatewayGuide(mode, v6)
          \/ steps = LocalGuide \/ steps = Restart
      BY <1>6, <2>1 DEF MenuPlans
    <3> QED BY <3>1, <3>2, <3>3, <3>4, <3>5
  <2>2. CASE topic \in {"ipv6", "tg", "po", "syno", "rest"}
    <3>1. Ipv6(view) # <<{start}>> BY <1>1, <1>2, <1>5 DEF Ipv6
    <3>2. \A g, first : Push(view, g, first) # <<{start}>> BY <1>2 DEF Push
    <3>3. ASSUME NEW user PROVE Syno(view, user) # <<{start}>>
      <4>1. <<One("push_SynoChat", user) \cup One("push_ChatURL", "ON")>> # <<{start}>>
        <5>1. \E s \in One("push_SynoChat", user) \cup One("push_ChatURL", "ON") : s # start BY <1>5
        <5> QED BY <5>1, <1>1
      <4> QED BY <4>1, <1>2 DEF Syno
    <3>4. \A value : <<One("rest", value)>> # <<{start}>> BY <1>1, <1>5
    <3>5. \/ steps = Ipv6(view) \/ steps = Push(view, "tg", "push_TG") \/ steps = Push(view, "po", "push_Po")
          \/ \E user \in {"ON", None} : steps = Syno(view, user)
          \/ \E value \in {"ON", None} : steps = <<One("rest", value)>>
      BY <1>6, <2>2 DEF MenuPlans
    <3> QED BY <3>1, <3>2, <3>3, <3>4, <3>5
  <2>3. CASE topic = "ssh"
    <3>1. \A port : OpenSsh(port) # <<{start}>> /\ CloseSsh(port) # <<{start}>> BY <1>2 DEF OpenSsh, CloseSsh
    <3>2. \A port : SetPort(view, port) # <<{start}>> BY <1>3, Joined DEF SetPort, CloseSsh
    <3> QED BY <1>6, <2>3, <3>1, <3>2 DEF MenuPlans
  <2> QED BY <2>0, <2>1, <2>2, <2>3
<1>7. ASSUME steps \in BotPlans(view) PROVE steps # <<{start}>>
  <2>1. Restart # <<{start}>> /\ StopRedir(view) # <<{start}>> BY <1>2 DEF Restart, StopRedir
  <2>2. StartRedir(view) # <<{start}>> BY <1>3 DEF StartRedir
  <2>3. BindPush # <<{start}>>
    <3>1. Set([k \in Group["tg"] |-> "ON"]) # start BY <1>4
    <3> QED BY <3>1, <1>1 DEF BindPush
  <2>4. <<{Do("restore", None)}>> # <<{start}>>
    <3>1. Do("restore", None) # start BY StepTypes
    <3> QED BY <3>1, <1>1
  <2> HIDE DEF start
  <2> QED BY <1>7, <2>1, <2>2, <2>3, <2>4 DEF BotPlans
<1> QED BY <1>6, <1>7

LEMMA SettledStep == ASSUME Typed, Settled, [Next]_vars PROVE Settled'
<1> IsFile(cfg) /\ cfg # NoFile BY FileIsSome DEF Typed
<1> \A p \in Procs : IsPlan(plan[p]) BY DEF Typed
\* A plan that is going on is not one to restore, unless its step is.
<1>0. ASSUME NEW p \in Procs, plan[p] # <<>>, NEW step \in Head(plan[p]), step.type # "restore"
      PROVE  ~Restoring(plan[p]) /\ step \in Steps /\ step \in StepsOf(plan[p])
  <2>1. Restoring(plan[p]) => plan[p] = <<{Do("restore", None)}>> BY DEF IsPlan, Orderly
  <2>2. plan[p] = <<{Do("restore", None)}>> => step = Do("restore", None) OBVIOUS
  <2> QED BY <1>0, <2>1, <2>2, StepTypes, Shortened
\* What else a plan that is going on says of its rest.
<1>r. ASSUME NEW p \in Procs, plan[p] # <<>>, NEW step \in Head(plan[p]), NEW bad, Made(p, step, bad)
      PROVE  /\ plan'[p] = Rest(plan[p], step) /\ StepsOf(plan'[p]) \subseteq StepsOf(plan[p])
             /\ StepsOf(plan[p]) \subseteq StepsOf(plan'[p]) \cup {step}
             /\ spoiled' = spoiled \cup bad \cup (stale[p] \cap GroupsOf(step))
  <2>1. plan'[p] = Rest(plan[p], step) BY <1>r DEF Made, Rest, Typed
  <2>2. spoiled' = spoiled \cup bad \cup (stale[p] \cap GroupsOf(step)) BY <1>r DEF Made
  <2> QED BY <1>r, <2>1, <2>2, Shortened
<1>1. ASSUME NEW p \in Procs, Look(p) PROVE Settled'
  <2>1. seen' = [seen EXCEPT ![p] = [cfg |-> cfg, lines |-> lines]] /\ stale' = [stale EXCEPT ![p] = {}]
    BY <1>1 DEF Look
  <2>2. /\ plan[p] = <<>>
        /\ UNCHANGED <<cfg, lines, rules, missed, diverting, saved, plan, copy, spoiled, pure>>
    BY <1>1 DEF Look
  <2>3. \A q \in Procs, g \in Groups : Claims(q, g) => q # p /\ Claims(q, g)'
    BY <2>2, NothingIsPlan DEF Claims, Pending
  <2>4. \A q \in Procs, g \in Groups : Claims(q, g)' <=> Claims(q, g) BY <2>2 DEF Claims, Pending
  <2>5. ASSUME NEW g \in Groups \ spoiled' PROVE (Doomed(g) \/ Kept(g))' /\ Shown(g)'
    <3>1. (Doomed(g) \/ Kept(g)) /\ Shown(g) BY <2>2, <2>5 DEF Settled
    <3>2. Doomed(g) => Doomed(g)' BY <2>1, <2>3, <2>4 DEF Doomed, Typed
    <3>3. Kept(g) => Kept(g)' BY <2>2, <2>4 DEF Kept, OnTrack
    <3>4. Shown(g)' BY <2>1, <2>2, <3>1 DEF Shown, Idle, Typed
    <3> QED BY <3>1, <3>2, <3>3, <3>4
  <2>6. ReadRight'
    <3>1. \A q \in Procs : plan[q] # <<>> => stale'[q] = stale[q] BY <2>1, <2>2 DEF Typed
    <3> QED BY <2>2, <3>1 DEF ReadRight, Settled
  <2>7. SavedGood' BY <2>2 DEF SavedGood, Settled
  <2> QED BY <2>5, <2>6, <2>7 DEF Settled
<1>2. ASSUME NEW p \in Procs, NEW view, IsView(view), plan[p] = <<>>, NEW steps,
             plan' = [plan EXCEPT ![p] = steps], seen'[p] = view,
             \A q \in Procs \ {p} : seen'[q] = seen[q] /\ stale'[q] = stale[q],
             \/ \E topic \in Topics : steps \in MenuPlans(view)[topic]
             \/ steps \in BotPlans(view),
             \A g \in Groups \ spoiled : g \notin stale'[p] => Sees(view, g),
             UNCHANGED <<cfg, lines, rules, missed, diverting, saved, copy, spoiled, pure>>
      PROVE  Settled'
  <2>1. ASSUME NEW g \in Groups \ spoiled' PROVE (Doomed(g) \/ Kept(g))' /\ Shown(g)'
    BY <1>2, <2>1, Planning
  <2>2. IsPlan(steps) BY <1>2, MenuOffersPlans, BotOffersPlans
  <2>3. ReadRight'
    <3>1. \A q \in Procs \ {p} : plan'[q] = plan[q] BY <1>2 DEF Typed
    <3>2. plan'[p] = steps BY <1>2 DEF Typed
    <3>3. steps # <<{Do("fw_start", None)}>> BY <1>2, OffersRead
    <3>4. copy[p] = NoFile BY <1>2 DEF ReadRight, Settled
    <3>5. steps = <<>> => copy'[p] = NoFile BY <1>2, <3>4
    <3> QED BY <1>2, <3>1, <3>2, <3>3, <3>4 DEF ReadRight, Settled
  <2>4. SavedGood' BY <1>2 DEF SavedGood, Settled
  <2> QED BY <1>2, <2>1, <2>3, <2>4 DEF Settled
<1>3. ASSUME NEW p \in Procs, Answer(p) PROVE Settled'
  <2>1. PICK topic \in Topics : \E steps \in MenuPlans(seen[p])[topic] : plan' = [plan EXCEPT ![p] = steps]
    BY <1>3 DEF Answer
  <2>2. PICK steps \in MenuPlans(seen[p])[topic] : plan' = [plan EXCEPT ![p] = steps] BY <2>1
  <2>3. plan[p] = <<>> /\ ~Idle(p) /\ IsView(seen[p]) BY <1>3 DEF Answer, Typed, Idle, NoView
  <2>4. \A g \in Groups \ spoiled : g \notin stale[p] => Sees(seen[p], g)
    BY <2>3 DEF Settled, Shown, Sees
  <2>5. seen' = seen /\ stale' = stale BY <1>3 DEF Answer
  <2> QED BY <1>2, <1>3, <2>2, <2>3, <2>4, <2>5 DEF Answer
<1>4. ASSUME NEW p \in Procs, Told(p) PROVE Settled'
  <2> DEFINE view == [cfg |-> cfg, lines |-> lines]
  <2>1. PICK steps \in BotPlans(view) : plan' = [plan EXCEPT ![p] = steps] BY <1>4 DEF Told
  <2>2. plan[p] = <<>> BY <1>4 DEF Told, Typed
  <2>3. IsView(view) BY DEF IsView, Typed
  <2>4. \A g : Sees(view, g) BY DEF Sees
  <2>5. seen' = [seen EXCEPT ![p] = view] BY <1>4 DEF Told
  <2>6. /\ seen'[p] = view
        /\ \A q \in Procs \ {p} : seen'[q] = seen[q] /\ stale'[q] = stale[q]
    BY <1>4, <2>5 DEF Told, Typed
  <2> HIDE DEF view
  <2> QED BY <1>2, <1>4, <2>1, <2>2, <2>3, <2>4, <2>5, <2>6 DEF Told
<1>5. ASSUME NEW p \in Procs, Read(p) PROVE Settled'
  <2>1. ASSUME NEW g \in Groups \ spoiled' PROVE (Doomed(g) \/ Kept(g))' /\ Shown(g)'
    <3>1. Untouched(g) BY <1>5 DEF Read, Untouched
    <3> QED BY <1>5, <2>1, <3>1, Standing DEF Read, Settled
  <2>2. ReadRight'
    <3>1. copy' = [copy EXCEPT ![p] = cfg] BY <1>5 DEF Read
    <3> QED BY <1>5, <3>1 DEF Read, ReadRight, Settled, Typed
  <2>3. SavedGood' BY <1>5 DEF Read, SavedGood, Settled
  <2> QED BY <2>1, <2>2, <2>3 DEF Settled
<1>6. ASSUME NEW p \in Procs, Write(p) PROVE Settled'
  <2> DEFINE bad(step) == {g \in Groups : \E k \in Group[g] \ DOMAIN step.put : cfg[k] # copy[p][k]}
  <2>1. PICK step \in Head(plan[p]) :
          /\ step.type = "set"
          /\ cfg' = [k \in Keys |-> IF k \in DOMAIN step.put THEN step.put[k] ELSE copy[p][k]]
          /\ Made(p, step, bad(step))
          /\ pure' = (pure /\ "firewall_area" \notin DOMAIN step.put)
    BY <1>6 DEF Write
  <2>2. plan[p] # <<>> /\ UNCHANGED <<lines, rules, missed, diverting, saved>> BY <1>6 DEF Write
  <2>3. ~Restoring(plan[p]) /\ step \in Steps /\ step \in StepsOf(plan[p]) BY <2>1, <2>2, <1>0
  <2>4. ASSUME NEW g \in Groups \ spoiled'
        PROVE  \A k \in Group[g] : cfg'[k] = IF k \in DOMAIN step.put THEN step.put[k] ELSE cfg[k]
    <3>1. g \notin bad(step) BY <2>1, <2>2, <2>4, <1>r
    <3>2. Group[g] \subseteq Keys BY KeysAre
    <3> QED BY <2>1, <3>1, <3>2
  <2>5. \A g \in Groups : g \in GroupsOf(step) <=> Group[g] \cap DOMAIN step.put # {} BY <2>1, <2>3, StepKinds
  <2>6. ASSUME NEW g \in Groups \ spoiled', g \notin GroupsOf(step) PROVE Untouched(g)
    <3>1. \A k \in Group[g] : cfg'[k] = cfg[k] BY <2>4, <2>5, <2>6
    <3>2. g = "mode" => "firewall_area" \notin DOMAIN step.put BY <2>5, <2>6 DEF Group
    <3> QED BY <2>1, <2>2, <3>1, <3>2 DEF Untouched, Typed
  <2>7. ASSUME NEW g \in Groups \ spoiled', OnTrack(plan[p], g) PROVE OnTrackNext(plan'[p], g)
    <3>1. /\ StepsOf(plan'[p]) \subseteq StepsOf(plan[p])
          /\ StepsOf(plan[p]) \subseteq StepsOf(plan'[p]) \cup {step}
      BY <2>1, <2>2, <1>r
    <3> QED BY <2>1, <2>2, <2>3, <2>4, <2>7, <3>1, WriteTrack
  <2>8. ASSUME NEW g \in Groups \ spoiled' PROVE (Doomed(g) \/ Kept(g))' /\ Shown(g)'
    <3> HIDE DEF bad
    <3> QED BY <2>1, <2>2, <2>3, <2>6, <2>7, <2>8, Stepping
  <2>9. ReadRight'
    <3>1. "mode" \notin spoiled' \cup GroupsOf(step) => cfg'["firewall_area"] = cfg["firewall_area"]
      <4>1. "mode" \in Groups /\ "firewall_area" \in Group["mode"] BY KeysAre DEF Group
      <4> QED BY <4>1, <2>6 DEF Untouched
    <3> HIDE DEF bad
    <3> QED BY <2>1, <2>2, <3>1, Reading DEF Settled
  <2>10. SavedGood' BY <2>2, <1>6 DEF SavedGood, Settled, Made
  <2> QED BY <2>8, <2>9, <2>10 DEF Settled
<1>7. ASSUME NEW p \in Procs, Ssh(p) PROVE Settled'
  <2>1. PICK step \in Head(plan[p]) :
          /\ step.type \in {"open", "close", "mark", "unmark"}
          /\ SshStep(step)
          /\ Made(p, step, {})
    BY <1>7 DEF Ssh, SshStep
  <2>2. plan[p] # <<>> /\ UNCHANGED <<cfg, diverting, saved, pure>> BY <1>7 DEF Ssh
  <2>3. ~Restoring(plan[p]) /\ step \in Steps /\ step \in StepsOf(plan[p]) BY <2>1, <2>2, <1>0
  <2>4. GroupsOf(step) = {"ssh"} BY <2>1, <2>3, KeysAre, StepKinds
  <2>5. ASSUME NEW g \in Groups, g \notin GroupsOf(step) PROVE Untouched(g)
    BY <2>2, <2>4, <2>5 DEF Untouched
  <2>6. ASSUME NEW g \in Groups, g \in GroupsOf(step), OnTrack(plan[p], g) PROVE OnTrackNext(plan'[p], g)
    <3>1. /\ StepsOf(plan'[p]) \subseteq StepsOf(plan[p])
          /\ StepsOf(plan[p]) \subseteq StepsOf(plan'[p]) \cup {step}
      BY <2>1, <2>2, <1>r
    <3>2. g = "ssh" BY <2>4, <2>6
    <3> QED BY <2>1, <2>2, <2>3, <2>6, <3>1, <3>2, SshTrack
  <2>7. ASSUME NEW g \in Groups \ spoiled' PROVE (Doomed(g) \/ Kept(g))' /\ Shown(g)'
    BY <2>1, <2>2, <2>3, <2>5, <2>6, <2>7, Stepping
  <2>8. ReadRight' BY <2>1, <2>2, Reading DEF Settled
  <2>9. SavedGood' BY <2>2 DEF SavedGood, Settled
  <2> QED BY <2>7, <2>8, <2>9 DEF Settled
<1>8. ASSUME NEW p \in Procs, Firewall(p) PROVE Settled'
  <2>1. PICK step \in Head(plan[p]) :
          /\ \/ step.type = "fw_read" /\ copy[p] # NoFile /\ UNCHANGED <<diverting, pure>>
             \/ step.type = "fw_start" /\ diverting' = (copy[p]["firewall_area"] # "4") /\ UNCHANGED pure
             \/ step.type = "fw_stop" /\ diverting' = FALSE /\ pure' = TRUE
          /\ Made(p, step, {})
    BY <1>8 DEF Firewall
  <2>2. plan[p] # <<>> /\ UNCHANGED <<cfg, lines, rules, missed, saved>> BY <1>8 DEF Firewall
  <2>3. ~Restoring(plan[p]) /\ step \in Steps /\ step \in StepsOf(plan[p])
    <3>1. step.type # "restore" BY <2>1
    <3> QED BY <3>1, <2>1, <2>2, <1>0
  <2>4. GroupsOf(step) = {"mode"} BY <2>1, <2>3, KeysAre, StepKinds
  <2>5. ASSUME NEW g \in Groups, g \notin GroupsOf(step) PROVE Untouched(g)
    BY <2>2, <2>4, <2>5 DEF Untouched
  <2>6. ASSUME NEW g \in Groups \ spoiled', g \in GroupsOf(step), OnTrack(plan[p], g) PROVE OnTrackNext(plan'[p], g)
    <3>1. /\ StepsOf(plan'[p]) \subseteq StepsOf(plan[p])
          /\ StepsOf(plan[p]) \subseteq StepsOf(plan'[p]) \cup {step}
          /\ spoiled' = spoiled \cup {} \cup (stale[p] \cap GroupsOf(step))
      BY <2>1, <2>2, <1>r
    <3>2. g = "mode" /\ "mode" \notin spoiled \cup stale[p] BY <2>4, <2>6, <3>1
    <3>3. step.type = "fw_start" => diverting' = (cfg["firewall_area"] # "4")
      <4> SUFFICES ASSUME step.type = "fw_start" PROVE diverting' = (cfg["firewall_area"] # "4") OBVIOUS
      <4>1. plan[p] = <<{Do("fw_start", None)}>> BY <2>1, <2>2, FirewallIsLast
      <4>2. copy[p]["firewall_area"] = cfg["firewall_area"] BY <3>2, <4>1 DEF Settled, ReadRight
      <4> QED BY <2>1, <4>2
    <3>4. step.type = "fw_stop" => plan[p] = <<{step}>> BY <2>1, <2>2, FirewallIsLast
    <3> QED BY <2>1, <2>2, <2>3, <2>6, <3>1, <3>2, <3>3, <3>4, FirewallTrack
  <2>7. ASSUME NEW g \in Groups \ spoiled' PROVE (Doomed(g) \/ Kept(g))' /\ Shown(g)'
    BY <2>1, <2>2, <2>3, <2>5, <2>6, <2>7, Stepping
  <2>8. ReadRight' BY <2>1, <2>2, Reading DEF Settled
  <2>9. SavedGood' BY <2>2 DEF SavedGood, Settled
  <2> QED BY <2>7, <2>8, <2>9 DEF Settled
<1>9. CASE Backup
  <2>1. ASSUME NEW g \in Groups \ spoiled' PROVE (Doomed(g) \/ Kept(g))' /\ Shown(g)'
    <3>1. Untouched(g) BY <1>9 DEF Backup, Untouched
    <3> QED BY <1>9, <2>1, <3>1, Standing DEF Backup, Settled
  <2>2. ReadRight' BY <1>9 DEF Backup, ReadRight, Settled
  <2>3. SavedGood'
    <3>1. saved'.file = cfg /\ saved'.bad = spoiled \cup UNION {ToDo(p) : p \in Procs} BY <1>9 DEF Backup
    <3>2. ASSUME NEW g \in Groups \ saved'.bad PROVE GoodFile(g, cfg)
      <4>1. g \in Sound BY <3>1, <3>2 DEF Sound
      <4> QED BY <4>1, SettledIsSound, Arrived
    <3> QED BY <3>1, <3>2 DEF SavedGood
  <2> QED BY <2>1, <2>2, <2>3 DEF Settled
<1>10. ASSUME NEW p \in Procs, Restore(p) PROVE Settled'
  <2> DEFINE bad == saved.bad \cup (IF lines # {} /\ Port(cfg) # Port(saved.file) THEN {"ssh"} ELSE {})
  <2>1. PICK step \in Head(plan[p]) : step.type = "restore" /\ cfg' = saved.file /\ Made(p, step, bad)
    BY <1>10 DEF Restore
  <2>2. plan[p] # <<>> /\ saved.file # NoFile /\ pure' = FALSE /\ UNCHANGED <<lines, rules, missed, diverting, saved>>
    BY <1>10 DEF Restore
  <2>3. step \in Steps /\ step \in StepsOf(plan[p]) BY <2>1, <2>2, Shortened
  <2>4. GroupsOf(step) = Groups BY <2>1, <2>3, KeysAre, StepKinds
  <2>5. ReadRight'
    <3>1. "mode" \in GroupsOf(step) BY <2>4, KeysAre
    <3>2. step.type # "fw_read" BY <2>1
    <3> HIDE DEF bad
    <3> QED BY <2>1, <2>2, <3>1, <3>2, Reading DEF Settled
  <2>6. plan'[p] = <<>> /\ seen'[p] = NoView
    <3>1. Restoring(plan[p]) BY <2>1, <2>3 DEF Restoring
    <3>2. plan[p] = <<{Do("restore", None)}>> BY <3>1 DEF IsPlan, Orderly
    <3>3. Head(plan[p]) \ {step} = {} /\ Tail(plan[p]) = <<>> BY <3>2
    <3> HIDE DEF bad
    <3>4. plan'[p] = Rest(plan[p], step) BY <2>1, <2>2, <1>r
    <3>5. plan'[p] = <<>> BY <3>3, <3>4 DEF Rest
    <3>6. seen'[p] = NoView BY <3>3, <2>1 DEF Made, Typed
    <3> QED BY <3>5, <3>6
  <2>7. ASSUME NEW g \in Groups \ spoiled' PROVE (Doomed(g) \/ Kept(g))' /\ Shown(g)'
    <3>1. g \notin spoiled /\ g \notin bad /\ g \notin stale[p] BY <2>1, <2>2, <2>4, <2>7, <1>r
    <3>2. \A q \in Procs \ {p} : plan'[q] = plan[q] /\ seen'[q] = seen[q] /\ (~Idle(q) => g \in stale'[q])
      BY <2>1, <2>4 DEF Made, Typed
    <3>3. \A q \in Procs \ {p} : Claims(q, g)' <=> Claims(q, g) BY <3>2 DEF Claims, Pending
    <3>4. ~Claims(p, g)' /\ ~Claims(p, g)
      BY <2>1, <2>3, <2>6, NothingIsPlan DEF Claims, Pending, Restoring
    <3>5. Shown(g)' BY <2>6, <3>2 DEF Shown, Idle, NoView
    <3>6. ASSUME NEW q \in Procs, Claims(q, g) PROVE Doomed(g)'
      <4>1. q # p /\ plan[q] # <<>> BY <3>4, <3>6, NothingIsPlan DEF Claims, Pending
      <4>2. ~Idle(q) BY <4>1 DEF Typed
      <4> QED BY <3>2, <3>3, <3>6, <4>1, <4>2 DEF Doomed
    <3>7. ASSUME \A q \in Procs : ~Claims(q, g) PROVE Kept(g)'
      <4>1. OnTrack(<<>>, g) BY <3>1, <3>7 DEF Settled, Doomed, Kept
      <4>2. GoodFile(g, cfg') BY <2>1, <2>2, <3>1 DEF Settled, SavedGood
      <4>3. g = "ssh" => rules' \ missed' = lines' \ missed' /\ lines' \subseteq {Port(cfg')} BY <4>1, <2>1, <2>2, <3>1, Arrived
      <4>4. OnTrackNext(<<>>, g) BY <4>2, <4>3, <2>2, ArrivedAt DEF OnTrackNext
      <4>5. \A q \in Procs : ~Claims(q, g)' BY <3>3, <3>4, <3>7
      <4> QED BY <4>4, <4>5 DEF Kept, OnTrack, OnTrackNext
    <3> QED BY <3>5, <3>6, <3>7
  <2>8. SavedGood' BY <2>2 DEF SavedGood, Settled
  <2> QED BY <2>5, <2>7, <2>8 DEF Settled
<1>11. ASSUME NEW p \in Procs, RestoreRefused(p) \/ Killed(p) PROVE Settled'
  <2>1. /\ Forget(p) /\ spoiled \subseteq spoiled'
        /\ UNCHANGED <<cfg, lines, rules, missed, diverting, saved, stale, pure>>
    BY <1>11 DEF RestoreRefused, Killed
  <2>2. ASSUME NEW g \in Groups \ spoiled' PROVE ~Claims(p, g)
    <3>1. CASE RestoreRefused(p)
      BY <3>1, StepTypes DEF RestoreRefused, Claims, Restoring, StepsOf
    <3>2. CASE Killed(p)
      <4>1. g \notin ToDo(p) BY <2>2, <3>2 DEF Killed
      <4> QED BY <4>1 DEF ToDo, Claims, Pending, StepsOf
    <3> QED BY <1>11, <3>1, <3>2
  <2>3. ASSUME NEW g \in Groups \ spoiled' PROVE (Doomed(g) \/ Kept(g))' /\ Shown(g)'
    BY <2>1, <2>2, <2>3, Leaving
  <2>4. ReadRight' BY <2>1 DEF Forget, ReadRight, Settled, Typed
  <2>5. SavedGood' BY <2>1 DEF SavedGood, Settled
  <2> QED BY <2>3, <2>4, <2>5 DEF Settled
<1>12. CASE Reload
  <2>1. /\ rules' \ missed' = lines \ missed' /\ spoiled \subseteq spoiled'
        /\ UNCHANGED <<cfg, lines, diverting, saved, seen, plan, copy, stale, pure>>
    BY <1>12 DEF Reload, Rebuilt
  <2>2. ASSUME NEW g \in Groups \ spoiled', g # "ssh" PROVE (Doomed(g) \/ Kept(g))' /\ Shown(g)'
    <3>1. Untouched(g) BY <2>1, <2>2 DEF Untouched
    <3> QED BY <2>1, <2>2, <3>1, Standing DEF Settled
  <2>3. ASSUME NEW g \in Groups \ spoiled', g = "ssh" PROVE (Doomed(g) \/ Kept(g))' /\ Shown(g)'
    <3>1. \A p \in Procs : g \notin ToDo(p) BY <2>3, <1>12 DEF Reload
    <3>2. g \in Sound BY <2>1, <2>3, <3>1 DEF Sound
    <3>3. OnTrack(<<>>, g) BY <3>2, SettledIsSound
    <3>4. OnTrackNext(<<>>, g) BY <2>1, <2>3, <3>3, Arrived, ArrivedAt DEF OnTrackNext
    <3>5. \A p \in Procs : ~Claims(p, g)' BY <2>1, <3>1 DEF ToDo, Claims, Pending, StepsOf
    <3>6. Kept(g)' BY <3>4, <3>5 DEF Kept, OnTrack, OnTrackNext
    <3>7. Shown(g)' BY <2>1, <2>3 DEF Shown, Settled, Idle
    <3> QED BY <3>6, <3>7
  <2>4. ReadRight' BY <2>1 DEF ReadRight, Settled
  <2>5. SavedGood' BY <2>1 DEF SavedGood, Settled
  <2> QED BY <2>2, <2>3, <2>4, <2>5 DEF Settled
<1>13. CASE Reboot
  <2>1. /\ \A p \in Procs : plan'[p] = <<>> /\ seen'[p] = NoView /\ copy'[p] = NoFile
        /\ UNCHANGED <<cfg, lines, saved, pure>> /\ rules' \ missed' = lines \ missed'
        /\ diverting' \in {FALSE, cfg["firewall_area"] # "4"}
        /\ spoiled' = spoiled \cup UNION {ToDo(p) : p \in Procs}
    BY <1>13 DEF Reboot, Rebuilt
  <2>2. ASSUME NEW g \in Groups \ spoiled' PROVE (Doomed(g) \/ Kept(g))' /\ Shown(g)'
    <3>1. g \in Sound BY <2>1, <2>2 DEF Sound
    <3>2. OnTrack(<<>>, g) BY <3>1, SettledIsSound
    <3>3. OnTrackNext(<<>>, g) BY <2>1, <3>2, Arrived, ArrivedAt DEF OnTrackNext
    <3>4. \A p \in Procs : ~Claims(p, g)' BY <2>1, NothingIsPlan DEF Claims, Pending
    <3>5. Kept(g)' BY <3>3, <3>4 DEF Kept, OnTrack, OnTrackNext
    <3>6. Shown(g)' BY <2>1 DEF Shown, Idle, NoView
    <3> QED BY <3>5, <3>6
  <2>3. ReadRight' BY <2>1 DEF ReadRight
  <2>4. SavedGood' BY <2>1 DEF SavedGood, Settled
  <2> QED BY <2>2, <2>3, <2>4 DEF Settled
<1>14. CASE UNCHANGED vars
  <2>1. UNCHANGED vars BY <1>14
  <2>2. ASSUME NEW g \in Groups \ spoiled' PROVE (Doomed(g) \/ Kept(g))' /\ Shown(g)'
    <3>1. Untouched(g) BY <2>1 DEF vars, Untouched
    <3> QED BY <2>1, <2>2, <3>1, Standing DEF vars, Settled
  <2>3. ReadRight' BY <2>1 DEF vars, ReadRight, Settled
  <2>4. SavedGood' BY <2>1 DEF vars, SavedGood, Settled
  <2> QED BY <2>2, <2>3, <2>4 DEF Settled
<1> QED
  BY <1>1, <1>3, <1>4, <1>5, <1>6, <1>7, <1>8, <1>9, <1>10, <1>11, <1>12, <1>13, <1>14 DEF Next, Step

\* Settled holds throughout.
LEMMA SettledHolds == Spec => []Settled
<1>1. Init => Settled
  <2> SUFFICES ASSUME Init PROVE Settled OBVIOUS
  <2>1. \A k \in Keys : cfg[k] = None BY DEF Init
  <2>2. ASSUME NEW g \in Groups PROVE OnTrack(<<>>, g)
    <3>1. None # Pure /\ None # "ON" BY SettingsAssumption DEF Modes
    <3>2. \A k \in Group[g] : cfg[k] = None BY <2>1, KeysAre
    <3>3. GoodFile(g, cfg) BY <3>1, <3>2 DEF GoodFile, Group
    <3> QED BY <3>3, Arrived DEF Init
  <2>3. \A p \in Procs : plan[p] = <<>> /\ seen[p] = NoView /\ copy[p] = NoFile BY DEF Init
  <2>4. \A g \in Groups : \A p \in Procs : ~Claims(p, g) BY <2>3, NothingIsPlan DEF Claims, Pending
  <2>5. \A g \in Groups : Kept(g) /\ Shown(g) BY <2>2, <2>3, <2>4 DEF Kept, Shown, Idle, NoView
  <2>6. ReadRight /\ SavedGood BY <2>3 DEF ReadRight, SavedGood, Init
  <2> QED BY <2>5, <2>6 DEF Settled
<1>2. Typed /\ Settled /\ [Next]_vars => Settled' BY SettledStep
<1>3. QED BY <1>1, <1>2, TypedHolds, PTL DEF Spec

\* Keys that belong together agree wherever nothing is under way about them and
\* no mishap was noted, in whatever order menus and bots write.
THEOREM KeysStayCoupled == Spec => []CoupledKeys
<1>1. Typed /\ Settled => CoupledKeys
  <2> SUFFICES ASSUME Typed, Settled PROVE CoupledKeys OBVIOUS
  <2>1. \A g \in Sound : GoodFile(g, cfg) BY SettledIsSound, Arrived DEF Sound
  <2> QED BY <2>1 DEF CoupledKeys, GoodFile, Together
<1>2. QED BY <1>1, TypedHolds, SettledHolds, PTL

\* SSH is open from outside exactly when, and where, the menu shows it.
THEOREM SshStaysAsShown == Spec => []SshAsShown
<1>1. Typed /\ Settled => SshAsShown
  <2> SUFFICES ASSUME Typed, Settled PROVE SshAsShown OBVIOUS
  <2>1. "ssh" \in Sound => OnTrack(<<>>, "ssh") BY SettledIsSound
  <2> QED BY <2>1, Arrived, KeysAre DEF SshAsShown
<1>2. QED BY <1>1, TypedHolds, SettledHolds, PTL

\* Once the bot has said that it switched to pure mode nothing is diverted.
THEOREM PureStays == Spec => []PureHolds
<1>1. Typed /\ Settled => PureHolds
  <2> SUFFICES ASSUME Typed, Settled PROVE PureHolds OBVIOUS
  <2>1. "mode" \in Sound => OnTrack(<<>>, "mode") BY SettledIsSound
  <2> QED BY <2>1, Arrived, KeysAre DEF PureHolds
<1>2. QED BY <1>1, TypedHolds, SettledHolds, PTL
=============================================================================
