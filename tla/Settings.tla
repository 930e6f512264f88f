------------------------------ MODULE Settings ------------------------------
(***************************************************************************)
(* Settings that take more than one write.  The settings menus             *)
(* (settingsctl), the tool menus (toolsctl), the Telegram bot and the      *)
(* tasks all rewrite ShellCrash.cfg whole: each key, or few keys, in one   *)
(* read and one write, without a lock.  What an operation means by several *)
(* keys, or by a key and a rule of the firewall, it writes one after the   *)
(* other, and others, a signal or a restored backup may come in between.   *)
(*                                                                         *)
(* An operation is a plan: a sequence of sets of steps.  The steps of one  *)
(* set are made in any order (the code ranges over a map), the sets one    *)
(* after another.  Keys that belong together form a group.                 *)
(***************************************************************************)
EXTENDS Naturals, Sequences

CONSTANTS
    Menus,          \* processes that show the settings and then change them
    Bots,           \* processes that look only when they act
    Topics,         \* groups that operations are about, of Groups
    SshPorts,       \* ports looked at for SSH from outside
    DefaultPort,    \* 10022, used while ssh_port is not set
    MaxOps,         \* bound on the operations begun and backups taken
    None            \* no value, no port

Procs == Menus \cup Bots
Group == [mode |-> {"redir_mod", "redir_mod_bf", "firewall_area"},
          ipv6 |-> {"ipv6_redir", "ipv6_support"},
          tg   |-> {"push_TG", "chat_ID"},
          po   |-> {"push_Po", "push_Po_key"},
          syno |-> {"push_SynoChat", "push_ChatURL"},   \* token and user id: as the URL
          ssh  |-> {"ssh_port"},
          rest |-> {"rest"}]        \* every setting nothing else depends on
Groups == DOMAIN Group
Keys == UNION {Group[g] : g \in Groups}
Pure == "Pure"                      \* redir_mod of the pure mode
Modes == {"Redir", "Mix", Pure}     \* Mix for Mix, Tproxy and Tun
Areas == {"1", "2", "4"}
ValuesOf(key) ==
    {None} \cup CASE key \in {"redir_mod", "redir_mod_bf"} -> Modes
                   [] key = "firewall_area" -> Areas
                   [] key = "ssh_port" -> SshPorts
                   [] OTHER -> {"ON"}

ASSUME SettingsAssumption ==
    /\ Menus \cap Bots = {} /\ Topics \subseteq Groups
    /\ MaxOps \in Nat /\ DefaultPort \in SshPorts
    /\ None \notin SshPorts /\ None \notin Modes \cup Areas \cup {"ON"}

VARIABLES
    cfg,        \* ShellCrash.cfg
    lines,      \* ports with a marked line in firewall.user
    rules,      \* ports with a rule that redirects them to SSH
    missed,     \* history: ports for which iptables has failed since the device's firewall was built
    diverting,  \* the firewall is up and diverts traffic
    saved,      \* the backup the operator keeps: [file, bad]
    seen,       \* what each process has shown or read: [cfg, lines]
    plan,       \* the steps each process has still to make
    copy,       \* the file as read for the step under way, or NoFile
    stale,      \* history: groups others have changed since a process looked
    spoiled,    \* history: groups a mishap has befallen
    pure,       \* history: the bot has said that it switched to pure mode
    ops         \* history: operations begun so far

vars == <<cfg, lines, rules, missed, diverting, saved, seen, plan, copy, stale, spoiled, pure, ops>>

NoFile == [k \in {} |-> None]

-----------------------------------------------------------------------------
\* Steps and plans.

Set(put) == [type |-> "set", put |-> put, port |-> None]
Do(type, port) == [type |-> type, put |-> NoFile, port |-> port]
Put(keys, value) == {Set([k \in {key} |-> value]) : key \in keys}
One(key, value) == Put({key}, value)
GroupsOf(step) ==
    CASE step.type = "set" -> {g \in Groups : Group[g] \cap DOMAIN step.put # {}}
      [] step.type = "restore" -> Groups
      [] step.type \in {"open", "close", "mark", "unmark"} -> {"ssh"}
      [] OTHER -> {"mode"}
ToDo(p) == UNION {UNION {GroupsOf(s) : s \in plan[p][i]} : i \in DOMAIN plan[p]}

OrElse(value, default) == IF value = None THEN default ELSE value
Port(file) == OrElse(file["ssh_port"], DefaultPort)

\* Mutant of Redir: pure mode is the choice of redir_mod alone.
RedirAlone(mode) == <<One("redir_mod", mode)>>
\* runRedirMenu: the pure mode is also an area of the firewall.
Redir(mode) ==
    IF mode = Pure THEN <<One("redir_mod", Pure), One("firewall_area", "4")>>
                   ELSE <<One("redir_mod", mode)>>
\* applyGatewayGuideProfile (a map, in any order), applyLocalProxyGuideProfile.
GatewayGuide(mode, v6) ==
    <<One("redir_mod", mode) \cup One("firewall_area", "1")>>
    \o IF v6 THEN <<One("ipv6_redir", "ON"), One("ipv6_support", "ON")>> ELSE <<>>
LocalGuide == <<One("redir_mod", "Redir"), One("firewall_area", "2")>>

\* Mutant of StopRedir: the firewall is stopped, its area kept.
StopRedirOnce(view) ==
    <<{Set([k \in {"redir_mod_bf"} |-> OrElse(view.cfg["redir_mod"], "Redir")])}, {Do("fw_stop", None)}>>
\* The bot's stop_redir, outside pure mode.
StopRedir(view) ==
    <<{Set([k \in {"redir_mod_bf", "firewall_area"} |->
            IF k = "firewall_area" THEN "4" ELSE OrElse(view.cfg["redir_mod"], "Redir")])},
      {Do("fw_stop", None)}>>
\* Mutant of StartRedir: the mode kept is read from another key.
StartRedirArea(view) == <<One("redir_mod", view.cfg["firewall_area"]), {Do("fw_read", None)}, {Do("fw_start", None)}>>
\* Its start_redir, in pure mode.
StartRedir(view) ==
    <<One("redir_mod", OrElse(view.cfg["redir_mod_bf"], "Redir")), {Do("fw_read", None)}, {Do("fw_start", None)}>>
Restart == <<{Do("fw_read", None)}, {Do("fw_start", None)}>>

\* runIPv6MenuWithReader: forwarding switches the support on, never off.
Ipv6(view) ==
    IF view.cfg["ipv6_redir"] = "ON" THEN <<One("ipv6_redir", None)>>
    ELSE <<One("ipv6_redir", "ON"), One("ipv6_support", "ON")>>

\* handleProviderToggle, handlePushover: the provider shown as off is switched
\* on, with both its keys, or the other way round.
Push(view, g, first) ==
    LET value == IF view.cfg[first] = "ON" THEN None ELSE "ON" IN
    <<One(first, value), Put(Group[g] \ {first}, value)>>
\* handleSynoChat: switched on in any order, and with whatever was entered as
\* the user id, by which the menu tells whether it is on.
Syno(view, user) ==
    IF view.cfg["push_SynoChat"] = "ON" THEN <<One("push_SynoChat", None), One("push_ChatURL", None)>>
    ELSE <<One("push_SynoChat", user) \cup One("push_ChatURL", "ON")>>
\* The bot's binding dialog writes both keys at once.
BindPush == <<{Set([k \in Group["tg"] |-> "ON"])}>>

\* enableSSHExternal, disableSSHExternal.
OpenSsh(port) == <<{Do("open", port)}, {Do("mark", port)}>>
CloseSsh(port) == <<{Do("close", port)}, {Do("unmark", None)}>>
\* Mutant of SetPort: the rule of the new port is looked for.
SetPortNew(view, port) == <<One("ssh_port", port)>> \o CloseSsh(port)
\* handleSetPort: the new port is saved, then the old one closed.
SetPort(view, port) == <<One("ssh_port", port)>> \o CloseSsh(Port(view.cfg))

\* What the menus offer, by topic, from what they have shown.
MenuPlans(view) ==
    [mode |-> {Redir(mode) : mode \in Modes}
              \cup {GatewayGuide(mode, v6) : mode \in {"Redir", "Mix"}, v6 \in {x \in BOOLEAN : x => "ipv6" \in Topics}}
              \cup {LocalGuide, Restart},
     ipv6 |-> {Ipv6(view)},
     tg   |-> {Push(view, "tg", "push_TG")},
     po   |-> {Push(view, "po", "push_Po")},
     syno |-> {Syno(view, user) : user \in {"ON", None}},
     ssh  |-> {SetPort(view, port) : port \in SshPorts}
              \cup {IF view.lines = {} THEN OpenSsh(Port(view.cfg)) ELSE CloseSsh(Port(view.cfg))},
     rest |-> {<<One("rest", value)>> : value \in {"ON", None}}]
BotPlans(view) ==
    (IF "mode" \notin Topics THEN {}
     ELSE {Restart, IF view.cfg["firewall_area"] = "4" THEN StartRedir(view) ELSE StopRedir(view)})
    \cup (IF "tg" \in Topics THEN {BindPush} ELSE {})
    \cup {<<{Do("restore", None)}>>}

-----------------------------------------------------------------------------
Idle(p) == seen[p].cfg = NoFile
NoView == [cfg |-> NoFile, lines |-> {}]
Forget(p) == /\ seen' = [seen EXCEPT ![p] = NoView]
             /\ plan' = [plan EXCEPT ![p] = <<>>]
             /\ copy' = [copy EXCEPT ![p] = NoFile]

\* A menu shows its state.
Look(p) ==
    /\ p \in Menus /\ plan[p] = <<>>
    /\ seen' = [seen EXCEPT ![p] = [cfg |-> cfg, lines |-> lines]]
    /\ stale' = [stale EXCEPT ![p] = {}]
    /\ UNCHANGED <<cfg, lines, rules, missed, diverting, saved, plan, copy, spoiled, pure, ops>>
\* The operator's answer, much later.
Answer(p) ==
    /\ p \in Menus /\ plan[p] = <<>> /\ ~Idle(p) /\ ops < MaxOps
    /\ \E g \in Topics : \E steps \in MenuPlans(seen[p])[g] : plan' = [plan EXCEPT ![p] = steps]
    /\ ops' = ops + 1
    /\ UNCHANGED <<cfg, lines, rules, missed, diverting, saved, seen, copy, stale, spoiled, pure>>
\* The bot reads the settings when it is told to do something.
Told(p) ==
    /\ p \in Bots /\ Idle(p) /\ ops < MaxOps
    /\ LET view == [cfg |-> cfg, lines |-> lines] IN
       /\ seen' = [seen EXCEPT ![p] = view]
       /\ \E steps \in BotPlans(view) : plan' = [plan EXCEPT ![p] = steps]
    /\ stale' = [stale EXCEPT ![p] = {}]
    /\ ops' = ops + 1
    /\ UNCHANGED <<cfg, lines, rules, missed, diverting, saved, copy, spoiled, pure>>

\* setCfgValue and setConfigValues, first half; firewall.Start reads the
\* settings too, before it installs a rule.
Read(p) ==
    /\ plan[p] # <<>> /\ copy[p] = NoFile
    /\ \E step \in Head(plan[p]) : step.type \in {"set", "fw_read"}
    /\ copy' = [copy EXCEPT ![p] = cfg]
    /\ UNCHANGED <<cfg, lines, rules, missed, diverting, saved, seen, plan, stale, spoiled, pure, ops>>

\* p has made step; bad are the groups this has spoiled beyond a crossing.
Made(p, step, bad) ==
    LET left == Head(plan[p]) \ {step}
        next == IF left = {} THEN Tail(plan[p]) ELSE <<left>> \o Tail(plan[p]) IN
    /\ plan' = [plan EXCEPT ![p] = next]
    /\ copy' = [copy EXCEPT ![p] = IF step.type = "fw_read" THEN copy[p] ELSE NoFile]
    /\ seen' = [seen EXCEPT ![p] = IF next = <<>> THEN NoView ELSE seen[p]]
    /\ stale' = [q \in Procs |-> IF q = p \/ Idle(q) THEN stale[q] ELSE stale[q] \cup GroupsOf(step)]
    /\ spoiled' = spoiled \cup bad \cup (stale[p] \cap GroupsOf(step))

\* The second half.  What others wrote in between is lost.
Write(p) ==
    /\ plan[p] # <<>> /\ copy[p] # NoFile
    /\ \E step \in Head(plan[p]) :
        /\ step.type = "set"
        /\ cfg' = [k \in Keys |-> IF k \in DOMAIN step.put THEN step.put[k] ELSE copy[p][k]]
        /\ Made(p, step, {g \in Groups : \E k \in Group[g] \ DOMAIN step.put : cfg[k] # copy[p][k]})
        /\ pure' = (pure /\ "firewall_area" \notin DOMAIN step.put)
    /\ UNCHANGED <<lines, rules, missed, diverting, saved, ops>>

\* iptables -A or -D, whose error nobody looks at.  Of a rule that is there
\* twice, as after a -D that failed, -D removes one.
Iptables(type, port) ==
    LET after == IF type = "open" THEN rules \cup {port} ELSE rules \ {port} IN
    /\ rules' \in {rules, after}
    /\ missed' = IF rules' = after THEN missed ELSE missed \cup {port}

\* One command of iptables, one edit of firewall.user.
Ssh(p) ==
    /\ plan[p] # <<>>
    /\ \E step \in Head(plan[p]) :
        /\ \/ /\ step.type \in {"open", "close"}
              /\ Iptables(step.type, step.port) /\ UNCHANGED lines
           \/ /\ step.type \in {"mark", "unmark"}
              /\ lines' = IF step.type = "mark" THEN lines \cup {step.port} ELSE {}
              /\ UNCHANGED <<rules, missed>>
        /\ Made(p, step, {})
    /\ UNCHANGED <<cfg, diverting, saved, pure, ops>>

\* firewall.Start and firewall.Stop: in area 4 nothing is diverted.
Firewall(p) ==
    /\ plan[p] # <<>>
    /\ \E step \in Head(plan[p]) :
        \/ /\ step.type = "fw_read" /\ copy[p] # NoFile
           /\ UNCHANGED <<diverting, pure>> /\ Made(p, step, {})
        \/ /\ step.type = "fw_start"
           /\ diverting' = (copy[p]["firewall_area"] # "4")
           /\ UNCHANGED pure /\ Made(p, step, {})
        \/ /\ step.type = "fw_stop"
           /\ diverting' = FALSE /\ pure' = TRUE /\ Made(p, step, {})
    /\ UNCHANGED <<cfg, lines, rules, missed, saved, ops>>

\* The archive of configs, taken at any moment; put back over the files there.
Backup ==
    /\ ops < MaxOps /\ ops' = ops + 1
    /\ saved' = [file |-> cfg, bad |-> spoiled \cup UNION {ToDo(p) : p \in Procs}]
    /\ UNCHANGED <<cfg, lines, rules, missed, diverting, seen, plan, copy, stale, spoiled, pure>>
Restore(p) ==
    /\ plan[p] # <<>> /\ saved.file # NoFile
    /\ \E step \in Head(plan[p]) :
        /\ step.type = "restore"
        /\ cfg' = saved.file
        /\ Made(p, step, saved.bad \cup (IF lines # {} /\ Port(cfg) # Port(saved.file) THEN {"ssh"} ELSE {}))
    /\ pure' = FALSE
    /\ UNCHANGED <<lines, rules, missed, diverting, saved, ops>>

\* The file the operator sent was no backup.
RestoreRefused(p) ==
    /\ plan[p] = <<{Do("restore", None)}>> /\ Forget(p)
    /\ UNCHANGED <<cfg, lines, rules, missed, diverting, saved, stale, spoiled, pure, ops>>
\* The terminal is closed, the bot killed.
Killed(p) ==
    /\ plan[p] # <<>> /\ Forget(p) /\ spoiled' = spoiled \cup ToDo(p)
    /\ UNCHANGED <<cfg, lines, rules, missed, diverting, saved, stale, pure, ops>>
\* The device's firewall is built anew, from firewall.user, whose commands may
\* fail as well.
Rebuilt == rules' \in SUBSET lines /\ missed' = lines \ rules'
Reload ==
    /\ Rebuilt
    /\ spoiled' = spoiled \cup (IF \E p \in Procs : "ssh" \in ToDo(p) THEN {"ssh"} ELSE {})
    /\ UNCHANGED <<cfg, lines, diverting, saved, seen, plan, copy, stale, pure, ops>>
Reboot ==
    /\ Rebuilt /\ diverting' \in {FALSE, cfg["firewall_area"] # "4"}
    /\ seen' = [p \in Procs |-> NoView] /\ plan' = [p \in Procs |-> <<>>] /\ copy' = [p \in Procs |-> NoFile]
    /\ spoiled' = spoiled \cup UNION {ToDo(p) : p \in Procs}
    /\ UNCHANGED <<cfg, lines, saved, stale, pure, ops>>

Init ==
    /\ cfg = [k \in Keys |-> None]
    /\ lines = {} /\ rules = {} /\ missed = {} /\ diverting = FALSE
    /\ saved = [file |-> NoFile, bad |-> {}]
    /\ seen = [p \in Procs |-> NoView] /\ plan = [p \in Procs |-> <<>>] /\ copy = [p \in Procs |-> NoFile]
    /\ stale = [p \in Procs |-> {}] /\ spoiled = {} /\ pure = FALSE /\ ops = 0

Step(p) ==
    \/ Look(p) \/ Answer(p) \/ Told(p) \/ Read(p) \/ Write(p) \/ Ssh(p) \/ Firewall(p)
    \/ Restore(p) \/ RestoreRefused(p) \/ Killed(p)
Next == (\E p \in Procs : Step(p)) \/ Backup \/ Reload \/ Reboot
Spec == Init /\ [][Next]_vars

-----------------------------------------------------------------------------
\* Properties.

\* As \in [key \in Keys -> ValuesOf(key)], without enumerating it.
IsFile(file) == DOMAIN file = Keys /\ \A key \in Keys : file[key] \in ValuesOf(key)
TypeOK ==
    /\ IsFile(cfg) /\ lines \subseteq SshPorts /\ rules \subseteq SshPorts /\ missed \subseteq SshPorts
    /\ diverting \in BOOLEAN /\ pure \in BOOLEAN /\ ops \in 0 .. MaxOps
    /\ (saved.file = NoFile \/ IsFile(saved.file)) /\ saved.bad \subseteq Groups
    /\ \A p \in Procs :
        /\ DOMAIN seen[p].cfg \in {{}, Keys} /\ seen[p].lines \subseteq SshPorts
        /\ DOMAIN copy[p] \in {{}, Keys}
        /\ \A i \in DOMAIN plan[p] : plan[p][i] # {} /\ \A s \in plan[p][i] : DOMAIN s.put \subseteq Keys
    /\ stale \in [Procs -> SUBSET Groups] /\ spoiled \subseteq Groups

\* The groups in which nothing is half done and nothing has gone wrong: no
\* operation about them is under way, none was cut short, none crossed another
\* about the same group, and no write about another group undid one of theirs.
Sound == Groups \ (spoiled \cup UNION {ToDo(p) : p \in Procs})

Together(g) == \A j, k \in Group[g] : cfg[j] = cfg[k]
\* Keys that belong together agree, however operations about different groups
\* interleave: redir_mod is pure only in area 4, and the mode kept for later is
\* not the pure one; IPv6 forwarding is on only with IPv6 support; a push
\* service has both its keys or none, and SynoChat is not on without its URL.
CoupledKeys ==
    /\ "mode" \in Sound => /\ cfg["redir_mod"] = Pure => cfg["firewall_area"] = "4"
                           /\ cfg["redir_mod_bf"] # Pure
    /\ "ipv6" \in Sound => (cfg["ipv6_redir"] = "ON" => cfg["ipv6_support"] = "ON")
    /\ \A g \in {"tg", "po"} : g \in Sound => Together(g)
    /\ "syno" \in Sound => (cfg["push_SynoChat"] = "ON" => cfg["push_ChatURL"] = "ON")

\* SSH is open from outside exactly when the menu says so, and at the port it
\* says: firewall.user, which the menu shows and a reload applies, the rules and
\* ssh_port agree.  Not so for a port whose command has failed: firewall.user
\* is written all the same, so the menu is wrong about it until the device
\* builds its firewall anew.
SshAsShown == "ssh" \in Sound => rules \ missed = lines \ missed /\ lines \subseteq {Port(cfg)}

\* Once the bot has answered that it switched to pure mode nothing is diverted,
\* whoever restarts the service or changes the mode, until somebody sets the
\* firewall's area or restores a backup.
PureHolds == pure /\ "mode" \in Sound => ~diverting
=============================================================================
