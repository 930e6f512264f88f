------------------------------ MODULE Gateway ------------------------------
(***************************************************************************)
(* The access-control settings: public firewall, inbound nodes, Tailscale, *)
(* WireGuard, common ports, LAN filters (gatewayctl).  Their keys lie in   *)
(* two files that every process rewrites whole and without a lock.  A menu *)
(* shows what it loaded, waits for an answer for as long as the operator   *)
(* likes, and then computes the new value from what it had shown; the file *)
(* itself is read once more just before it is written.                     *)
(*                                                                         *)
(* A value is the set of the items it lists: {} when the key is missing,   *)
(* one item for a switch or a field.  An empty value deletes its key.      *)
(***************************************************************************)
EXTENDS Naturals, FiniteSets

CONSTANTS
    Menus,          \* processes that edit the settings
    Ports,          \* ports looked at
    DefaultPorts,   \* defaultMultiport, as far as looked at
    OldPorts,       \* oldDefaultMultiport
    MaxWan,         \* at most so many ports opened by hand (10 in the code)
    MaxCommon,      \* at most so many common ports (15 in the code)
    Devices,        \* MAC or IP entries of the LAN filter
    Topics,         \* the menus looked at, of AllTopics
    Legacy,         \* keys an older version may have left in ShellCrash.cfg,
    LegacyGw,       \* and in gateway.cfg, where they are read but not written
    MaxAnswers      \* bound on the answers given in one behaviour

AllTopics == {"wan", "common", "hosts", "flags", "vmess", "ss", "ts", "wg", "lan"}

\* Keys by the file gatewayctl writes them to.
PortKeys == {"vms_port", "sss_port"}
Fields == [vmess |-> {"vms_port", "vms_uuid"}, ss |-> {"sss_port", "sss_cipher", "sss_pwd"},
           ts |-> {"ts_auth_key"}, wg |-> {"wg_keys"}]
Services == DOMAIN Fields
SwitchOf == [vmess |-> "vms_service", ss |-> "sss_service", ts |-> "ts_service", wg |-> "wg_service"]
GwKeys == (UNION {Fields[s] : s \in Services}) \cup {SwitchOf[s] : s \in Services}
MainKeys == {"fw_wan", "fw_wan_ports", "common_ports", "multiport", "hosts"}
Keys == GwKeys \cup MainKeys
LanLists == {"mac", "ip"}

\* Ciphers of one key length each; the plain ones take any password.
Ciphers == {"plain", "2022-16", "2022-32"}
Blake3 == {"2022-16", "2022-32"}
PwdOf(c) == IF c = "2022-32" THEN "random32" ELSE "random16"
Items == {"ON", "OFF", "set", "typed", "random16", "random32"} \cup Ciphers \cup Ports \cup Devices

ASSUME GatewayAssumption ==
    /\ DefaultPorts \subseteq Ports /\ OldPorts \subseteq Ports
    /\ IsFiniteSet(Ports)
    /\ MaxWan \in Nat /\ MaxCommon \in Nat /\ MaxAnswers \in Nat
    /\ Cardinality(DefaultPorts) <= MaxCommon /\ Cardinality(OldPorts) <= MaxCommon
    /\ Topics \subseteq AllTopics
    /\ Legacy \subseteq GwKeys /\ LegacyGw \subseteq {"fw_wan", "fw_wan_ports"}

VARIABLES
    files,      \* gateway.cfg, ShellCrash.cfg; configs/mac and configs/ip_filter
    snap,       \* the files as each menu loaded them (LoadState)
    copy,       \* the file to be written, as read before its write
    todo,       \* the change under way: which file, which keys get which values
    pc,         \* each menu: loading, at its prompt, between read and write
    behind,     \* history: menus whose data another has written over since
    overlapped, \* history: such a menu has written
    answers     \* history: answers given so far

vars == <<files, snap, copy, todo, pc, behind, overlapped, answers>>

File == [Keys -> SUBSET Items]
Lan == [LanLists -> SUBSET Devices]
Files == [gw : File, main : File, lan : Lan]
Change == [file : {"gw", "main", "lan"}, keys : SUBSET (Keys \cup LanLists), value : SUBSET Items, pwd : SUBSET Items]
Nothing == [file |-> "gw", keys |-> {}, value |-> {}, pwd |-> {}]

-----------------------------------------------------------------------------
\* LoadState: gateway.cfg first, then ShellCrash.cfg.
Get(fs, k) == IF k \in MainKeys \ {"fw_wan", "fw_wan_ports"} \/ fs.gw[k] = {} THEN fs.main[k] ELSE fs.gw[k]
On(fs, k) == IF k = "fw_wan" \/ k = "common_ports" THEN Get(fs, k) # {"OFF"} ELSE Get(fs, k) = {"ON"}
\* Mutant of Flip: the switch is written in lower case.
FlipLower(fs, k) == IF On(fs, k) THEN {"off"} ELSE {"on"}
Flip(fs, k) == IF On(fs, k) THEN {"OFF"} ELSE {"ON"}
Effective(fs) == IF fs.main["multiport"] = {} THEN DefaultPorts ELSE fs.main["multiport"]
Ready(fs, s) == \A k \in Fields[s] : Get(fs, k) # {}

To(k) == IF k \in GwKeys THEN "gw" ELSE "main"
Put(k, v) == [file |-> To(k), keys |-> {k}, value |-> v, pwd |-> {}]

-----------------------------------------------------------------------------
\* What the operator may answer, each from the files the menu has shown.

\* Mutant of WanAnswers: the count is not looked at.
WanUncounted(fs) ==
    LET ports == Get(fs, "fw_wan_ports") IN
    {Put("fw_wan_ports", ports \cup {p}) : p \in Ports \ ports}
\* RunFirewallMenu.  Closing the firewall may still be declined.
WanAnswers(fs) ==
    LET ports == Get(fs, "fw_wan_ports") IN
    {Put("fw_wan", v) : v \in IF On(fs, "fw_wan") THEN {{"ON"}, {"OFF"}} ELSE {{"ON"}}}
    \cup {Put("fw_wan_ports", ports \cup {p}) : p \in IF Cardinality(ports) >= MaxWan THEN {} ELSE Ports \ ports}
    \cup {Put("fw_wan_ports", ports \ {p}) : p \in ports}
    \cup {Put("fw_wan_ports", {})}

\* RunCommonPortsMenu: adding and removing start from the ports in effect.
CommonAnswers(fs) ==
    LET ports == Effective(fs) IN
    {Put("common_ports", Flip(fs, "common_ports")), Put("multiport", {}), Put("multiport", OldPorts)}
    \cup {Put("multiport", ports \cup {p}) : p \in IF Cardinality(ports) >= MaxCommon THEN {} ELSE Ports \ ports}
    \cup {Put("multiport", ports \ {p}) : p \in ports}

\* RunCustomHostIPv4Menu and RunReserveIPv4Menu: networks added one by one, or
\* given anew, or cleared.
HostAnswers(fs) ==
    {Put("hosts", {})} \cup {Put("hosts", fs.main["hosts"] \cup {d}) : d \in Devices}

\* quic_rj, cn_ip_route, macfilter_type, replace_default_host_ipv4,
\* TG_menupush: switches nothing else depends on, common_ports for one.
FlagAnswers(fs) == {Put("common_ports", Flip(fs, "common_ports"))}

\* The service's switch.  vmess and ss can be switched off at any time, ts and
\* wg only while their fields are filled in.
ServiceAnswers(fs, s) ==
    {Put(SwitchOf[s], v) : v \in
        IF Ready(fs, s) \/ (s \in {"vmess", "ss"} /\ On(fs, SwitchOf[s])) THEN {Flip(fs, SwitchOf[s])} ELSE {}}

FieldAnswers(fs, s) ==
    {Put(k, v) : k \in Fields[s] \ (PortKeys \cup {"sss_cipher", "sss_pwd"}), v \in {{}, {"set"}}}
    \cup {Put(k, v) : k \in Fields[s] \cap PortKeys, v \in {{}} \cup {{p} : p \in Ports}}

\* Mutant of CipherAnswers: the password of the old cipher is kept.
CipherAlone(fs) == {Put("sss_cipher", {c}) : c \in Ciphers}
\* A cipher comes with a password of its length; with a 2022 cipher it cannot
\* be changed by hand.
CipherAnswers(fs) ==
    {[file |-> "gw", keys |-> {"sss_cipher", "sss_pwd"}, value |-> {c}, pwd |-> {PwdOf(c)}] : c \in Ciphers}
    \cup {Put("sss_pwd", v) : v \in IF Get(fs, "sss_cipher") \cap Blake3 # {} THEN {} ELSE {{}, {"typed"}}}

\* RunLANDeviceFilterMenu: the lists are written as shown, without reading them
\* again; a removal writes both.
LanPut(keys, v) == [file |-> "lan", keys |-> keys, value |-> v, pwd |-> {}]
ListAnswers(fs, k) ==
    {LanPut({k}, fs.lan[k] \cup {d}) : d \in Devices} \cup {LanPut({k}, fs.lan[k] \ {d}) : d \in Devices}
LanAnswers(fs) == ListAnswers(fs, "mac") \cup ListAnswers(fs, "ip") \cup {LanPut(LanLists, {})}

Answers(fs, topic) ==
    CASE topic = "wan" -> WanAnswers(fs)
      [] topic = "common" -> CommonAnswers(fs)
      [] topic = "hosts" -> HostAnswers(fs)
      [] topic = "flags" -> FlagAnswers(fs)
      [] topic = "ss" -> ServiceAnswers(fs, "ss") \cup FieldAnswers(fs, "ss") \cup CipherAnswers(fs)
      [] topic = "lan" -> LanAnswers(fs)
      [] OTHER -> ServiceAnswers(fs, topic) \cup FieldAnswers(fs, topic)

-----------------------------------------------------------------------------
\* LoadState at the top of each menu's loop.
Load(m) ==
    /\ pc[m] = "load"
    /\ snap' = [snap EXCEPT ![m] = files]
    /\ pc' = [pc EXCEPT ![m] = "prompt"]
    /\ behind' = behind \ {m}
    /\ UNCHANGED <<files, copy, todo, overlapped, answers>>

\* The answer, and the read of setCfgValue, setGatewayCfgValue or setKVValues.
Answer(m) ==
    /\ pc[m] = "prompt" /\ answers < MaxAnswers
    /\ \E topic \in Topics : \E change \in Answers(snap[m], topic) : todo' = [todo EXCEPT ![m] = change]
    /\ copy' = [copy EXCEPT ![m] = files]
    /\ pc' = [pc EXCEPT ![m] = "write"]
    /\ answers' = answers + 1
    /\ UNCHANGED <<files, snap, behind, overlapped>>

\* The operator leaves the menu, or gives an answer that is refused.
Leave(m) ==
    /\ pc[m] = "prompt"
    /\ pc' = [pc EXCEPT ![m] = "load"]
    /\ behind' = behind \ {m}
    /\ UNCHANGED <<files, snap, copy, todo, overlapped, answers>>

Changed(file, change) ==
    [k \in DOMAIN file |-> IF k \notin change.keys THEN file[k]
                           ELSE IF k = "sss_pwd" /\ "sss_cipher" \in change.keys THEN change.pwd
                           ELSE change.value]

\* The whole file; the two lists of the LAN filter are files of their own.
Written(m) == Changed(IF todo[m].file = "lan" THEN files.lan ELSE copy[m][todo[m].file], todo[m])

Write(m) ==
    /\ pc[m] = "write"
    /\ files' = [files EXCEPT ![todo[m].file] = Written(m)]
    /\ overlapped' = (overlapped \/ m \in behind)
    /\ behind' = (behind \cup {n \in Menus : pc[n] # "load"}) \ {m}
    /\ todo' = [todo EXCEPT ![m] = Nothing]
    /\ pc' = [pc EXCEPT ![m] = "load"]
    /\ UNCHANGED <<snap, copy, answers>>

Empty == [k \in Keys |-> {}]
Clean == [gw |-> Empty, main |-> Empty, lan |-> [k \in LanLists |-> {}]]
\* What an older version, with the same limits, may have left under a key.
Left(k) ==
    CASE k \in PortKeys -> {{p} : p \in Ports}
      [] k = "fw_wan_ports" -> {ports \in SUBSET Ports : Cardinality(ports) <= MaxWan}
      [] k = "sss_cipher" -> {{c} : c \in Ciphers}
      [] OTHER -> {{"set"}, {"ON"}, {"OFF"}}
Old(keys) ==
    {f \in [keys -> {{}} \cup UNION {Left(k) : k \in keys}] : \A k \in keys : f[k] \in {{}} \cup Left(k)}
Filled(old) == [k \in Keys |-> IF k \in DOMAIN old THEN old[k] ELSE {}]
Init ==
    /\ \E gw \in Old(LegacyGw), main \in Old(Legacy) :
        files = [Clean EXCEPT !.gw = Filled(gw), !.main = Filled(main)]
    /\ snap = [m \in Menus |-> Clean] /\ copy = [m \in Menus |-> Clean]
    /\ todo = [m \in Menus |-> Nothing] /\ pc = [m \in Menus |-> "load"]
    /\ behind = {} /\ overlapped = FALSE /\ answers = 0

Next == \E m \in Menus : Load(m) \/ Answer(m) \/ Leave(m) \/ Write(m)
Spec == Init /\ [][Next]_vars

-----------------------------------------------------------------------------
\* Properties.

TypeOK ==
    /\ files \in Files /\ snap \in [Menus -> Files] /\ copy \in [Menus -> Files]
    /\ todo \in [Menus -> Change]
    /\ pc \in [Menus -> {"load", "prompt", "write"}]
    /\ behind \subseteq Menus /\ overlapped \in BOOLEAN
    /\ answers \in 0 .. MaxAnswers

\* The limits on the lists of ports hold however many menus edit them: a menu
\* counts the ports it shows and writes just these and one more, never those
\* that another menu has added in between; nor those of the list it goes on to
\* write when it shows one of gateway.cfg.
ListsBounded ==
    /\ \A file \in {"gw", "main"} : Cardinality(files[file]["fw_wan_ports"]) <= MaxWan
    /\ Cardinality(Effective(files)) <= MaxCommon

\* The menu has put a 2022 cipher in gateway.cfg only with a password made for
\* it: it writes both at once and then keeps the password from being changed,
\* unless two menus overlap.
CipherHasItsPassword ==
    ~overlapped => \A c \in Blake3 : files.gw["sss_cipher"] = {c} => files.gw["sss_pwd"] = {PwdOf(c)}
=============================================================================
