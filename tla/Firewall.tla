------------------------------ MODULE Firewall ------------------------------
(***************************************************************************)
(* Package firewall: the rules Start installs in the kernel for a          *)
(* configuration, and what Stop takes out again for the configuration it   *)
(* reads, which need not be the one the rules were installed for.  The     *)
(* errors of single commands are ignored by the code (runIgnore), so each  *)
(* command is modelled by what the kernel does with it in the state it     *)
(* finds.  A rule is abstracted to the packets it matches and its target.  *)
(*                                                                         *)
(* All tools are installed (iptables, ip6tables, ipset, nft) and the core  *)
(* is not clashpre.  Not here: packets to the proxy's own ports, the side  *)
(* gateway's own packets, custom host and reserved ranges.                 *)
(***************************************************************************)
EXTENDS Naturals, Sequences, FiniteSets, Bags

CONSTANTS
    Configs,      \* configurations the menus can leave in ShellCrash.cfg
    Nets,         \* IPv4 subnets of the device's own links (detectHosts)
    OwnInLan,     \* the device's own address lies in one of Nets
    MaxEdits,     \* bound on edits of the configuration
    MaxCopies     \* bound on the copies of one rule

Areas == 1..5       \* LAN, device, both, pure mode, side gateway
Redirs == {"Redir", "Tproxy", "Tun", "Mix", "T&U", "TCP", "Pure"}

\* firewall.Config: what LoadConfig reads that the rules depend on.
ConfigSpace ==
    [area : Areas, redir : Redirs, mod : {"iptables", "nftables"},
     dns : {"redir_host", "mix", "fake-ip"}, cn : {"ON", "OFF", "unset"},
     common : BOOLEAN, wan : BOOLEAN, vm : BOOLEAN, quic : BOOLEAN,
     ipv6 : BOOLEAN, devices : {"none", "black", "white"}]

ASSUME FirewallAssumption ==
    /\ Configs \subseteq ConfigSpace
    /\ Nets # {} /\ Nets \subseteq {"lan", "guest"}
    /\ OwnInLan \in BOOLEAN
    /\ MaxEdits \in Nat /\ MaxCopies \in Nat \ {0}

VARIABLES
    cfg,        \* configs/ShellCrash.cfg
    files,      \* families whose CN list has been downloaded to BINDIR
    sets,       \* families whose ipset exists in the kernel
    hooks,      \* bag of the rules in built-in chains
    chains,     \* iptables chains of ours: name -> sequence of rules
    nft,        \* table inet shellcrash: chain -> sequence of rules
    fw4,        \* rules inserted in table inet fw4 and not removed
    rules,      \* families with the fwmark rule
    routes,     \* family -> default route of the table the rule leads to
    resolv,     \* the repair line is in /etc/resolv.conf
    up,         \* Start ran after the last Stop
    live,       \* the starts since the last Stop: configuration, CN lists found
    tunnelled,  \* since boot Start ran for Tun or Mix under nftables
    tidy,       \* since boot no rerun, and no edit between Start and Stop
    edits       \* edits made

kernel == <<sets, hooks, chains, nft, fw4, rules, routes>>
history == <<up, live, tunnelled, tidy, edits>>
vars == <<cfg, files, kernel, resolv, history>>

-----------------------------------------------------------------------------
(* Packets, and the rules that match them *)

Families == {4, 6}
LanSrc == {"lan", "guest", "vm"}            \* arrive at PREROUTING
OwnSrc == {"box", "loop", "core"}           \* leave by OUTPUT; loop: from 127.0.0.1
Packets == [fam : Families, src : LanSrc \cup OwnSrc, proto : {"tcp", "udp"},
            port : {"dns", "https", "other"}, dst : {"private", "cn", "world", "fake"}]

\* A match is a set of packets, given by the values each field may have.
Every == [fam |-> Families, src |-> LanSrc \cup OwnSrc, proto |-> {"tcp", "udp"},
          port |-> {"dns", "https", "other"}, dst |-> {"private", "cn", "world", "fake"}]
Src(s) == [Every EXCEPT !.src = s]
Proto(t) == [Every EXCEPT !.proto = {t}]
Dst(d) == [Every EXCEPT !.dst = {d}]
Dns(t) == [Every EXCEPT !.proto = {t}, !.port = {"dns"}]
AnyDns == [Every EXCEPT !.port = {"dns"}]
Quic == [Every EXCEPT !.proto = {"udp"}, !.port = {"https"}]

Matches(m, p) ==
    p.fam \in m.fam /\ p.src \in m.src /\ p.proto \in m.proto /\ p.port \in m.port /\ p.dst \in m.dst

Return(m) == [on |-> m, to |-> "RETURN"]
Jump(m, target) == [on |-> m, to |-> target]

\* A rule in a built-in chain of one address family.
Hook(f, at, m, target) == [fam |-> f, at |-> at, on |-> m, to |-> target]

If(c, x) == IF c THEN x ELSE <<>>
IfSet(c, x) == IF c THEN x ELSE {}

-----------------------------------------------------------------------------
(* buildStartCommands *)

LanProxy(c) == c.area \in {1, 3, 5}
LocalProxy(c) == c.area \in {2, 3}
SetCN(c) == c.dns # "fake-ip" /\ c.cn # "OFF"
FakeDns(c) == c.dns \in {"mix", "fake-ip"}
Nft(c) == c.mod = "nftables"
TunMode(c) == c.redir \in {"Tun", "Mix"}
Marks(c) == c.redir \notin {"Redir", "Pure"}

\* The port filter of a hook: -m multiport --dports $multiport
Ports(c, t) == IF c.common THEN [Proto(t) EXCEPT !.port = {"https"}] ELSE Proto(t)
Fake(t) == [Proto(t) EXCEPT !.dst = {"fake"}]

\* Sources with an address in Nets, as `-s` and `ip saddr` see them.
SrcIn(nets) == nets \cup (IF OwnInLan THEN {"box", "core"} ELSE {})

\* The protocols the mangle chains mark in a mode.
MarkProtos(c) ==
    CASE c.redir \in {"Tproxy", "Tun", "T&U"} -> <<"tcp", "udp">>
      [] c.redir = "Mix" -> <<"udp">>
      [] c.redir = "TCP" -> <<"tcp">>
      [] OTHER -> <<>>

MarkIn(f) == IF f = 4 THEN "shellcrash_mark" ELSE "shellcrashv6_mark"
MarkOut(f) == IF f = 4 THEN "shellcrash_mark_out" ELSE "shellcrashv6_mark_out"

\* The CN match of a rule exists only when its set does: iptables and nft
\* refuse a rule that names a set which does not exist.
CnReturn(c, f, have) == If(SetCN(c) /\ f \in have, <<Return(Dst("cn"))>>)

\* makeRedirChain: mark $fwmark is that of no packet a chain has not marked.
RedirChain(c, srcs, have) ==
    <<Return(Dns("tcp")), Return(Src({})), Jump([Proto("tcp") EXCEPT !.src = srcs], "REDIRECT")>>
        \o CnReturn(c, 4, have) \o <<Return(Every)>>

\* Mutant: the core's packets are marked like those of any other process.
MarkCoreChain(c, f, have) ==
    <<Return(AnyDns), Return(Dst("private"))>> \o CnReturn(c, f, have)
        \o [i \in DOMAIN MarkProtos(c) |-> Jump(Proto(MarkProtos(c)[i]), "MARK")]

\* buildV4Chain, buildV6Chain: only the output chain knows the core's group,
\* both know its mark.
MarkChain(c, f, have) ==
    <<Return(AnyDns), Return(Src({"core"})), Return(Dst("private"))>> \o CnReturn(c, f, have)
        \o [i \in DOMAIN MarkProtos(c) |-> Jump(Proto(MarkProtos(c)[i]), "MARK")]

DnsChain == <<Jump(AnyDns, "DNS")>>

MarkFamilies(c) == IF c.ipv6 THEN {4, 6} ELSE {4}

\* The hooks into a chain from the built-in chain `at`.
DnsHooks(f, at, chain) == {Hook(f, at, Dns(t), chain) : t \in {"tcp", "udp"}}
\* Mutant: the hook for fake addresses carries the port filter too.
FilteredPortHooks(c, f, at, t, chain) ==
    {Hook(f, at, Ports(c, t), chain)}
        \cup IfSet(FakeDns(c), {Hook(f, at, [Ports(c, t) EXCEPT !.dst = {"fake"}], chain)})

PortHooks(c, f, at, t, chain) ==
    {Hook(f, at, Ports(c, t), chain)} \cup IfSet(FakeDns(c), {Hook(f, at, Fake(t), chain)})
MarkedProtos(c) == {MarkProtos(c)[i] : i \in DOMAIN MarkProtos(c)}
MarkHooks(c, f, at, chain) ==
    UNION {{Hook(f, at, Ports(c, t), chain)}
             \cup IfSet(c.common /\ FakeDns(c), {Hook(f, at, Fake(t), chain)}) : t \in MarkedProtos(c)}
\* TPROXY of packets the output chain marked: no packet arrives with the mark.
TproxyHooks(f) == {Hook(f, "PREROUTING", [Proto(t) EXCEPT !.src = {}], "TPROXY") : t \in {"tcp", "udp"}}

\* appendWANRules
WanHooks ==
    UNION {{Hook(f, "INPUT", Src({"loop"}), "ACCEPT"), Hook(f, "INPUT", Src(SrcIn(Nets)), "ACCEPT")}
             \cup {Hook(f, "INPUT", Proto(t), a) : t \in {"tcp", "udp"}, a \in {"ACCEPT", "REJECT"}} :
           f \in Families}

\* appendQUICRejectRules
QuicMatch(c) == IF SetCN(c) THEN [Quic EXCEPT !.dst = @ \ {"cn"}] ELSE Quic
QuicHooks(c, at, have) ==
    {Hook(f, at, QuicMatch(c), "REJECT") : f \in {f \in Families : SetCN(c) => f \in have}}

ForwardHooks == {Hook(f, "FORWARD", Every, "ACCEPT") : f \in Families}

\* The chains of tables nat and mangle.
StartChains(c, have) ==
    LET redir == c.redir \in {"Redir", "Mix"}
        mark == Marks(c)
        names == IfSet(redir /\ LanProxy(c), {"shellcrash"})
            \cup IfSet(redir /\ LocalProxy(c), {"shellcrash_out"})
            \cup IfSet(mark /\ LanProxy(c), {MarkIn(f) : f \in MarkFamilies(c)})
            \cup IfSet(mark /\ LocalProxy(c), {MarkOut(f) : f \in MarkFamilies(c)})
            \cup IfSet(c.area <= 3 /\ LanProxy(c), {"shellcrash_dns"})
            \cup IfSet(c.area <= 3 /\ LocalProxy(c), {"shellcrash_dns_out"})
            \cup IfSet(c.vm, {"shellcrash_vm", "shellcrash_vm_dns"})
        body(n) ==
            CASE n = "shellcrash" -> RedirChain(c, SrcIn(Nets), have)
              [] n = "shellcrash_out" -> RedirChain(c, SrcIn(Nets) \cup {"loop"}, have)
              [] n \in {MarkIn(4), MarkOut(4)} -> MarkChain(c, 4, have)
              [] n \in {MarkIn(6), MarkOut(6)} -> MarkChain(c, 6, have)
              [] n \in {"shellcrash_dns", "shellcrash_dns_out"} -> DnsChain
              [] n = "shellcrash_vm_dns" -> <<Jump([AnyDns EXCEPT !.src = {"vm"}], "DNS")>>
              [] n = "shellcrash_vm" -> <<Return(AnyDns), Return(Src({"core"})),
                                          Jump([Proto("tcp") EXCEPT !.src = {"vm"}], "REDIRECT")>>
    IN  [n \in IfSet(~Nft(c), names) |-> body(n)]

\* The rules in built-in chains that lead there, and the filter rules.
StartHooks(c, have) ==
    LET redir == c.redir \in {"Redir", "Mix"}
        mark == Marks(c)
        vm == IF c.common THEN PortHooks(c, 4, "PREROUTING", "tcp", "shellcrash_vm")
                          ELSE {Hook(4, "PREROUTING", Proto("tcp"), "shellcrash_vm")}
    IN  IfSet(~Nft(c),
              IfSet(c.wan, WanHooks)
         \cup IfSet(redir /\ LanProxy(c), PortHooks(c, 4, "PREROUTING", "tcp", "shellcrash"))
         \cup IfSet(redir /\ LocalProxy(c), PortHooks(c, 4, "OUTPUT", "tcp", "shellcrash_out"))
         \cup IfSet(mark /\ LanProxy(c),
                    UNION {MarkHooks(c, f, "PREROUTING", MarkIn(f)) : f \in MarkFamilies(c)})
         \cup IfSet(mark /\ LocalProxy(c),
                    UNION {MarkHooks(c, f, "OUTPUT", MarkOut(f)) : f \in MarkFamilies(c)})
         \cup IfSet(c.redir = "Tproxy" /\ LocalProxy(c),
                    UNION {TproxyHooks(f) : f \in MarkFamilies(c)})
         \cup IfSet(c.area <= 3 /\ LanProxy(c), DnsHooks(4, "PREROUTING", "shellcrash_dns"))
         \cup IfSet(c.area <= 3 /\ LocalProxy(c), DnsHooks(4, "OUTPUT", "shellcrash_dns_out"))
         \cup IfSet(c.quic /\ LanProxy(c) /\ c.redir \in {"Tproxy", "Tun", "Mix"},
                    QuicHooks(c, IF TunMode(c) THEN "FORWARD" ELSE "INPUT", have))
         \cup IfSet(TunMode(c), ForwardHooks)
         \cup IfSet(c.vm, vm \cup DnsHooks(4, "PREROUTING", "shellcrash_vm_dns")))

-----------------------------------------------------------------------------
(* appendNFTRules: base chains of one table for both families *)

\* `ip saddr != {...}` matches IPv4 packets only.
NotFrom(srcs) == [Every EXCEPT !.fam = {4}, !.src = @ \ srcs]
NotDns == [Every EXCEPT !.port = @ \ {"dns"}]

\* The guest is the device that configs/mac lists.
DeviceReturns(c) ==
    CASE c.devices = "white" -> <<Return([Every EXCEPT !.src = @ \ {"guest"}])>>
      [] c.devices = "black" -> <<Return(Src({"guest"})), Return(NotFrom(SrcIn(Nets)))>>
      [] c.devices = "none" -> <<Return(NotFrom(SrcIn(Nets)))>>

\* What the last rules of a redirect chain do.  In Mix mode TCP gets a mark
\* of its own, which chain *_mixtcp redirects.
NftTargets(c) ==
    CASE c.redir = "Redir" -> <<Jump(Proto("tcp"), "REDIRECT")>>
      [] c.redir = "Mix" -> <<Jump(Proto("udp"), "MARK"), Jump(Proto("tcp"), "REDIRECT")>>
      [] c.redir = "TCP" -> <<Jump(Proto("tcp"), "MARK")>>
      [] OTHER -> <<Jump(Every, "MARK")>>

\* appendNFTRedirChain
NftRedir(c, lan, have) ==
    <<Return(AnyDns), Return(Src({"core"}))>> \o If(lan, DeviceReturns(c))
        \o <<Return([Dst("private") EXCEPT !.fam = IF c.ipv6 THEN @ ELSE {4}])>>
        \o If(~c.ipv6, <<Return([Every EXCEPT !.fam = {6}])>>)
        \o If(SetCN(c) /\ 4 \in have, <<Return([Dst("cn") EXCEPT !.fam = {4}])>>)
        \o If(c.quic /\ lan, <<Return(Quic)>>) \o NftTargets(c)

\* appendNFTDNSChain: one return rule per subnet.
NftDns(nets) ==
    <<Return(NotDns), Return(Src({"core"}))>>
        \o (LET n == CHOOSE n \in nets : TRUE
            IN <<Return(NotFrom({n}))>> \o If(nets # {n}, <<Return(NotFrom(nets \ {n}))>>))
        \o <<Jump(AnyDns, "DNS")>>

NftVmDns == <<Return(NotDns), Return(Src({"core"})), Return(NotFrom({"vm"})), Jump(AnyDns, "DNS")>>
NftVm == <<Return(AnyDns), Return(Src({"core"})), Return(NotFrom({"vm"})),
           Jump(Proto("tcp"), "REDIRECT")>>

NftChains(c, have) ==
    LET redir == c.redir # "Pure" /\ (c.redir \in {"T&U", "TCP"} => c.area = 5)
        names == IfSet(redir /\ LanProxy(c), {"prerouting"})
            \cup IfSet(redir /\ LocalProxy(c), {"output"})
            \cup IfSet(c.area <= 3 /\ LanProxy(c), {"prerouting_dns"})
            \cup IfSet(c.area <= 3 /\ LocalProxy(c), {"output_dns"})
            \cup IfSet(c.vm, {"prerouting_vm", "prerouting_vm_dns"})
            \cup IfSet(c.wan, {"input"})
        body(n) ==
            CASE n = "prerouting" -> NftRedir(c, TRUE, have)
              [] n = "output" -> NftRedir(c, FALSE, have)
              [] n = "prerouting_dns" -> NftDns(Nets)
              [] n = "output_dns" -> NftDns({"loop"})
              [] n = "prerouting_vm" -> NftVm
              [] n = "prerouting_vm_dns" -> NftVmDns
              [] n = "input" -> <<>>
    IN  [n \in IfSet(Nft(c), names) |-> body(n)]

-----------------------------------------------------------------------------
(* Start and Stop *)

\* `ip route add default` of a family, where the table has none yet.
NewRoute(c, f, utun) ==
    LET asked == IF f = 4 THEN c.area # 4 ELSE c.ipv6 /\ c.area <= 3
        tun == utun /\ (f = 6 \/ TunMode(c))
    IN  CASE asked /\ c.redir = "Tproxy" -> "local"
          [] asked /\ c.redir # "Tproxy" /\ tun -> "utun"
          [] asked /\ c.redir # "Tproxy" /\ ~tun /\ c.area = 5 -> "bypass"
          [] OTHER -> "none"

\* A rule the kernel already has is refused; -N of a chain that exists is
\* refused too, and its rules are then appended once more.
RulesOf(table, n) == IF n \in DOMAIN table THEN table[n] ELSE <<>>

CopiesLeft(c) == \A h \in BagToSet(hooks) : h \in StartHooks(c, sets) => hooks[h] < MaxCopies

FwStart ==
    \E utun \in BOOLEAN :
        /\ CopiesLeft(cfg)
        /\ hooks' = hooks (+) SetToBag(StartHooks(cfg, sets))
        /\ LET new == StartChains(cfg, sets)
           IN  chains' = [n \in DOMAIN chains \cup DOMAIN new |-> RulesOf(chains, n) \o RulesOf(new, n)]
        /\ nft' = IF Nft(cfg) THEN NftChains(cfg, files) ELSE nft
        /\ fw4' = IF Nft(cfg) /\ TunMode(cfg) /\ fw4 < MaxCopies THEN fw4 + 1 ELSE fw4
        /\ routes' = [f \in Families |->
                        IF routes[f] = "none" THEN NewRoute(cfg, f, utun) ELSE routes[f]]
        /\ rules' = rules \cup IfSet(cfg.redir # "Redir" /\ cfg.area # 4, {4})
                          \cup IfSet(cfg.redir # "Redir" /\ cfg.area <= 3 /\ cfg.ipv6, {6})
        /\ resolv' = (resolv \/ cfg.area \in {2, 3})
        /\ up' = TRUE
        /\ live' = live \cup {[cfg |-> cfg, lists |-> IF Nft(cfg) THEN files ELSE sets]}
        /\ tunnelled' = (tunnelled \/ (Nft(cfg) /\ TunMode(cfg)))
        /\ tidy' = (tidy /\ ~up)
        /\ UNCHANGED <<cfg, files, sets, edits>>

\* buildStopCommands names every rule Start can have installed, in the form
\* the configuration of now gives it, whatever the area and the mode.
StopDns == DnsHooks(4, "PREROUTING", "shellcrash_dns") \cup DnsHooks(4, "OUTPUT", "shellcrash_dns_out")
              \cup DnsHooks(4, "PREROUTING", "shellcrash_vm_dns")
HooksInto(c, f, at, t, chain) == {Hook(f, at, Ports(c, t), chain), Hook(f, at, Fake(t), chain)}
StopNat(c) ==
    HooksInto(c, 4, "PREROUTING", "tcp", "shellcrash") \cup HooksInto(c, 4, "OUTPUT", "tcp", "shellcrash_out")
        \cup HooksInto(c, 4, "PREROUTING", "tcp", "shellcrash_vm")
StopMangle(c, f) ==
    TproxyHooks(f) \cup UNION {HooksInto(c, f, "PREROUTING", t, MarkIn(f))
                                 \cup HooksInto(c, f, "OUTPUT", t, MarkOut(f)) : t \in {"tcp", "udp"}}
StopHooks(c) ==
    StopDns \cup StopNat(c) \cup StopMangle(c, 4) \cup StopMangle(c, 6) \cup ForwardHooks \cup WanHooks
        \cup QuicHooks(c, "INPUT", Families) \cup QuicHooks(c, "FORWARD", Families)

\* Mutants: the chains of virtual machines, or of the device's DNS, forgotten.
StopLanChains ==
    {"shellcrash", "shellcrash_out", "shellcrash_dns", "shellcrash_dns_out"}
        \cup UNION {{MarkIn(f), MarkOut(f)} : f \in Families}
StopRedirChains ==
    {"shellcrash", "shellcrash_out", "shellcrash_dns", "shellcrash_vm", "shellcrash_vm_dns"}
        \cup UNION {{MarkIn(f), MarkOut(f)} : f \in Families}

\* The chains it flushes, and deletes unless a rule still leads there.
StopChains ==
    {"shellcrash", "shellcrash_out", "shellcrash_dns", "shellcrash_dns_out",
     "shellcrash_vm", "shellcrash_vm_dns"} \cup UNION {{MarkIn(f), MarkOut(f)} : f \in Families}

Referenced(n, bag) == \E h \in BagToSet(bag) : h.to = n

FwStop ==
    /\ hooks' = hooks (-) SetToBag(StopHooks(cfg))
    /\ chains' = [n \in {n \in DOMAIN chains : n \notin StopChains \/ Referenced(n, hooks')} |->
                    IF n \in StopChains THEN <<>> ELSE chains[n]]
    \* destroy refuses a set that a QUIC rule still names
    /\ sets' = {f \in sets : \E h \in BagToSet(hooks') : h.fam = f /\ h.on = [Quic EXCEPT !.dst = @ \ {"cn"}]}
    /\ rules' = {}
    /\ routes' = [f \in Families |-> "none"]
    /\ nft' = <<>>
    /\ resolv' = FALSE
    /\ up' = FALSE
    /\ live' = {}
    /\ UNCHANGED <<cfg, files, fw4, tunnelled, tidy, edits>>

\* ensureCNIPAssets, before the core starts: the lists of the configuration
\* are on disk and, for iptables, in the kernel.
CheckCNIP ==
    LET fs == IF cfg.ipv6 THEN {4, 6} ELSE {4}
    IN  /\ cfg.cn = "ON" /\ cfg.dns # "fake-ip"
        /\ files' = files \cup fs
        /\ sets' = IF Nft(cfg) THEN sets ELSE sets \cup fs
        /\ UNCHANGED <<cfg, hooks, chains, nft, fw4, rules, routes, resolv, history>>

\* The settings and gateway menus write the configuration and apply nothing.
Edit ==
    /\ edits < MaxEdits
    /\ cfg' \in Configs \ {cfg}
    /\ edits' = edits + 1
    /\ tidy' = (tidy /\ ~up)
    /\ UNCHANGED <<files, kernel, resolv, up, live, tunnelled>>

\* The kernel forgets; /etc/resolv.conf may be on disk.
Reboot ==
    /\ sets' = {}
    /\ hooks' = EmptyBag
    /\ chains' = <<>>
    /\ nft' = <<>>
    /\ fw4' = 0
    /\ rules' = {}
    /\ routes' = [f \in Families |-> "none"]
    /\ resolv' \in {resolv, FALSE}
    /\ up' = FALSE
    /\ live' = {}
    /\ tunnelled' = FALSE
    /\ tidy' = ~resolv'
    /\ UNCHANGED <<cfg, files, edits>>

Init ==
    /\ cfg \in Configs
    /\ files = {} /\ sets = {}
    /\ hooks = EmptyBag /\ chains = <<>> /\ nft = <<>> /\ fw4 = 0
    /\ rules = {} /\ routes = [f \in Families |-> "none"]
    /\ resolv = FALSE /\ up = FALSE /\ live = {} /\ tunnelled = FALSE /\ tidy = TRUE /\ edits = 0

Next == FwStart \/ FwStop \/ CheckCNIP \/ Edit \/ Reboot

Spec == Init /\ [][Next]_vars

-----------------------------------------------------------------------------
(* What becomes of a packet *)

\* The target of the first rule that matches: a chain is left by RETURN.
Verdict(seq, p) ==
    LET hit == {i \in DOMAIN seq : Matches(seq[i].on, p)}
    IN  IF hit = {} THEN "RETURN" ELSE seq[CHOOSE i \in hit : \A j \in hit : i <= j].to

Entry(p) == IF p.src \in LanSrc THEN "PREROUTING" ELSE "OUTPUT"
NftEntry(n) == IF n \in {"output", "output_dns"} THEN "OUTPUT" ELSE "PREROUTING"

\* The verdicts of the chains the packet goes through, where hs are the
\* rules that lead there.
Verdicts(p, hs) ==
    {Verdict(RulesOf(chains, h.to), p) :
        h \in {h \in hs : h.fam = p.fam /\ h.at = Entry(p) /\ Matches(h.on, p)}}
    \cup {Verdict(nft[n], p) : n \in {n \in DOMAIN nft : NftEntry(n) = Entry(p)}}

\* A marked packet is diverted only where the policy route leads somewhere.
Diverting(f) == {"REDIRECT", "DNS"} \cup IfSet(f \in rules /\ routes[f] # "none", {"MARK"})

Diverted ==
    LET hs == BagToSet(hooks)
    IN  {p \in Packets : Verdicts(p, hs) \cap Diverting(p.fam) # {}}

TypeOK ==
    /\ cfg \in Configs
    /\ files \subseteq Families /\ sets \subseteq files
    /\ IsABag(hooks)
    /\ \A h \in BagToSet(hooks) : hooks[h] <= MaxCopies
    /\ DOMAIN chains \subseteq StopChains
    /\ fw4 \in 0..MaxCopies
    /\ rules \subseteq Families
    /\ routes \in [Families -> {"none", "local", "utun", "bypass"}]
    /\ {resolv, up, tunnelled, tidy} \subseteq BOOLEAN
    /\ live \subseteq [cfg : Configs, lists : SUBSET Families]
    /\ edits \in 0..MaxEdits

\* Once Stop has run no packet of the LAN or of the device is diverted, to
\* the proxy's ports or to its DNS, whatever was edited and however often
\* Start ran in between: the core behind those ports is gone.
StopEndsDiversion == ~up => Diverted = {}

\* Stop undoes Start, but for one thing: a start and a stop under one
\* configuration leave no chain or table of ours, no rule in a built-in chain,
\* policy route or resolver line; what Start put into the system's own table
\* fw4 for Tun or Mix (start.go:783-791) stop.go does not name, and it stays,
\* once for each start, until the next boot.
CleanCycle ==
    tidy /\ ~up =>
        /\ hooks = EmptyBag
        /\ DOMAIN chains = {} /\ DOMAIN nft = {}
        /\ rules = {} /\ \A f \in Families : routes[f] = "none"
        /\ ~resolv
        /\ fw4 # 0 <=> tunnelled

\* The packets a configuration names by its area and by its switch for
\* virtual machines, whose chain of nftables tests the source of IPv4 only.
OfArea(c, p) == (LanProxy(c) /\ p.src \in LanSrc) \/ (LocalProxy(c) /\ p.src \in OwnSrc)
OfVm(c, p) == c.vm /\ (p.src = "vm" \/ (p.fam = 6 /\ p.src \in LanSrc /\ Nft(c)))

\* Queries, but not the core's, of which iptables knows nothing in nat.
AsksDns(c, p) ==
    /\ p.port = "dns" /\ (p.fam = 6 => Nft(c)) /\ (p.src = "core" => ~Nft(c))
    /\ (c.area <= 3 /\ OfArea(c, p)) \/ OfVm(c, p)

\* TCP of virtual machines.
AsksVm(c, p) == p.proto = "tcp" /\ (p.fam = 6 => Nft(c)) /\ OfVm(c, p)

\* The device filter, and QUIC left to itself: nftables only.
AsksDevice(c, p) ==
    Nft(c) /\ p.src \in LanSrc =>
        /\ c.devices = "black" => p.src # "guest"
        /\ c.devices = "white" => p.src = "guest"
        /\ ~(c.quic /\ p.proto = "udp" /\ p.port = "https")

\* What the nat chains of iptables take, which redirect by source before they
\* look at anything else: the core's own packets, private traffic, CN.
ByNat(c, p) == ~Nft(c) /\ c.redir \in {"Redir", "Mix"} /\ p.proto = "tcp"

\* The rest: the protocols of the mode, IPv6 where it is on, the LAN's devices
\* that the filter lets through.  Neither the core's packets nor private ones,
\* nor CN where the list was there when the rules were made (nftables: IPv4).
AsksProxy(c, lists, p) ==
    /\ p.port # "dns" /\ OfArea(c, p) /\ AsksDevice(c, p)
    /\ c.redir # "Pure" /\ (c.redir \in {"Redir", "TCP"} => p.proto = "tcp")
    /\ p.fam = 6 => c.ipv6
    /\ \/ ByNat(c, p)
       \/ /\ p.src # "core" /\ p.dst # "private"
          /\ p.dst = "cn" /\ SetCN(c) /\ p.fam \in lists => Nft(c) /\ p.fam = 6

Asks(l, p) == AsksDns(l.cfg, p) \/ AsksVm(l.cfg, p) \/ AsksProxy(l.cfg, l.lists, p)

\* Only the common ports, and any port of a fake address.  nftables ignores
\* the switch.
AsksPort(c, p) ==
    ~Nft(c) /\ c.common => p.port \in {"dns", "https"} \/ (FakeDns(c) /\ p.dst = "fake")

\* A rule that start l did not install, in a built-in chain the packet passes.
OthersLead(l, p) ==
    \E h \in BagToSet(hooks) \ StartHooks(l.cfg, l.lists) :
        h.fam = p.fam /\ h.at = Entry(p) /\ Matches(h.on, p)

\* Whatever earlier configurations left behind, a packet is diverted only
\* where one configuration started since the last Stop asks for it.  The
\* settings edited while the rules were up, a rule left in a built-in chain
\* under another port filter may bring it packets of other ports; nothing
\* widens its area, its protocols, or what it exempts.
ScopeRespected ==
    \A p \in Diverted : \E l \in live :
        Asks(l, p) /\ (AsksPort(l.cfg, p) \/ (~tidy /\ OthersLead(l, p)))

-----------------------------------------------------------------------------
(* What the tests say, and the rules do not keep *)

\* The proxy's own traffic is exempt by its group and by its routing mark
\* (start_test.go), so it is never sent back to the proxy.
CoreExempt == \A p \in Diverted : p.src # "core"
=============================================================================
