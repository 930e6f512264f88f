--------------------------- MODULE FirewallProofs ---------------------------
(***************************************************************************)
(* For every set of configurations, every network and any number of edits: *)
(* Stop ends the diversion of packets, and undoes what Start did under the *)
(* configuration it still finds; and while the rules are up a packet is    *)
(* diverted only where a configuration started since the last Stop asks    *)
(* for it.                                                                 *)
(***************************************************************************)
EXTENDS Firewall, SequenceTheorems, WellFoundedInduction, TLAPS

\* Every chain is one that Stop flushes, and after Stop they are empty.
Flushed ==
    /\ DOMAIN chains \subseteq StopChains
    /\ ~up => /\ \A n \in DOMAIN chains : chains[n] = <<>>
              /\ DOMAIN nft = {}

\* The chains Start fills are among those that Stop flushes.
LEMMA StartedChainsAreFlushed ==
    ASSUME NEW c, NEW have
    PROVE  DOMAIN StartChains(c, have) \subseteq StopChains
  BY DEF StartChains, StopChains, IfSet, MarkIn, MarkOut, MarkFamilies, Families

LEMMA FlushedHolds == Spec => []Flushed
<1>1. Init => Flushed
  BY DEF Init, Flushed
<1>2. ASSUME Flushed, [Next]_vars PROVE Flushed'
  <2>1. CASE FwStart
    <3>1. DOMAIN chains' \subseteq StopChains
      BY <1>2, <2>1, StartedChainsAreFlushed DEF FwStart, Flushed
    <3>2. QED BY <3>1, <2>1 DEF FwStart, Flushed
  <2>2. CASE FwStop
    BY <1>2, <2>2 DEF FwStop, Flushed
  <2>3. CASE CheckCNIP
    BY <1>2, <2>3 DEF CheckCNIP, Flushed, history
  <2>4. CASE Edit
    BY <1>2, <2>4 DEF Edit, Flushed, kernel
  <2>5. CASE Reboot
    BY <1>2, <2>5 DEF Reboot, Flushed
  <2>6. CASE UNCHANGED vars
    BY <1>2, <2>6 DEF vars, kernel, history, Flushed
  <2>7. QED BY <1>2, <2>1, <2>2, <2>3, <2>4, <2>5, <2>6 DEF Next
<1>3. QED BY <1>1, <1>2, PTL DEF Spec

\* A packet returns from an empty chain.
LEMMA EmptyChainReturns == \A p : Verdict(<<>>, p) = "RETURN"
  BY DEF Verdict

LEMMA FlushedDivertsNothing == Flushed => StopEndsDiversion
<1> SUFFICES ASSUME Flushed, ~up, NEW p \in Packets,
                    Verdicts(p, BagToSet(hooks)) \cap Diverting(p.fam) # {}
             PROVE  FALSE
  BY DEF StopEndsDiversion, Diverted
<1>1. \A n : RulesOf(chains, n) = <<>>
  BY DEF Flushed, RulesOf
<1>2. Verdicts(p, BagToSet(hooks)) \subseteq {"RETURN"}
  BY <1>1, EmptyChainReturns DEF Verdicts, Flushed
<1>3. "RETURN" \notin Diverting(p.fam)
  BY DEF Diverting, IfSet
<1> QED BY <1>2, <1>3

\* Once Stop has run, no packet is diverted to ports nobody listens on.
THEOREM StopEnds == Spec => []StopEndsDiversion
  BY FlushedHolds, FlushedDivertsNothing, PTL

-----------------------------------------------------------------------------
(* Stop undoes Start *)

\* The kernel without a rule of ours, and resolv.conf without our line.
Clean ==
    /\ hooks = EmptyBag
    /\ DOMAIN chains = {} /\ DOMAIN nft = {}
    /\ rules = {} /\ \A f \in Families : routes[f] = "none"
    /\ ~resolv

\* As long as nothing was edited or started twice, the rules in built-in
\* chains are those of the present configuration, each once.
Tidied ==
    /\ sets \subseteq Families /\ files \subseteq Families
    /\ ~up => live = {}
    /\ tidy /\ ~up => Clean
    /\ tidy /\ up => \E have \in SUBSET Families :
                         hooks = SetToBag(StartHooks(cfg, have)) /\ live = {[cfg |-> cfg, lists |-> have]}

\* The rules in table fw4 come with the first start that needs them, and stay.
Tunnels == fw4 \in Nat /\ tunnelled \in BOOLEAN /\ (fw4 # 0 <=> tunnelled)

LEMMA MarkedProtosAreProtos == ASSUME NEW c PROVE MarkedProtos(c) \subseteq {"tcp", "udp"}
  BY DEF MarkedProtos, MarkProtos

\* Whatever Start installs in a built-in chain, Stop names.
LEMMA StopNamesEveryHook ==
    ASSUME NEW c, NEW have \in SUBSET Families
    PROVE  StartHooks(c, have) \subseteq StopHooks(c)
<1> DEFINE vm == IF c.common THEN PortHooks(c, 4, "PREROUTING", "tcp", "shellcrash_vm")
                             ELSE {Hook(4, "PREROUTING", Proto("tcp"), "shellcrash_vm")}
           quic == QuicHooks(c, IF TunMode(c) THEN "FORWARD" ELSE "INPUT", have)
<1>1. StopDns \subseteq StopHooks(c) /\ WanHooks \subseteq StopHooks(c) /\ ForwardHooks \subseteq StopHooks(c)
  BY DEF StopHooks
<1>2. quic \subseteq StopHooks(c)
  <2>1. \A at : QuicHooks(c, at, have) \subseteq QuicHooks(c, at, Families)
    BY DEF QuicHooks
  <2> QED BY <2>1 DEF StopHooks
<1>3. \A f \in Families : StopMangle(c, f) \subseteq StopHooks(c)
  BY DEF StopHooks, Families
<1>4. \A f \in Families : TproxyHooks(f) \subseteq StopHooks(c)
  BY <1>3 DEF StopMangle
<1>5. \A f, at, chain : PortHooks(c, f, at, "tcp", chain) \subseteq HooksInto(c, f, at, "tcp", chain)
  BY DEF PortHooks, HooksInto, IfSet
<1>6. /\ PortHooks(c, 4, "PREROUTING", "tcp", "shellcrash") \subseteq StopHooks(c)
      /\ PortHooks(c, 4, "OUTPUT", "tcp", "shellcrash_out") \subseteq StopHooks(c)
      /\ PortHooks(c, 4, "PREROUTING", "tcp", "shellcrash_vm") \subseteq StopHooks(c)
  BY <1>5 DEF StopHooks, StopNat
<1>7. vm \subseteq StopHooks(c)
  <2>1. CASE c.common
    BY <1>6, <2>1
  <2>2. CASE ~c.common
    <3>1. Ports(c, "tcp") = Proto("tcp")
      BY <2>2 DEF Ports
    <3>2. Hook(4, "PREROUTING", Ports(c, "tcp"), "shellcrash_vm") \in StopHooks(c)
      BY DEF StopHooks, StopNat, HooksInto
    <3> QED BY <2>2, <3>1, <3>2
  <2> QED BY <2>1, <2>2
<1>8. \A f, at, chain : MarkHooks(c, f, at, chain) \subseteq UNION {HooksInto(c, f, at, t, chain) : t \in {"tcp", "udp"}}
  BY MarkedProtosAreProtos DEF MarkHooks, HooksInto, IfSet
<1>9. \A f \in Families : /\ MarkHooks(c, f, "PREROUTING", MarkIn(f)) \subseteq StopHooks(c)
                          /\ MarkHooks(c, f, "OUTPUT", MarkOut(f)) \subseteq StopHooks(c)
  BY <1>3, <1>8 DEF StopMangle
<1>10. MarkFamilies(c) \subseteq Families
  BY DEF MarkFamilies, Families
<1> QED
  BY <1>1, <1>2, <1>4, <1>6, <1>7, <1>9, <1>10 DEF StartHooks, StopDns, IfSet

\* Bags of single copies: adding one to nothing, and taking more than there is.
LEMMA AddedToNothing == ASSUME NEW S PROVE EmptyBag (+) SetToBag(S) = SetToBag(S)
  BY DEF EmptyBag, SetToBag, (+)

LEMMA NothingRemains ==
    ASSUME NEW S, NEW T, S \subseteq T
    PROVE  SetToBag(S) (-) SetToBag(T) = EmptyBag
  BY DEF EmptyBag, SetToBag, (-)

\* The steps of Stop, given that every rule found is one it names.
LEMMA StopCleans ==
    ASSUME NEW S, hooks = SetToBag(S), S \subseteq StopHooks(cfg),
           DOMAIN chains \subseteq StopChains, FwStop
    PROVE  Clean'
<1>1. hooks' = EmptyBag
  BY NothingRemains DEF FwStop
<1>2. \A n : ~Referenced(n, hooks')
  BY <1>1 DEF Referenced, EmptyBag, SetToBag, BagToSet
<1>3. DOMAIN chains' = {}
  BY <1>2 DEF FwStop
<1> QED BY <1>1, <1>3 DEF FwStop, Clean

LEMMA TidiedHolds == Spec => []Tidied
<1>1. Init => Tidied
  BY DEF Init, Tidied, Clean
<1>2. ASSUME Tidied, Flushed, [Next]_vars PROVE Tidied'
  <2>1. CASE FwStart
    <3> DEFINE have == IF Nft(cfg) THEN files ELSE sets
    <3>1. ASSUME tidy'
          PROVE  hooks' = SetToBag(StartHooks(cfg', have)) /\ live' = {[cfg |-> cfg', lists |-> have]}
      <4>1. StartHooks(cfg, sets) = StartHooks(cfg, have)
        <5>1. CASE Nft(cfg) BY <5>1 DEF StartHooks, IfSet
        <5>2. CASE ~Nft(cfg) BY <5>2
        <5> QED BY <5>1, <5>2
      <4>2. hooks' = SetToBag(StartHooks(cfg, sets)) /\ cfg' = cfg
        BY <1>2, <2>1, <3>1, AddedToNothing DEF FwStart, Tidied, Clean
      <4>3. live' = {[cfg |-> cfg, lists |-> have]}
        BY <1>2, <2>1, <3>1 DEF FwStart, Tidied
      <4> QED BY <4>1, <4>2, <4>3
    <3>2. sets' \subseteq Families /\ files' \subseteq Families /\ up' /\ have \in SUBSET Families
      BY <1>2, <2>1 DEF FwStart, Tidied
    <3> QED BY <1>2, <3>1, <3>2 DEF Tidied
  <2>2. CASE FwStop
    <3>1. sets' \subseteq Families /\ files' \subseteq Families /\ ~up' /\ live' = {} /\ (tidy' => tidy)
      BY <1>2, <2>2 DEF FwStop, Tidied
    <3>2. ASSUME tidy PROVE Clean'
      <4>1. CASE up
        <5>1. PICK have \in SUBSET Families : hooks = SetToBag(StartHooks(cfg, have))
          BY <1>2, <3>2, <4>1 DEF Tidied
        <5> QED BY <1>2, <2>2, <5>1, StopNamesEveryHook, StopCleans DEF Flushed
      <4>2. CASE ~up
        <5>1. hooks = SetToBag({})
          BY <1>2, <3>2, <4>2 DEF Tidied, Clean, EmptyBag
        <5> QED BY <1>2, <2>2, <5>1, StopCleans DEF Flushed
      <4> QED BY <4>1, <4>2
    <3> QED BY <3>1, <3>2 DEF Tidied
  <2>3. CASE CheckCNIP
    BY <1>2, <2>3 DEF CheckCNIP, Tidied, Clean, history, Families
  <2>4. CASE Edit
    BY <1>2, <2>4 DEF Edit, Tidied, Clean, kernel
  <2>5. CASE Reboot
    <3>1. sets' \subseteq Families /\ files' \subseteq Families /\ ~up' /\ live' = {} /\ (tidy' => ~resolv')
      BY <1>2, <2>5 DEF Reboot, Tidied
    <3>2. DOMAIN chains' = {} /\ DOMAIN nft' = {}
      BY <2>5 DEF Reboot
    <3>3. hooks' = EmptyBag /\ rules' = {} /\ \A f \in Families : routes'[f] = "none"
      BY <2>5 DEF Reboot
    <3> QED BY <3>1, <3>2, <3>3 DEF Tidied, Clean
  <2>6. CASE UNCHANGED vars
    BY <1>2, <2>6 DEF vars, kernel, history, Tidied, Clean
  <2>7. QED BY <1>2, <2>1, <2>2, <2>3, <2>4, <2>5, <2>6 DEF Next
<1>3. QED BY <1>1, <1>2, FlushedHolds, PTL DEF Spec

LEMMA TunnelsHold == Spec => []Tunnels
<1>1. ASSUME Init PROVE Tunnels
  <2>1. fw4 = 0 /\ tunnelled = FALSE BY <1>1 DEF Init
  <2> QED BY <2>1 DEF Tunnels
<1>2. ASSUME Tunnels, [Next]_vars PROVE Tunnels'
  <2>1. CASE FwStart
    <3> DEFINE asked == Nft(cfg) /\ TunMode(cfg)
    <3>1. /\ fw4' = IF asked /\ fw4 < MaxCopies THEN fw4 + 1 ELSE fw4
          /\ tunnelled' = (tunnelled \/ asked)
      BY <2>1 DEF FwStart
    <3> HIDE DEF asked
    <3>2. CASE asked
      <4>1. tunnelled' BY <3>1, <3>2
      <4>2. tunnelled' = TRUE BY <3>1, <3>2
      <4>3. fw4' \in Nat /\ fw4' # 0 BY <1>2, <3>1, <3>2, FirewallAssumption DEF Tunnels
      <4> QED BY <4>2, <4>3 DEF Tunnels
    <3>3. CASE ~asked
      <4>1. tunnelled' = tunnelled BY <1>2, <3>1, <3>3 DEF Tunnels
      <4>2. fw4' = fw4 BY <3>1, <3>3
      <4> QED BY <1>2, <4>1, <4>2 DEF Tunnels
    <3> QED BY <3>2, <3>3
  <2>2. CASE FwStop \/ CheckCNIP \/ Edit \/ UNCHANGED vars
    <3>1. UNCHANGED <<fw4, tunnelled>>
      BY <2>2 DEF FwStop, CheckCNIP, Edit, vars, kernel, history
    <3> QED BY <1>2, <3>1 DEF Tunnels
  <2>3. CASE Reboot
    <3>1. fw4' = 0 /\ tunnelled' = FALSE BY <2>3 DEF Reboot
    <3> QED BY <3>1 DEF Tunnels
  <2> QED BY <1>2, <2>1, <2>2, <2>3 DEF Next
<1> QED BY <1>1, <1>2, PTL DEF Spec

\* A start and a stop under one configuration leave of ours what Start put into
\* table fw4 for Tun or Mix, if it did, and nothing else: in every mode, for
\* every area and on either backend.
THEOREM StopUndoesStart == Spec => []CleanCycle
<1>1. Tidied /\ Tunnels => CleanCycle
  BY DEF Tidied, Clean, Tunnels, CleanCycle
<1>2. QED BY <1>1, TidiedHolds, TunnelsHold, PTL

-----------------------------------------------------------------------------
(* Type correctness *)

\* A family's route is one of the four Start can ask for.
LEMMA RouteTypes ==
    \A c, f, utun : NewRoute(c, f, utun) \in {"none", "local", "utun", "bypass"}
  BY DEF NewRoute

\* A kernel that has forgotten everything.
LEMMA NothingInstalled == IsABag(EmptyBag) /\ DOMAIN EmptyBag = {} /\ DOMAIN <<>> = {}
  BY DEF EmptyBag, SetToBag, IsABag

\* No rule is in a chain more often than Start was run over it.
LEMMA OneCopyMore ==
    ASSUME NEW B, IsABag(B), NEW S, NEW n \in Nat \ {0},
           \A h \in DOMAIN B : B[h] <= n,
           \A h \in DOMAIN B : h \in S => B[h] < n
    PROVE  /\ IsABag(B (+) SetToBag(S))
           /\ \A h \in DOMAIN (B (+) SetToBag(S)) : (B (+) SetToBag(S))[h] <= n
  BY DEF IsABag, SetToBag, (+)

LEMMA CopiesLess ==
    ASSUME NEW B, IsABag(B), NEW S, NEW n \in Nat,
           \A h \in DOMAIN B : B[h] <= n
    PROVE  /\ IsABag(B (-) SetToBag(S))
           /\ \A h \in DOMAIN (B (-) SetToBag(S)) : (B (-) SetToBag(S))[h] <= n
  BY DEF IsABag, SetToBag, (-)

\* Type correctness of the firewall model: every chain is one of ours, no rule has
\* more copies than starts, and an ipset exists only for a list on disk.
THEOREM TypeCorrect == Spec => []TypeOK
<1> USE FirewallAssumption
<1>1. Init => TypeOK
  <2> SUFFICES ASSUME Init PROVE TypeOK
    OBVIOUS
  <2>1. IsABag(hooks) /\ DOMAIN hooks = {} /\ DOMAIN chains = {}
    BY NothingInstalled DEF Init
  <2>2. routes \in [Families -> {"none", "local", "utun", "bypass"}]
    BY DEF Init
  <2>3. /\ cfg \in Configs /\ files \subseteq Families /\ sets \subseteq files
        /\ fw4 \in 0 .. MaxCopies /\ rules \subseteq Families /\ edits \in 0 .. MaxEdits
    BY DEF Init
  <2>4. {resolv, up, tunnelled, tidy} \subseteq BOOLEAN /\ live \subseteq [cfg : Configs, lists : SUBSET Families]
    BY DEF Init
  <2> QED BY <2>1, <2>2, <2>3, <2>4 DEF TypeOK, BagToSet
<1>2. ASSUME TypeOK, [Next]_vars PROVE TypeOK'
  <2>1. CASE FwStart
    <3>1. IsABag(hooks') /\ \A h \in DOMAIN hooks' : hooks'[h] <= MaxCopies
      BY <1>2, <2>1, OneCopyMore DEF FwStart, TypeOK, CopiesLeft, BagToSet
    <3>2. DOMAIN chains' \subseteq StopChains
      BY <1>2, <2>1, StartedChainsAreFlushed DEF FwStart, TypeOK
    <3>3. fw4' \in 0 .. MaxCopies /\ rules' \subseteq Families
      BY <1>2, <2>1 DEF FwStart, TypeOK, IfSet, Families
    <3>4. routes' \in [Families -> {"none", "local", "utun", "bypass"}]
      BY <1>2, <2>1, RouteTypes DEF FwStart, TypeOK
    <3>5. {resolv', up', tunnelled', tidy'} \subseteq BOOLEAN /\ live' \subseteq [cfg : Configs, lists : SUBSET Families]
      BY <1>2, <2>1 DEF FwStart, TypeOK
    <3> QED BY <1>2, <2>1, <3>1, <3>2, <3>3, <3>4, <3>5 DEF FwStart, TypeOK, BagToSet
  <2>2. CASE FwStop
    <3>1. IsABag(hooks') /\ \A h \in DOMAIN hooks' : hooks'[h] <= MaxCopies
      BY <1>2, <2>2, CopiesLess DEF FwStop, TypeOK, BagToSet
    <3>2. DOMAIN chains' \subseteq StopChains /\ sets' \subseteq sets
      BY <1>2, <2>2 DEF FwStop, TypeOK
    <3> QED BY <1>2, <2>2, <3>1, <3>2 DEF FwStop, TypeOK, BagToSet
  <2>3. CASE CheckCNIP
    BY <1>2, <2>3 DEF CheckCNIP, TypeOK, history, Families
  <2>4. CASE Edit
    BY <1>2, <2>4 DEF Edit, TypeOK, kernel
  <2>5. CASE Reboot
    <3>1. IsABag(hooks') /\ DOMAIN hooks' = {} /\ DOMAIN chains' = {}
      BY <2>5, NothingInstalled DEF Reboot
    <3>2. routes' \in [Families -> {"none", "local", "utun", "bypass"}]
      BY <2>5 DEF Reboot
    <3>3. resolv' \in BOOLEAN
      BY <1>2, <2>5 DEF Reboot, TypeOK
    <3>4. {resolv', up', tunnelled', tidy'} \subseteq BOOLEAN /\ live' \subseteq [cfg : Configs, lists : SUBSET Families]
      BY <2>5, <3>3 DEF Reboot
    <3>5. /\ cfg' \in Configs /\ files' \subseteq Families /\ sets' \subseteq files'
          /\ fw4' \in 0 .. MaxCopies /\ rules' \subseteq Families /\ edits' \in 0 .. MaxEdits
      BY <1>2, <2>5 DEF Reboot, TypeOK
    <3> QED BY <3>1, <3>2, <3>4, <3>5 DEF TypeOK, BagToSet
  <2>6. CASE UNCHANGED vars
    BY <1>2, <2>6 DEF vars, kernel, history, TypeOK
  <2>7. QED BY <1>2, <2>1, <2>2, <2>3, <2>4, <2>5, <2>6 DEF Next
<1>3. QED BY <1>1, <1>2, PTL DEF Spec

-----------------------------------------------------------------------------
(* The first rule that matches *)

Match == [fam : SUBSET Families, src : SUBSET (LanSrc \cup OwnSrc), proto : SUBSET {"tcp", "udp"},
          port : SUBSET {"dns", "https", "other"},
          dst : SUBSET {"private", "cn", "world", "fake"}]
Rule == [on : Match, to : {"RETURN", "REDIRECT", "DNS", "MARK"}]

\* Every rule of a sequence returns; none of them matches.
Returns(seq) == \A i \in DOMAIN seq : seq[i].to = "RETURN"
Misses(seq, p) == \A i \in DOMAIN seq : ~Matches(seq[i].on, p)

\* A set of naturals has a least one.
LEMMA Least ==
    ASSUME NEW T, T \subseteq Nat, T # {}
    PROVE  \E x \in T : \A y \in T : x <= y
<1>1. \E R : IsWellFoundedOn(R, Nat) /\ \A a, b \in Nat : a < b => <<a, b>> \in R
  <2>1. IsWellFoundedOn(OpToRel(<,Nat), Nat)
    BY NatLessThanWellFounded
  <2>2. \A a, b \in Nat : a < b => <<a, b>> \in OpToRel(<,Nat)
    BY Zenon DEF OpToRel
  <2> QED BY <2>1, <2>2, Zenon
<1>2. PICK R : IsWellFoundedOn(R, Nat) /\ \A a, b \in Nat : a < b => <<a, b>> \in R
  BY <1>1
<1>3. PICK x \in T : \A y \in T : ~(<<y, x>> \in R)
  BY <1>2, WFMin
<1>4. \A y \in T : ~(y < x)
  BY <1>2, <1>3, Zenon
<1>5. \A a, b \in Nat : ~(b < a) => a <= b
  OBVIOUS
<1> QED BY <1>4, <1>5

\* The verdict of a chain is that of the first rule that matches.
LEMMA FirstRule ==
    ASSUME NEW seq \in Seq(Rule), NEW p, NEW i \in DOMAIN seq, Matches(seq[i].on, p)
    PROVE  \E k \in DOMAIN seq : /\ Matches(seq[k].on, p) /\ Verdict(seq, p) = seq[k].to
                                 /\ \A j \in DOMAIN seq : Matches(seq[j].on, p) => k <= j
<1> DEFINE hit == {j \in DOMAIN seq : Matches(seq[j].on, p)}
           first(k) == k \in hit /\ \A j \in hit : k <= j
<1>1. hit \subseteq Nat /\ hit # {}
  BY LenProperties
<1>2. \E k : first(k)
  BY <1>1, Least
<1>3. first(CHOOSE k : first(k))
  BY <1>2
<1>4. (CHOOSE k \in hit : \A j \in hit : k <= j) = CHOOSE k : first(k)
  OBVIOUS
<1>5. Verdict(seq, p) = seq[CHOOSE k : first(k)].to
  BY <1>1, <1>4 DEF Verdict
<1> QED BY <1>3, <1>5

LEMMA FirstRuleIs ==
    ASSUME NEW seq \in Seq(Rule), NEW p, NEW k \in DOMAIN seq, Matches(seq[k].on, p),
           \A j \in DOMAIN seq : Matches(seq[j].on, p) => k <= j
    PROVE  Verdict(seq, p) = seq[k].to
<1>1. PICK i \in DOMAIN seq : /\ Matches(seq[i].on, p) /\ Verdict(seq, p) = seq[i].to
                              /\ \A j \in DOMAIN seq : Matches(seq[j].on, p) => i <= j
  BY FirstRule
<1>2. i \in Nat /\ k \in Nat /\ i <= k /\ k <= i
  BY <1>1, LenProperties
<1> QED BY <1>1, <1>2

LEMMA NoRule ==
    ASSUME NEW seq, NEW p, Misses(seq, p)
    PROVE  Verdict(seq, p) = "RETURN"
  BY DEF Misses, Verdict

\* Two sequences of rules one after the other.
LEMMA Joined ==
    ASSUME NEW s \in Seq(Rule), NEW t \in Seq(Rule), NEW p
    PROVE  /\ s \o t \in Seq(Rule)
           /\ Returns(s \o t) <=> Returns(s) /\ Returns(t)
           /\ Misses(s \o t, p) <=> Misses(s, p) /\ Misses(t, p)
<1>1. /\ s \o t \in Seq(Rule) /\ Len(s \o t) = Len(s) + Len(t)
      /\ Len(s) \in Nat /\ Len(t) \in Nat
      /\ DOMAIN s = 1 .. Len(s) /\ DOMAIN t = 1 .. Len(t) /\ DOMAIN (s \o t) = 1 .. Len(s) + Len(t)
      /\ \A i \in 1 .. Len(s) : (s \o t)[i] = s[i]
      /\ \A i \in 1 .. Len(t) : (s \o t)[Len(s) + i] = t[i]
  BY ConcatProperties, LenProperties
<1>2. \A i \in DOMAIN s : i \in DOMAIN (s \o t) /\ (s \o t)[i] = s[i]
  BY <1>1
<1>3. \A i \in DOMAIN t : Len(s) + i \in DOMAIN (s \o t) /\ (s \o t)[Len(s) + i] = t[i]
  BY <1>1
<1>4. \A i \in DOMAIN (s \o t) : \/ i \in DOMAIN s /\ (s \o t)[i] = s[i]
                                 \/ i - Len(s) \in DOMAIN t /\ (s \o t)[i] = t[i - Len(s)]
  <2> TAKE i \in DOMAIN (s \o t)
  <2>1. CASE i \in 1 .. Len(s)
    BY <1>1, <2>1
  <2>2. CASE i \notin 1 .. Len(s)
    <3>1. i \in Nat /\ i - Len(s) \in 1 .. Len(t) /\ Len(s) + (i - Len(s)) = i
      BY <1>1, <2>2
    <3> QED BY <1>1, <3>1
  <2> QED BY <2>1, <2>2
<1>5. Returns(s \o t) => Returns(s) /\ Returns(t)
  BY <1>2, <1>3, Zenon DEF Returns
<1>6. Returns(s) /\ Returns(t) => Returns(s \o t)
  BY <1>4, Zenon DEF Returns
<1>7. Misses(s \o t, p) => Misses(s, p) /\ Misses(t, p)
  BY <1>2, <1>3, Zenon DEF Misses
<1>8. Misses(s, p) /\ Misses(t, p) => Misses(s \o t, p)
  BY <1>4, Zenon DEF Misses
<1> QED BY <1>1, <1>5, <1>6, <1>7, <1>8

\* The second sequence decides when the first does not match, and only then.
LEMMA JoinedVerdict ==
    ASSUME NEW s \in Seq(Rule), NEW t \in Seq(Rule), NEW p
    PROVE  Verdict(s \o t, p) = IF Misses(s, p) THEN Verdict(t, p) ELSE Verdict(s, p)
<1>1. /\ s \o t \in Seq(Rule) /\ Len(s) \in Nat /\ Len(t) \in Nat
      /\ DOMAIN s = 1 .. Len(s) /\ DOMAIN t = 1 .. Len(t) /\ DOMAIN (s \o t) = 1 .. Len(s) + Len(t)
      /\ \A i \in 1 .. Len(s) : (s \o t)[i] = s[i]
      /\ \A i \in 1 .. Len(t) : (s \o t)[Len(s) + i] = t[i]
  BY ConcatProperties, LenProperties
<1>2. CASE ~Misses(s, p)
  <2>1. PICK k \in DOMAIN s : /\ Matches(s[k].on, p) /\ Verdict(s, p) = s[k].to
                              /\ \A j \in DOMAIN s : Matches(s[j].on, p) => k <= j
    BY <1>2, FirstRule DEF Misses
  <2>2. k \in DOMAIN (s \o t) /\ (s \o t)[k] = s[k]
    BY <1>1, <2>1
  <2>3. ASSUME NEW j \in DOMAIN (s \o t), Matches((s \o t)[j].on, p) PROVE k <= j
    <3>1. j \in Nat /\ k \in 1 .. Len(s)
      BY <1>1, <2>1
    <3>2. CASE j \in 1 .. Len(s)
      BY <1>1, <2>1, <2>3, <3>2
    <3>3. CASE j \notin 1 .. Len(s)
      BY <1>1, <2>3, <3>1, <3>3
    <3> QED BY <3>2, <3>3
  <2>4. Verdict(s \o t, p) = (s \o t)[k].to
    BY <1>1, <2>1, <2>2, <2>3, FirstRuleIs
  <2> QED BY <1>2, <2>1, <2>2, <2>4
<1>3. CASE Misses(s, p) /\ Misses(t, p)
  BY <1>3, Joined, NoRule
<1>4. CASE Misses(s, p) /\ ~Misses(t, p)
  <2>1. PICK k \in DOMAIN t : /\ Matches(t[k].on, p) /\ Verdict(t, p) = t[k].to
                              /\ \A j \in DOMAIN t : Matches(t[j].on, p) => k <= j
    BY <1>4, FirstRule DEF Misses
  <2>2. k \in Nat /\ Len(s) + k \in DOMAIN (s \o t) /\ (s \o t)[Len(s) + k] = t[k]
    BY <1>1, <2>1
  <2>3. ASSUME NEW j \in DOMAIN (s \o t), Matches((s \o t)[j].on, p) PROVE Len(s) + k <= j
    <3>1. j \in Nat /\ j \notin 1 .. Len(s)
      BY <1>1, <1>4, <2>3 DEF Misses
    <3>2. j - Len(s) \in 1 .. Len(t) /\ Len(s) + (j - Len(s)) = j
      BY <1>1, <3>1
    <3>3. (s \o t)[j] = t[j - Len(s)]
      BY <1>1, <3>2
    <3>4. k <= j - Len(s)
      BY <1>1, <2>1, <2>3, <3>2, <3>3
    <3> QED BY <1>1, <2>2, <3>1, <3>4
  <2>4. Verdict(s \o t, p) = (s \o t)[Len(s) + k].to
    <3> DEFINE n == Len(s) + k
    <3>1. n \in DOMAIN (s \o t) /\ Matches((s \o t)[n].on, p)
      BY <2>1, <2>2
    <3> HIDE DEF n
    <3>2. \A j \in DOMAIN (s \o t) : Matches((s \o t)[j].on, p) => n <= j
      BY <2>3 DEF n
    <3> QED BY <1>1, <3>1, <3>2, FirstRuleIs DEF n
  <2> QED BY <1>4, <2>1, <2>2, <2>4
<1> QED BY <1>2, <1>3, <1>4

\* A packet that gets past rules that only return matches none of them.
LEMMA Passed ==
    ASSUME NEW s \in Seq(Rule), NEW t \in Seq(Rule), NEW p, Returns(s),
           Verdict(s \o t, p) # "RETURN"
    PROVE  Misses(s, p) /\ Verdict(t, p) = Verdict(s \o t, p)
<1>1. ~Misses(s, p) => Verdict(s, p) = "RETURN"
  BY FirstRule DEF Returns, Misses
<1> QED BY <1>1, JoinedVerdict

\* A verdict but RETURN is that of a rule that matches.
LEMMA Decided ==
    ASSUME NEW s \in Seq(Rule), NEW p, Verdict(s, p) # "RETURN"
    PROVE  \E i \in DOMAIN s : Matches(s[i].on, p) /\ s[i].to = Verdict(s, p)
  BY FirstRule, NoRule DEF Misses

-----------------------------------------------------------------------------
(* What the chains of one configuration divert *)

\* The rules Start writes match sets of packets.
LEMMA MatchTypes ==
    /\ Every \in Match /\ AnyDns \in Match /\ NotDns \in Match /\ Quic \in Match
    /\ \A s \in SUBSET (LanSrc \cup OwnSrc) :
           /\ Src(s) \in Match /\ NotFrom(s) \in Match /\ [Proto("tcp") EXCEPT !.src = s] \in Match
           /\ [Every EXCEPT !.src = @ \ s] \in Match /\ [AnyDns EXCEPT !.src = s] \in Match
    /\ \A t \in {"tcp", "udp"} : Proto(t) \in Match
    /\ \A d \in {"private", "cn", "world", "fake"}, fs \in SUBSET Families :
           Dst(d) \in Match /\ [Dst(d) EXCEPT !.fam = fs] \in Match
    /\ [Every EXCEPT !.fam = {6}] \in Match
  BY DEF Match, Every, AnyDns, NotDns, Quic, Src, NotFrom, Proto, Dst, Families

\* What the matches that matter mean.
LEMMA Meaning ==
    ASSUME NEW p \in Packets
    PROVE  /\ Matches(Every, p)
           /\ Matches(AnyDns, p) <=> p.port = "dns"
           /\ Matches(NotDns, p) <=> p.port # "dns"
           /\ \A s : Matches(Src(s), p) <=> p.src \in s
           /\ \A d : Matches(Dst(d), p) <=> p.dst = d
           /\ \A s : Matches([Proto("tcp") EXCEPT !.src = s], p) => p.src \in s
           /\ \A s : Matches([AnyDns EXCEPT !.src = s], p) => p.src \in s /\ p.port = "dns"
           /\ \A fs : Matches([Dst("private") EXCEPT !.fam = fs], p) <=> p.dst = "private" /\ p.fam \in fs
           /\ Matches([Every EXCEPT !.fam = {6}], p) <=> p.fam = 6
           /\ \A s : Matches(NotFrom(s), p) <=> p.fam = 4 /\ p.src \notin s
  BY DEF Packets, Matches, Every, AnyDns, NotDns, Src, NotFrom, Proto, Dst, Families

LEMMA FilterMeaning ==
    ASSUME NEW p \in Packets
    PROVE  /\ \A t \in {"tcp", "udp"} : Matches(Proto(t), p) <=> p.proto = t
           /\ Matches(Dns("tcp"), p) <=> p.proto = "tcp" /\ p.port = "dns"
           /\ \A s : Matches([Proto("tcp") EXCEPT !.src = s], p) => p.proto = "tcp"
           /\ \A s : Matches([Every EXCEPT !.src = @ \ s], p) <=> p.src \notin s
           /\ Matches(Quic, p) <=> p.proto = "udp" /\ p.port = "https"
           /\ Matches([Dst("cn") EXCEPT !.fam = {4}], p) <=> p.dst = "cn" /\ p.fam = 4
  BY DEF Packets, Matches, Every, Proto, Dns, Quic, Dst, Families

\* A rule that returns, and one that diverts.
LEMMA RuleTypes ==
    ASSUME NEW m \in Match
    PROVE  /\ Return(m) \in Rule /\ Return(m).to = "RETURN" /\ Return(m).on = m
           /\ \A target \in {"REDIRECT", "DNS", "MARK"} :
                  /\ Jump(m, target) \in Rule /\ Jump(m, target).to = target
                  /\ Jump(m, target).on = m
  BY DEF Rule, Return, Jump

\* Short sequences of rules.
LEMMA OneRule ==
    ASSUME NEW r \in Rule, NEW p
    PROVE  /\ <<r>> \in Seq(Rule)
           /\ Returns(<<r>>) <=> r.to = "RETURN"
           /\ Misses(<<r>>, p) <=> ~Matches(r.on, p)
  BY DEF Returns, Misses

LEMMA TwoRules ==
    ASSUME NEW r \in Rule, NEW s \in Rule, NEW p
    PROVE  /\ <<r, s>> \in Seq(Rule)
           /\ Returns(<<r, s>>) <=> r.to = "RETURN" /\ s.to = "RETURN"
           /\ Misses(<<r, s>>, p) <=> ~Matches(r.on, p) /\ ~Matches(s.on, p)
  BY DEF Returns, Misses

LEMMA ThreeRules ==
    ASSUME NEW r \in Rule, NEW s \in Rule, NEW t \in Rule, NEW p
    PROVE  /\ <<r, s, t>> \in Seq(Rule)
           /\ Returns(<<r, s, t>>) <=> r.to = "RETURN" /\ s.to = "RETURN" /\ t.to = "RETURN"
           /\ Misses(<<r, s, t>>, p) <=> /\ ~Matches(r.on, p) /\ ~Matches(s.on, p)
                                         /\ ~Matches(t.on, p)
  BY DEF Returns, Misses

LEMMA NoRules ==
    ASSUME NEW p
    PROVE  <<>> \in Seq(Rule) /\ Returns(<<>>) /\ Misses(<<>>, p)
  BY DEF Returns, Misses

\* A conditional part of a chain.
LEMMA Conditional ==
    ASSUME NEW seq \in Seq(Rule), NEW p, NEW b \in BOOLEAN
    PROVE  /\ If(b, seq) \in Seq(Rule)
           /\ Returns(seq) => Returns(If(b, seq))
           /\ b /\ Misses(If(b, seq), p) => Misses(seq, p)
  BY NoRules DEF If

LEMMA CnTypes ==
    ASSUME NEW c, NEW f, NEW have
    PROVE  CnReturn(c, f, have) \in Seq(Rule) /\ Returns(CnReturn(c, f, have))
<1>1. Return(Dst("cn")) \in Rule /\ Return(Dst("cn")).to = "RETURN"
  BY MatchTypes, RuleTypes
<1>2. <<Return(Dst("cn"))>> \in Seq(Rule) /\ Returns(<<Return(Dst("cn"))>>)
  BY <1>1, OneRule
<1>3. (SetCN(c) /\ f \in have) \in BOOLEAN
  OBVIOUS
<1> QED BY <1>2, NoRules DEF CnReturn, If

\* The sources an iptables chain can name.
LEMMA Sources == SrcIn(Nets) \subseteq LanSrc \cup OwnSrc
  BY FirewallAssumption DEF SrcIn, LanSrc, OwnSrc

LEMMA RedirTypes ==
    ASSUME NEW c, NEW have, NEW srcs \in SUBSET (LanSrc \cup OwnSrc)
    PROVE  RedirChain(c, srcs, have) \in Seq(Rule)
<1> DEFINE a == Return(Dns("tcp"))
           b == Return(Src({}))
           d == Jump([Proto("tcp") EXCEPT !.src = srcs], "REDIRECT")
           e == Return(Every)
<1>1. Dns("tcp") \in Match
  BY DEF Dns, Match, Every
<1>2. a \in Rule /\ b \in Rule /\ d \in Rule /\ e \in Rule
  BY <1>1, MatchTypes, RuleTypes
<1> HIDE DEF a, b, d, e
<1>3. <<a, b, d>> \in Seq(Rule) /\ <<e>> \in Seq(Rule)
  BY <1>2
<1>4. (<<a, b, d>> \o CnReturn(c, 4, have)) \o <<e>> \in Seq(Rule)
  BY <1>3, CnTypes, Joined
<1> QED BY <1>4 DEF RedirChain, a, b, d, e

\* A redirect chain takes TCP, and no queries.
LEMMA RedirScope ==
    ASSUME NEW c, NEW have, NEW srcs \in SUBSET (LanSrc \cup OwnSrc), NEW p \in Packets,
           Verdict(RedirChain(c, srcs, have), p) # "RETURN"
    PROVE  p.proto = "tcp" /\ p.port # "dns"
<1> DEFINE a == Return(Dns("tcp"))
           b == Return(Src({}))
           d == Jump([Proto("tcp") EXCEPT !.src = srcs], "REDIRECT")
           e == Return(Every)
           s == <<a, b, d>>
           t == CnReturn(c, 4, have)
<1>1. Dns("tcp") \in Match
  BY DEF Dns, Match, Every
<1>2. /\ a \in Rule /\ b \in Rule /\ d \in Rule /\ e \in Rule
      /\ a.to = "RETURN" /\ b.to = "RETURN" /\ e.to = "RETURN"
      /\ a.on = Dns("tcp") /\ d.on = [Proto("tcp") EXCEPT !.src = srcs]
  BY <1>1, MatchTypes, RuleTypes
<1>3. RedirChain(c, srcs, have) = (s \o t) \o <<e>>
  BY DEF RedirChain
<1> HIDE DEF a, b, d, e
<1>4. s \in Seq(Rule) /\ <<e>> \in Seq(Rule) /\ Returns(<<e>>)
  BY <1>2, ThreeRules, OneRule
<1>5. t \in Seq(Rule) /\ Returns(t)
  BY CnTypes
<1> HIDE DEF t
<1>6. Verdict(t, p) = "RETURN" /\ Verdict(<<e>>, p) = "RETURN"
  BY <1>4, <1>5, Decided DEF Returns
<1> HIDE DEF s
<1>7. s \o t \in Seq(Rule)
  BY <1>4, <1>5, Joined
<1>8. Verdict(s, p) # "RETURN"
  <2> DEFINE st == s \o t
             last == <<e>>
  <2>1. Verdict(st \o last, p) # "RETURN" BY <1>3
  <2>2. st \in Seq(Rule) /\ last \in Seq(Rule) /\ Verdict(last, p) = "RETURN" BY <1>4, <1>6, <1>7
  <2> HIDE DEF st, last
  <2>3. Verdict(st, p) # "RETURN" BY <2>1, <2>2, JoinedVerdict
  <2> QED BY <2>3, <1>4, <1>5, <1>6, JoinedVerdict DEF st
<1>9. PICK k \in DOMAIN s : /\ Matches(s[k].on, p) /\ Verdict(s, p) = s[k].to
                            /\ \A j \in DOMAIN s : Matches(s[j].on, p) => k <= j
  <2>1. ~Misses(s, p) BY <1>8, NoRule
  <2> QED BY <2>1, <1>4, FirstRule DEF Misses
<1>10. DOMAIN s = 1 .. 3 /\ s[1] = a /\ s[2] = b /\ s[3] = d
  BY DEF s
<1>11. k = 3
  BY <1>2, <1>8, <1>9, <1>10
<1>12. Matches(d.on, p) /\ ~Matches(a.on, p)
  BY <1>9, <1>10, <1>11
<1>13. p.proto = "tcp"
  <2>1. Matches([Proto("tcp") EXCEPT !.src = srcs], p) BY <1>2, <1>12
  <2> QED BY <2>1, FilterMeaning, Zenon
<1>14. ~(p.proto = "tcp" /\ p.port = "dns")
  <2>1. ~Matches(Dns("tcp"), p) BY <1>2, <1>12
  <2> QED BY <2>1, FilterMeaning, Zenon
<1> QED BY <1>13, <1>14

\* The MARK rules at the end of a mark chain.
MarkRules(c) == [i \in DOMAIN MarkProtos(c) |-> Jump(Proto(MarkProtos(c)[i]), "MARK")]

LEMMA MarkRulesType == ASSUME NEW c PROVE MarkRules(c) \in Seq(Rule)
<1>1. MarkProtos(c) \in Seq({"tcp", "udp"})
  <2>1. \/ MarkProtos(c) = <<"tcp", "udp">> \/ MarkProtos(c) = <<"udp">>
        \/ MarkProtos(c) = <<"tcp">> \/ MarkProtos(c) = <<>>
    BY DEF MarkProtos
  <2>2. /\ <<"tcp", "udp">> \in Seq({"tcp", "udp"}) /\ <<"udp">> \in Seq({"tcp", "udp"})
        /\ <<"tcp">> \in Seq({"tcp", "udp"}) /\ <<>> \in Seq({"tcp", "udp"})
    OBVIOUS
  <2> QED BY <2>1, <2>2, Zenon
<1>2. \A i \in DOMAIN MarkProtos(c) : Jump(Proto(MarkProtos(c)[i]), "MARK") \in Rule
  BY <1>1, MatchTypes, RuleTypes, ElementOfSeq, LenProperties
<1>3. DOMAIN MarkProtos(c) = 1 .. Len(MarkProtos(c)) /\ Len(MarkProtos(c)) \in Nat
  BY <1>1, LenProperties
<1> QED BY <1>2, <1>3, SeqDef DEF MarkRules

\* A packet a MARK rule matches is one of a protocol of the mode.
LEMMA MarkRulesScope ==
    ASSUME NEW c, NEW p \in Packets, Verdict(MarkRules(c), p) # "RETURN"
    PROVE  c.redir \notin {"Redir", "Pure"} /\ (c.redir = "TCP" => p.proto = "tcp")
<1>1. PICK i \in DOMAIN MarkRules(c) : Matches(MarkRules(c)[i].on, p)
  BY MarkRulesType, Decided
<1>2. i \in DOMAIN MarkProtos(c) /\ MarkRules(c)[i].on = Proto(MarkProtos(c)[i])
  BY <1>1, RuleTypes DEF MarkRules, Jump
<1>3. c.redir \in {"Redir", "Pure"} => MarkProtos(c) = <<>>
  BY DEF MarkProtos
<1>4. c.redir = "TCP" => MarkProtos(c) = <<"tcp">>
  BY DEF MarkProtos
<1>5. ASSUME c.redir = "TCP" PROVE p.proto = "tcp"
  <2>1. MarkProtos(c)[i] = "tcp" BY <1>2, <1>4, <1>5
  <2> QED BY <1>1, <1>2, <2>1, FilterMeaning
<1> QED BY <1>2, <1>3, <1>5

\* A mark chain marks neither DNS nor what the core sends nor private traffic,
\* nor CN where the list is there.
LEMMA MarkScope ==
    ASSUME NEW c, NEW f, NEW have, NEW p \in Packets
    PROVE  /\ MarkChain(c, f, have) \in Seq(Rule)
           /\ Verdict(MarkChain(c, f, have), p) # "RETURN" =>
                  /\ p.port # "dns" /\ p.src # "core" /\ p.dst # "private"
                  /\ p.dst = "cn" /\ SetCN(c) => f \notin have
                  /\ c.redir \notin {"Redir", "Pure"} /\ (c.redir = "TCP" => p.proto = "tcp")
<1> DEFINE a == Return(AnyDns)
           b == Return(Src({"core"}))
           d == Return(Dst("private"))
           s == <<a, b, d>>
           t == CnReturn(c, f, have)
<1>1. /\ a \in Rule /\ b \in Rule /\ d \in Rule
      /\ a.to = "RETURN" /\ b.to = "RETURN" /\ d.to = "RETURN"
      /\ a.on = AnyDns /\ b.on = Src({"core"}) /\ d.on = Dst("private")
  BY MatchTypes, RuleTypes DEF OwnSrc
<1> HIDE DEF a, b, d
<1>2. s \in Seq(Rule) /\ Returns(s)
  BY <1>1, ThreeRules
<1>3. Misses(s, p) => ~Matches(AnyDns, p) /\ ~Matches(Src({"core"}), p) /\ ~Matches(Dst("private"), p)
  BY <1>1, ThreeRules
<1> HIDE DEF s
<1>4. t \in Seq(Rule) /\ Returns(t)
  BY CnTypes
<1>9. Misses(t, p) /\ p.dst = "cn" /\ SetCN(c) => f \notin have
  <2> DEFINE g == Return(Dst("cn"))
  <2>1. g \in Rule /\ g.on = Dst("cn") BY MatchTypes, RuleTypes
  <2>2. SetCN(c) /\ f \in have => t = <<g>> BY DEF CnReturn, If
  <2> HIDE DEF g, t
  <2> QED BY <2>1, <2>2, OneRule, Meaning
<1> HIDE DEF t
<1>5. /\ s \o t \in Seq(Rule) /\ Returns(s \o t)
      /\ Misses(s \o t, p) => Misses(s, p) /\ Misses(t, p)
  BY <1>2, <1>4, Joined
<1>6. (s \o t) \o MarkRules(c) \in Seq(Rule)
  BY <1>5, MarkRulesType, Joined
<1>7. Verdict((s \o t) \o MarkRules(c), p) # "RETURN" =>
          Misses(s, p) /\ Misses(t, p) /\ Verdict(MarkRules(c), p) # "RETURN"
  BY <1>5, MarkRulesType, Passed
<1>8. MarkChain(c, f, have) = (s \o t) \o MarkRules(c)
  BY DEF MarkChain, MarkRules, s, t, a, b, d
<1> QED BY <1>3, <1>6, <1>7, <1>8, <1>9, Meaning, MarkRulesScope

LEMMA DnsScope ==
    ASSUME NEW p \in Packets
    PROVE  /\ DnsChain \in Seq(Rule)
           /\ Verdict(DnsChain, p) # "RETURN" => p.port = "dns"
<1> DEFINE a == Jump(AnyDns, "DNS")
<1>1. a \in Rule /\ a.on = AnyDns
  BY MatchTypes, RuleTypes
<1> HIDE DEF a
<1>2. <<a>> \in Seq(Rule) /\ (Verdict(<<a>>, p) # "RETURN" => Matches(AnyDns, p))
  BY <1>1, OneRule, NoRule
<1> QED BY <1>2, Meaning DEF DnsChain, a

\* The chains of virtual machines take what comes from one.
VmDnsChain == <<Jump([AnyDns EXCEPT !.src = {"vm"}], "DNS")>>
VmChain == <<Return(AnyDns), Return(Src({"core"})), Jump([Proto("tcp") EXCEPT !.src = {"vm"}], "REDIRECT")>>

LEMMA VmScope ==
    ASSUME NEW p \in Packets
    PROVE  /\ VmDnsChain \in Seq(Rule) /\ VmChain \in Seq(Rule)
           /\ Verdict(VmDnsChain, p) # "RETURN" => p.src = "vm" /\ p.port = "dns"
           /\ Verdict(VmChain, p) # "RETURN" => p.src = "vm" /\ p.proto = "tcp"
<1> DEFINE a == Jump([AnyDns EXCEPT !.src = {"vm"}], "DNS")
           b == Return(AnyDns)
           d == Return(Src({"core"}))
           e == Jump([Proto("tcp") EXCEPT !.src = {"vm"}], "REDIRECT")
<1>0. {"vm"} \in SUBSET (LanSrc \cup OwnSrc) /\ {"core"} \in SUBSET (LanSrc \cup OwnSrc)
  BY DEF LanSrc, OwnSrc
<1>1. /\ a \in Rule /\ a.on = [AnyDns EXCEPT !.src = {"vm"}]
      /\ b \in Rule /\ b.to = "RETURN" /\ d \in Rule /\ d.to = "RETURN"
      /\ e \in Rule /\ e.on = [Proto("tcp") EXCEPT !.src = {"vm"}]
  BY <1>0, MatchTypes, RuleTypes
<1>2. /\ Matches(a.on, p) => p.src = "vm" /\ p.port = "dns"
      /\ Matches(e.on, p) => p.src = "vm" /\ p.proto = "tcp"
  <2>1. Matches([AnyDns EXCEPT !.src = {"vm"}], p) => p.src \in {"vm"} /\ p.port = "dns"
    BY Meaning, Zenon
  <2>2. Matches([Proto("tcp") EXCEPT !.src = {"vm"}], p) => p.src \in {"vm"} /\ p.proto = "tcp"
    BY Meaning, FilterMeaning, Zenon
  <2> QED BY <1>1, <2>1, <2>2
<1> HIDE DEF a, b, d, e
<1>3. <<a>> \in Seq(Rule) /\ (Verdict(<<a>>, p) # "RETURN" => Matches(a.on, p))
  BY <1>1, OneRule, NoRule
<1>4. <<b, d, e>> \in Seq(Rule)
  BY <1>1, ThreeRules
<1>5. ASSUME Verdict(<<b, d, e>>, p) # "RETURN" PROVE Matches(e.on, p)
  <2>1. PICK i \in DOMAIN <<b, d, e>> : /\ Matches(<<b, d, e>>[i].on, p)
                                        /\ <<b, d, e>>[i].to = Verdict(<<b, d, e>>, p)
    BY <1>4, <1>5, Decided
  <2>2. i \in 1 .. 3
    BY <2>1
  <2>3. i = 3
    BY <1>1, <1>5, <2>1, <2>2
  <2> QED BY <2>1, <2>3
<1> QED BY <1>2, <1>3, <1>4, <1>5 DEF VmDnsChain, VmChain, a, b, d, e

\* Which chains a configuration has, and what is in them.
LEMMA StartedChain ==
    ASSUME NEW c, NEW have, NEW n \in DOMAIN StartChains(c, have)
    PROVE  LET redir == c.redir \in {"Redir", "Mix"}
               body == StartChains(c, have)[n]
           IN  /\ ~Nft(c)
               /\ \/ /\ n = "shellcrash" /\ redir /\ LanProxy(c)
                     /\ body = RedirChain(c, SrcIn(Nets), have)
                  \/ /\ n = "shellcrash_out" /\ redir /\ LocalProxy(c)
                     /\ body = RedirChain(c, SrcIn(Nets) \cup {"loop"}, have)
                  \/ \E f \in MarkFamilies(c) : /\ n = MarkIn(f) /\ LanProxy(c)
                                                /\ body = MarkChain(c, f, have)
                  \/ \E f \in MarkFamilies(c) : /\ n = MarkOut(f) /\ LocalProxy(c)
                                                /\ body = MarkChain(c, f, have)
                  \/ n = "shellcrash_dns" /\ c.area <= 3 /\ LanProxy(c) /\ body = DnsChain
                  \/ n = "shellcrash_dns_out" /\ LocalProxy(c) /\ body = DnsChain
                  \/ n = "shellcrash_vm" /\ c.vm /\ body = VmChain
                  \/ n = "shellcrash_vm_dns" /\ c.vm /\ body = VmDnsChain
<1> DEFINE redir == c.redir \in {"Redir", "Mix"}
           body == StartChains(c, have)[n]
<1>1. ~Nft(c)
  BY DEF StartChains, IfSet
<1>2. \/ n = "shellcrash" /\ redir /\ LanProxy(c)
      \/ n = "shellcrash_out" /\ redir /\ LocalProxy(c)
      \/ \E f \in MarkFamilies(c) : n = MarkIn(f) /\ LanProxy(c)
      \/ \E f \in MarkFamilies(c) : n = MarkOut(f) /\ LocalProxy(c)
      \/ n = "shellcrash_dns" /\ c.area <= 3 /\ LanProxy(c)
      \/ n = "shellcrash_dns_out" /\ LocalProxy(c)
      \/ n = "shellcrash_vm" /\ c.vm
      \/ n = "shellcrash_vm_dns" /\ c.vm
  BY DEF StartChains, IfSet
<1>3. /\ n = "shellcrash" => body = RedirChain(c, SrcIn(Nets), have)
      /\ n = "shellcrash_out" => body = RedirChain(c, SrcIn(Nets) \cup {"loop"}, have)
      /\ n = "shellcrash_dns" => body = DnsChain
      /\ n = "shellcrash_dns_out" => body = DnsChain
      /\ n = "shellcrash_vm" => body = VmChain
      /\ n = "shellcrash_vm_dns" => body = VmDnsChain
  BY DEF StartChains, IfSet, MarkIn, MarkOut, VmChain, VmDnsChain
<1>4. \A f \in MarkFamilies(c) : n = MarkIn(f) \/ n = MarkOut(f) => body = MarkChain(c, f, have)
  BY DEF StartChains, IfSet, MarkIn, MarkOut, MarkFamilies
<1> QED BY <1>1, <1>2, <1>3, <1>4

\* The built-in chain a chain of iptables is entered from, and its address family.
ChainAt(n) == IF n \in {"shellcrash_out", "shellcrash_dns_out", MarkOut(4), MarkOut(6)}
              THEN "OUTPUT" ELSE "PREROUTING"
ChainFam(n) == IF n \in {MarkIn(6), MarkOut(6)} THEN 6 ELSE 4

Serves(c, have, p) == AsksDns(c, p) \/ AsksVm(c, p) \/ AsksProxy(c, have, p)

LEMMA ChainNames ==
    /\ \A f \in Families : /\ ChainAt(MarkIn(f)) = "PREROUTING" /\ ChainFam(MarkIn(f)) = f
                           /\ ChainAt(MarkOut(f)) = "OUTPUT" /\ ChainFam(MarkOut(f)) = f
    /\ \A n \in {"shellcrash", "shellcrash_dns", "shellcrash_vm", "shellcrash_vm_dns"} :
           ChainAt(n) = "PREROUTING" /\ ChainFam(n) = 4
    /\ \A n \in {"shellcrash_out", "shellcrash_dns_out"} :
           ChainAt(n) = "OUTPUT" /\ ChainFam(n) = 4
  BY DEF ChainAt, ChainFam, MarkIn, MarkOut, Families

\* What a chain of iptables diverts is what its configuration asks for.
LEMMA ChainScope ==
    ASSUME NEW c \in ConfigSpace, NEW have, NEW n \in DOMAIN StartChains(c, have),
           NEW p \in Packets, Entry(p) = ChainAt(n), p.fam = ChainFam(n),
           Verdict(StartChains(c, have)[n], p) # "RETURN"
    PROVE  Serves(c, have, p)
<1>0. /\ c.ipv6 \in BOOLEAN /\ ~Nft(c) /\ c.vm \in BOOLEAN
      /\ Entry(p) = "PREROUTING" => p.src \in LanSrc /\ p.src # "core"
      /\ Entry(p) = "OUTPUT" => p.src \in OwnSrc
  BY StartedChain DEF ConfigSpace, Nft, Entry, Packets, LanSrc, OwnSrc
<1>1. ASSUME c.redir \in {"Redir", "Mix"}, p.fam = 4, OfArea(c, p), NEW srcs \in SUBSET (LanSrc \cup OwnSrc),
             StartChains(c, have)[n] = RedirChain(c, srcs, have)
      PROVE  Serves(c, have, p)
  <2>1. p.proto = "tcp" /\ p.port # "dns" BY <1>1, RedirScope
  <2> QED BY <1>0, <1>1, <2>1 DEF Serves, AsksProxy, AsksDevice, ByNat
<1>2. CASE /\ n = "shellcrash" /\ c.redir \in {"Redir", "Mix"} /\ LanProxy(c)
           /\ StartChains(c, have)[n] = RedirChain(c, SrcIn(Nets), have)
  BY <1>0, <1>1, <1>2, ChainNames, Sources DEF OfArea
<1>3. CASE /\ n = "shellcrash_out" /\ c.redir \in {"Redir", "Mix"} /\ LocalProxy(c)
           /\ StartChains(c, have)[n] = RedirChain(c, SrcIn(Nets) \cup {"loop"}, have)
  <2>1. SrcIn(Nets) \cup {"loop"} \in SUBSET (LanSrc \cup OwnSrc) BY Sources DEF OwnSrc
  <2> QED BY <1>0, <1>1, <1>3, <2>1, ChainNames DEF OfArea
<1>4. ASSUME NEW f \in MarkFamilies(c), n \in {MarkIn(f), MarkOut(f)}, OfArea(c, p),
             StartChains(c, have)[n] = MarkChain(c, f, have)
      PROVE  Serves(c, have, p)
  <2>1. /\ p.port # "dns" /\ p.src # "core" /\ p.dst # "private"
        /\ p.dst = "cn" /\ SetCN(c) => f \notin have
        /\ c.redir \notin {"Redir", "Pure"} /\ (c.redir = "TCP" => p.proto = "tcp")
    BY <1>4, MarkScope
  <2>2. f \in Families /\ (f = 6 => c.ipv6) /\ p.fam = f
    BY <1>0, <1>4, ChainNames DEF MarkFamilies, Families
  <2> QED BY <1>0, <1>4, <2>1, <2>2 DEF Serves, AsksProxy, AsksDevice
<1>5. ASSUME NEW f \in MarkFamilies(c)
      PROVE  /\ n = MarkIn(f) /\ LanProxy(c) => OfArea(c, p)
             /\ n = MarkOut(f) /\ LocalProxy(c) => OfArea(c, p)
  <2>1. f \in Families BY DEF MarkFamilies, Families
  <2> QED BY <1>0, <2>1, ChainNames DEF OfArea
<1>6. CASE n = "shellcrash_dns" /\ c.area <= 3 /\ LanProxy(c) /\ StartChains(c, have)[n] = DnsChain
  BY <1>0, <1>6, ChainNames, DnsScope DEF Serves, AsksDns, OfArea
<1>7. CASE n = "shellcrash_dns_out" /\ LocalProxy(c) /\ StartChains(c, have)[n] = DnsChain
  <2>1. c.area <= 3 BY <1>7 DEF LocalProxy
  <2> QED BY <1>0, <1>7, <2>1, ChainNames, DnsScope DEF Serves, AsksDns, OfArea
<1>8. CASE n = "shellcrash_vm" /\ c.vm /\ StartChains(c, have)[n] = VmChain
  BY <1>0, <1>8, ChainNames, VmScope DEF Serves, AsksVm, OfVm
<1>9. CASE n = "shellcrash_vm_dns" /\ c.vm /\ StartChains(c, have)[n] = VmDnsChain
  BY <1>0, <1>9, ChainNames, VmScope DEF Serves, AsksDns, OfVm
<1> QED BY <1>2, <1>3, <1>4, <1>5, <1>6, <1>7, <1>8, <1>9, StartedChain

\* Every chain of ours is a sequence of rules.
LEMMA StartedTypes ==
    ASSUME NEW c, NEW have, NEW n \in DOMAIN StartChains(c, have)
    PROVE  StartChains(c, have)[n] \in Seq(Rule)
<1>1. \A p \in Packets : /\ DnsChain \in Seq(Rule) /\ VmChain \in Seq(Rule) /\ VmDnsChain \in Seq(Rule)
                         /\ \A f : MarkChain(c, f, have) \in Seq(Rule)
  BY DnsScope, VmScope, MarkScope
<1>2. Packets # {}
  <2>1. [fam |-> 4, src |-> "lan", proto |-> "tcp", port |-> "dns", dst |-> "cn"] \in Packets
    BY DEF Packets, Families, LanSrc, OwnSrc
  <2> QED BY <2>1
<1>3. /\ RedirChain(c, SrcIn(Nets), have) \in Seq(Rule)
      /\ RedirChain(c, SrcIn(Nets) \cup {"loop"}, have) \in Seq(Rule)
  BY Sources, RedirTypes DEF OwnSrc
<1> QED BY <1>1, <1>2, <1>3, StartedChain

\* The parts of a redirect chain of nftables.
LEMMA DeviceTypes ==
    ASSUME NEW c \in ConfigSpace
    PROVE  DeviceReturns(c) \in Seq(Rule) /\ Returns(DeviceReturns(c))
<1> DEFINE a == Return([Every EXCEPT !.src = @ \ {"guest"}])
           b == Return(Src({"guest"}))
           d == Return(NotFrom(SrcIn(Nets)))
<1>1. {"guest"} \in SUBSET (LanSrc \cup OwnSrc) /\ SrcIn(Nets) \in SUBSET (LanSrc \cup OwnSrc)
  BY Sources DEF LanSrc
<1>2. /\ a \in Rule /\ b \in Rule /\ d \in Rule
      /\ a.to = "RETURN" /\ b.to = "RETURN" /\ d.to = "RETURN"
  BY <1>1, MatchTypes, RuleTypes
<1> HIDE DEF a, b, d
<1>3. /\ <<a>> \in Seq(Rule) /\ Returns(<<a>>) /\ <<b, d>> \in Seq(Rule) /\ Returns(<<b, d>>)
      /\ <<d>> \in Seq(Rule) /\ Returns(<<d>>)
  BY <1>2, OneRule, TwoRules
<1>4. DeviceReturns(c) = <<a>> \/ DeviceReturns(c) = <<b, d>> \/ DeviceReturns(c) = <<d>>
  BY DEF DeviceReturns, ConfigSpace, a, b, d
<1> QED BY <1>3, <1>4

LEMMA TargetTypes == ASSUME NEW c PROVE NftTargets(c) \in Seq(Rule)
<1> DEFINE rtcp == Jump(Proto("tcp"), "REDIRECT")
           mudp == Jump(Proto("udp"), "MARK")
           mtcp == Jump(Proto("tcp"), "MARK")
           mall == Jump(Every, "MARK")
<1>1. rtcp \in Rule /\ mudp \in Rule /\ mtcp \in Rule /\ mall \in Rule
  BY MatchTypes, RuleTypes
<1> HIDE DEF rtcp, mudp, mtcp, mall
<1>2. /\ <<rtcp>> \in Seq(Rule) /\ <<mudp, rtcp>> \in Seq(Rule) /\ <<mtcp>> \in Seq(Rule)
      /\ <<mall>> \in Seq(Rule)
  BY <1>1
<1>3. \/ NftTargets(c) = <<rtcp>> \/ NftTargets(c) = <<mudp, rtcp>>
      \/ NftTargets(c) = <<mtcp>> \/ NftTargets(c) = <<mall>>
  BY DEF NftTargets, rtcp, mudp, mtcp, mall
<1> QED BY <1>2, <1>3

\* A packet the device rules let by is of a device that is to be proxied.
LEMMA DeviceScope ==
    ASSUME NEW c \in ConfigSpace, NEW p \in Packets, Misses(DeviceReturns(c), p)
    PROVE  /\ c.devices = "black" => p.src # "guest"
           /\ c.devices = "white" => p.src = "guest"
<1> DEFINE a == Return([Every EXCEPT !.src = @ \ {"guest"}])
           b == Return(Src({"guest"}))
           d == Return(NotFrom(SrcIn(Nets)))
<1>1. {"guest"} \in SUBSET (LanSrc \cup OwnSrc) /\ SrcIn(Nets) \in SUBSET (LanSrc \cup OwnSrc)
  BY Sources DEF LanSrc
<1>2. /\ a \in Rule /\ b \in Rule /\ d \in Rule
      /\ a.on = [Every EXCEPT !.src = @ \ {"guest"}] /\ b.on = Src({"guest"})
  BY <1>1, MatchTypes, RuleTypes
<1>3. /\ c.devices = "white" => DeviceReturns(c) = <<a>>
      /\ c.devices = "black" => DeviceReturns(c) = <<b, d>>
  BY DEF DeviceReturns
<1> HIDE DEF a, b, d
<1>4. c.devices = "white" => ~Matches([Every EXCEPT !.src = @ \ {"guest"}], p)
  BY <1>2, <1>3, OneRule
<1>5. c.devices = "black" => ~Matches(Src({"guest"}), p)
  BY <1>2, <1>3, TwoRules
<1>6. (Matches([Every EXCEPT !.src = @ \ {"guest"}], p) <=> p.src \notin {"guest"})
      /\ (Matches(Src({"guest"}), p) <=> p.src \in {"guest"})
  BY Meaning, FilterMeaning
<1> QED BY <1>4, <1>5, <1>6

\* What the last rules take.
LEMMA TargetScope ==
    ASSUME NEW c, NEW p \in Packets, Verdict(NftTargets(c), p) # "RETURN"
    PROVE  c.redir \in {"Redir", "TCP"} => p.proto = "tcp"
<1> DEFINE rtcp == Jump(Proto("tcp"), "REDIRECT")
           mtcp == Jump(Proto("tcp"), "MARK")
<1>1. rtcp \in Rule /\ mtcp \in Rule /\ rtcp.on = Proto("tcp") /\ mtcp.on = Proto("tcp")
  BY MatchTypes, RuleTypes
<1>2. /\ c.redir = "Redir" => NftTargets(c) = <<rtcp>>
      /\ c.redir = "TCP" => NftTargets(c) = <<mtcp>>
  BY DEF NftTargets
<1> HIDE DEF rtcp, mtcp
<1>3. c.redir \in {"Redir", "TCP"} => Matches(Proto("tcp"), p)
  <2>1. \A t \in {rtcp, mtcp} : Misses(<<t>>, p) <=> ~Matches(t.on, p)
    BY <1>1, OneRule
  <2> QED BY <1>1, <1>2, <2>1, NoRule
<1> QED BY <1>3, FilterMeaning

\* A redirect chain diverts neither DNS nor the core's packets nor private traffic,
\* and IPv6, CN, QUIC and a device only where it is asked for.
LEMMA NftRedirScope ==
    ASSUME NEW c \in ConfigSpace, NEW lan \in BOOLEAN, NEW have, NEW p \in Packets,
           Verdict(NftRedir(c, lan, have), p) # "RETURN"
    PROVE  /\ p.port # "dns" /\ p.src # "core" /\ p.dst # "private" /\ (p.fam = 6 => c.ipv6)
           /\ p.dst = "cn" /\ SetCN(c) /\ p.fam \in have => p.fam = 6
           /\ lan => /\ c.devices = "black" => p.src # "guest"
                     /\ c.devices = "white" => p.src = "guest"
                     /\ ~(c.quic /\ p.proto = "udp" /\ p.port = "https")
           /\ c.redir \in {"Redir", "TCP"} => p.proto = "tcp"
<1> DEFINE dns == Return(AnyDns)
           core_ == Return(Src({"core"}))
           fs == IF c.ipv6 THEN Families ELSE {4}
           private == Return([Dst("private") EXCEPT !.fam = fs])
           six == Return([Every EXCEPT !.fam = {6}])
           cn == Return([Dst("cn") EXCEPT !.fam = {4}])
           udp == Return(Quic)
           A == <<dns, core_>>
           B == If(lan, DeviceReturns(c))
           C == <<private>>
           D == If(~c.ipv6, <<six>>)
           E == If(SetCN(c) /\ 4 \in have, <<cn>>)
           F == If(c.quic /\ lan, <<udp>>)
           T == NftTargets(c)
<1>0. c.ipv6 \in BOOLEAN /\ c.quic \in BOOLEAN /\ p.fam \in Families
  BY DEF ConfigSpace, Packets
<1>1. /\ dns \in Rule /\ core_ \in Rule /\ private \in Rule /\ six \in Rule /\ cn \in Rule /\ udp \in Rule
      /\ dns.to = "RETURN" /\ core_.to = "RETURN" /\ private.to = "RETURN" /\ six.to = "RETURN"
      /\ cn.to = "RETURN" /\ udp.to = "RETURN"
      /\ dns.on = AnyDns /\ core_.on = Src({"core"})
      /\ private.on = [Dst("private") EXCEPT !.fam = fs] /\ six.on = [Every EXCEPT !.fam = {6}]
      /\ cn.on = [Dst("cn") EXCEPT !.fam = {4}] /\ udp.on = Quic
  <2>1. /\ {"core"} \in SUBSET (LanSrc \cup OwnSrc)
        /\ fs \in SUBSET Families /\ {4} \in SUBSET Families
    BY DEF OwnSrc, Families
  <2> QED BY <2>1, MatchTypes, RuleTypes
<1>2. [Dst("private") EXCEPT !.fam = IF c.ipv6 THEN @ ELSE {4}] = [Dst("private") EXCEPT !.fam = fs]
  BY <1>0 DEF Dst, Every
<1>3. NftRedir(c, lan, have) = (((((A \o B) \o C) \o D) \o E) \o F) \o T
  BY <1>2 DEF NftRedir
<1>4. /\ ~Matches(AnyDns, p) => p.port # "dns"
      /\ ~Matches(Src({"core"}), p) => p.src # "core"
      /\ ~Matches([Dst("private") EXCEPT !.fam = fs], p) => p.dst # "private" \/ p.fam \notin fs
      /\ ~Matches([Every EXCEPT !.fam = {6}], p) => p.fam # 6
  <2>1. Matches(AnyDns, p) <=> p.port = "dns"
    BY Meaning
  <2>2. Matches(Src({"core"}), p) <=> p.src \in {"core"}
    BY Meaning
  <2>3. Matches([Dst("private") EXCEPT !.fam = fs], p) <=> p.dst = "private" /\ p.fam \in fs
    BY Meaning, Zenon
  <2>4. Matches([Every EXCEPT !.fam = {6}], p) <=> p.fam = 6
    BY Meaning
  <2> QED BY <2>1, <2>2, <2>3, <2>4
<1>5. fs = IF c.ipv6 THEN Families ELSE {4}
  OBVIOUS
<1> HIDE DEF dns, core_, private, six, cn, udp, fs
<1>6. /\ A \in Seq(Rule) /\ Returns(A)
      /\ Misses(A, p) => ~Matches(AnyDns, p) /\ ~Matches(Src({"core"}), p)
  BY <1>1, TwoRules
<1>7. B \in Seq(Rule) /\ Returns(B) /\ (lan /\ Misses(B, p) => Misses(DeviceReturns(c), p))
  BY DeviceTypes, Conditional
<1>8. /\ C \in Seq(Rule) /\ Returns(C)
      /\ Misses(C, p) => ~Matches([Dst("private") EXCEPT !.fam = fs], p)
  BY <1>1, OneRule
<1>9. /\ D \in Seq(Rule) /\ Returns(D)
      /\ ~c.ipv6 /\ Misses(D, p) => ~Matches([Every EXCEPT !.fam = {6}], p)
  <2>1. <<six>> \in Seq(Rule) /\ Returns(<<six>>) /\ (Misses(<<six>>, p) <=> ~Matches(six.on, p))
    BY <1>1, OneRule
  <2> QED BY <1>0, <1>1, <2>1, Conditional
<1>10. /\ E \in Seq(Rule) /\ Returns(E)
       /\ SetCN(c) /\ 4 \in have /\ Misses(E, p) => ~Matches([Dst("cn") EXCEPT !.fam = {4}], p)
  <2>1. <<cn>> \in Seq(Rule) /\ Returns(<<cn>>) /\ (Misses(<<cn>>, p) <=> ~Matches(cn.on, p))
    BY <1>1, OneRule
  <2>2. (SetCN(c) /\ 4 \in have) \in BOOLEAN
    OBVIOUS
  <2> QED BY <1>1, <2>1, <2>2, Conditional
<1>11. /\ F \in Seq(Rule) /\ Returns(F)
       /\ c.quic /\ lan /\ Misses(F, p) => ~Matches(Quic, p)
  <2>1. <<udp>> \in Seq(Rule) /\ Returns(<<udp>>) /\ (Misses(<<udp>>, p) <=> ~Matches(udp.on, p))
    BY <1>1, OneRule
  <2> QED BY <1>0, <1>1, <2>1, Conditional
<1>12. T \in Seq(Rule)
  BY TargetTypes
<1> HIDE DEF A, B, C, D, E, F, T
<1>13. /\ A \o B \in Seq(Rule) /\ Returns(A \o B) /\ (Misses(A \o B, p) => Misses(A, p) /\ Misses(B, p))
  BY <1>6, <1>7, Joined
<1> DEFINE X == A \o B
<1> HIDE DEF X
<1>14. /\ X \o C \in Seq(Rule) /\ Returns(X \o C)
       /\ Misses(X \o C, p) => Misses(A, p) /\ Misses(B, p) /\ Misses(C, p)
  BY <1>8, <1>13, Joined DEF X
<1> DEFINE Y == X \o C
<1> HIDE DEF Y
<1>15. /\ Y \o D \in Seq(Rule) /\ Returns(Y \o D)
       /\ Misses(Y \o D, p) => Misses(A, p) /\ Misses(B, p) /\ Misses(C, p) /\ Misses(D, p)
  BY <1>9, <1>14, Joined DEF Y
<1> DEFINE Z == Y \o D
<1> HIDE DEF Z
<1>16. /\ Z \o E \in Seq(Rule) /\ Returns(Z \o E)
       /\ Misses(Z \o E, p) => Misses(A, p) /\ Misses(B, p) /\ Misses(C, p) /\ Misses(D, p) /\ Misses(E, p)
  BY <1>10, <1>15, Joined DEF Z
<1> DEFINE W == Z \o E
<1> HIDE DEF W
<1>17. /\ W \o F \in Seq(Rule) /\ Returns(W \o F)
       /\ Misses(W \o F, p) => /\ Misses(A, p) /\ Misses(B, p) /\ Misses(C, p)
                               /\ Misses(D, p) /\ Misses(E, p) /\ Misses(F, p)
  BY <1>11, <1>16, Joined DEF W
<1>18. Misses(W \o F, p) /\ Verdict(T, p) # "RETURN"
  <2> DEFINE V == W \o F
  <2>1. Verdict(V \o T, p) # "RETURN" BY <1>3 DEF W, Z, Y, X
  <2>2. V \in Seq(Rule) /\ Returns(V) BY <1>17
  <2> HIDE DEF V
  <2>3. Misses(V, p) /\ Verdict(T, p) # "RETURN" BY <1>12, <2>1, <2>2, Passed
  <2> QED BY <2>3 DEF V
<1>19. p.port # "dns" /\ p.src # "core"
  BY <1>4, <1>6, <1>17, <1>18
<1>20. p.fam = 6 => c.ipv6
  BY <1>4, <1>9, <1>17, <1>18
<1>21. p.dst # "private"
  BY <1>0, <1>4, <1>5, <1>8, <1>17, <1>18, <1>20 DEF Families
<1>22. p.dst = "cn" /\ SetCN(c) /\ p.fam \in have => p.fam = 6
  <2>1. Matches([Dst("cn") EXCEPT !.fam = {4}], p) <=> p.dst = "cn" /\ p.fam = 4 BY FilterMeaning
  <2> QED BY <1>0, <1>10, <1>17, <1>18, <2>1 DEF Families
<1>23. lan => /\ c.devices = "black" => p.src # "guest"
              /\ c.devices = "white" => p.src = "guest"
  BY <1>7, <1>17, <1>18, DeviceScope
<1>24. lan => ~(c.quic /\ p.proto = "udp" /\ p.port = "https")
  <2>1. Matches(Quic, p) <=> p.proto = "udp" /\ p.port = "https" BY FilterMeaning
  <2> QED BY <1>11, <1>17, <1>18, <2>1
<1>25. c.redir \in {"Redir", "TCP"} => p.proto = "tcp"
  BY <1>18, TargetScope DEF T
<1> QED BY <1>19, <1>20, <1>21, <1>22, <1>23, <1>24, <1>25

\* A DNS chain of nftables diverts DNS, but not the core's.
LEMMA NftDnsScope ==
    ASSUME NEW nets \in SUBSET (LanSrc \cup OwnSrc), nets # {}, NEW p \in Packets,
           Verdict(NftDns(nets), p) # "RETURN"
    PROVE  p.port = "dns" /\ p.src # "core"
<1> DEFINE n == CHOOSE n \in nets : TRUE
           a == Return(NotDns)
           b == Return(Src({"core"}))
           d == Return(NotFrom({n}))
           e == Return(NotFrom(nets \ {n}))
           f == Jump(AnyDns, "DNS")
           A == <<a, b>>
           B == <<d>> \o If(nets # {n}, <<e>>)
<1>1. /\ {"core"} \in SUBSET (LanSrc \cup OwnSrc) /\ {n} \in SUBSET (LanSrc \cup OwnSrc)
      /\ nets \ {n} \in SUBSET (LanSrc \cup OwnSrc)
  BY DEF OwnSrc
<1> HIDE DEF n
<1>2. /\ a \in Rule /\ b \in Rule /\ d \in Rule /\ e \in Rule /\ f \in Rule
      /\ a.to = "RETURN" /\ b.to = "RETURN" /\ d.to = "RETURN" /\ e.to = "RETURN"
      /\ a.on = NotDns /\ b.on = Src({"core"})
  BY <1>1, MatchTypes, RuleTypes
<1>3. NftDns(nets) = (A \o B) \o <<f>>
  BY DEF NftDns, n
<1> HIDE DEF a, b, d, e, f
<1>4. /\ A \in Seq(Rule) /\ Returns(A)
      /\ Misses(A, p) => ~Matches(NotDns, p) /\ ~Matches(Src({"core"}), p)
  BY <1>2, TwoRules
<1>5. B \in Seq(Rule) /\ Returns(B)
  <2>1. /\ <<d>> \in Seq(Rule) /\ Returns(<<d>>) /\ <<e>> \in Seq(Rule) /\ Returns(<<e>>)
    BY <1>2, OneRule
  <2>2. If(nets # {n}, <<e>>) \in Seq(Rule) /\ Returns(If(nets # {n}, <<e>>))
    BY <2>1, Conditional
  <2> QED BY <2>1, <2>2, Joined
<1>6. <<f>> \in Seq(Rule)
  BY <1>2, OneRule
<1> HIDE DEF A, B
<1>7. A \o B \in Seq(Rule) /\ Returns(A \o B) /\ (Misses(A \o B, p) => Misses(A, p))
  BY <1>4, <1>5, Joined
<1>8. Misses(A, p)
  BY <1>3, <1>6, <1>7, Passed
<1> QED BY <1>4, <1>8, Meaning

\* The VM chains of nftables test the source of IPv4 packets only.
LEMMA NftVmScope ==
    ASSUME NEW p \in Packets,
           Verdict(NftVm, p) # "RETURN" \/ Verdict(NftVmDns, p) # "RETURN"
    PROVE  /\ p.src # "core" /\ (p.fam = 4 => p.src = "vm")
           /\ Verdict(NftVm, p) # "RETURN" => p.proto = "tcp"
           /\ Verdict(NftVmDns, p) # "RETURN" => p.port = "dns"
<1> DEFINE a == Return(AnyDns)
           aa == Return(NotDns)
           b == Return(Src({"core"}))
           d == Return(NotFrom({"vm"}))
           e == Jump(Proto("tcp"), "REDIRECT")
           f == Jump(AnyDns, "DNS")
<1>1. {"core"} \in SUBSET (LanSrc \cup OwnSrc) /\ {"vm"} \in SUBSET (LanSrc \cup OwnSrc)
  BY DEF LanSrc, OwnSrc
<1>2. /\ a \in Rule /\ aa \in Rule /\ b \in Rule /\ d \in Rule /\ e \in Rule /\ f \in Rule
      /\ a.to = "RETURN" /\ aa.to = "RETURN" /\ b.to = "RETURN" /\ d.to = "RETURN"
      /\ b.on = Src({"core"}) /\ d.on = NotFrom({"vm"})
      /\ e.on = Proto("tcp") /\ f.on = AnyDns
  BY <1>1, MatchTypes, RuleTypes
<1>3. NftVm = <<a, b, d>> \o <<e>> /\ NftVmDns = <<aa, b, d>> \o <<f>>
  <2>1. ASSUME NEW q \in Rule, NEW r \in Rule, NEW s \in Rule, NEW t \in Rule
        PROVE  <<q, r, s>> \o <<t>> = <<q, r, s, t>>
    <3> DEFINE u == <<q, r, s>> \o <<t>>
               v == <<q, r, s, t>>
    <3>1. /\ u \in Seq(Rule) /\ Len(u) = 4 /\ v \in Seq(Rule) /\ Len(v) = 4
          /\ u[1] = q /\ u[2] = r /\ u[3] = s /\ u[4] = t
          /\ v[1] = q /\ v[2] = r /\ v[3] = s /\ v[4] = t
      OBVIOUS
    <3> HIDE DEF u, v
    <3>2. \A i \in 1 .. 4 : i = 1 \/ i = 2 \/ i = 3 \/ i = 4
      OBVIOUS
    <3>3. \A i \in 1 .. Len(u) : u[i] = v[i]
      BY <3>1, <3>2
    <3>4. u = v
      BY <3>1, <3>3, SeqEqual
    <3> QED BY <3>4 DEF u, v
  <2> QED BY <2>1 DEF NftVm, NftVmDns, a, aa, b, d, e, f
<1> HIDE DEF a, aa, b, d, e, f
<1>4. /\ <<a, b, d>> \in Seq(Rule) /\ Returns(<<a, b, d>>) /\ <<e>> \in Seq(Rule)
      /\ <<aa, b, d>> \in Seq(Rule) /\ Returns(<<aa, b, d>>) /\ <<f>> \in Seq(Rule)
      /\ Misses(<<a, b, d>>, p) \/ Misses(<<aa, b, d>>, p) =>
             ~Matches(Src({"core"}), p) /\ ~Matches(NotFrom({"vm"}), p)
  BY <1>2, OneRule, ThreeRules
<1>5. Misses(<<a, b, d>>, p) \/ Misses(<<aa, b, d>>, p)
  BY <1>3, <1>4, Passed
<1>6. (Matches(Src({"core"}), p) <=> p.src \in {"core"})
      /\ (Matches(NotFrom({"vm"}), p) <=> p.fam = 4 /\ p.src \notin {"vm"})
  BY Meaning
<1>7. Verdict(NftVm, p) # "RETURN" => p.proto = "tcp"
  <2> DEFINE head == <<a, b, d>>
             last == <<e>>
  <2>0. NftVm = head \o last /\ head \in Seq(Rule) /\ last \in Seq(Rule) /\ Returns(head) BY <1>3, <1>4
  <2> HIDE DEF head, last
  <2>3. Verdict(NftVm, p) # "RETURN" => ~Misses(last, p) BY <2>0, Passed, NoRule
  <2>1. Verdict(NftVm, p) # "RETURN" => ~Misses(<<e>>, p) BY <2>3 DEF last
  <2>2. Misses(<<e>>, p) <=> ~Matches(Proto("tcp"), p) BY <1>2, OneRule
  <2> QED BY <2>1, <2>2, FilterMeaning
<1>8. Verdict(NftVmDns, p) # "RETURN" => p.port = "dns"
  <2> DEFINE head == <<aa, b, d>>
             last == <<f>>
  <2>0. NftVmDns = head \o last /\ head \in Seq(Rule) /\ last \in Seq(Rule) /\ Returns(head) BY <1>3, <1>4
  <2> HIDE DEF head, last
  <2>3. Verdict(NftVmDns, p) # "RETURN" => ~Misses(last, p) BY <2>0, Passed, NoRule
  <2>1. Verdict(NftVmDns, p) # "RETURN" => ~Misses(<<f>>, p) BY <2>3 DEF last
  <2>2. Misses(<<f>>, p) <=> ~Matches(AnyDns, p) BY <1>2, OneRule
  <2> QED BY <2>1, <2>2, Meaning
<1> QED BY <1>4, <1>5, <1>6, <1>7, <1>8

\* Which base chains a configuration has, and what is in them.
LEMMA NftStarted ==
    ASSUME NEW c, NEW have, NEW n \in DOMAIN NftChains(c, have)
    PROVE  LET body == NftChains(c, have)[n]
           IN  /\ Nft(c)
               /\ \/ n = "prerouting" /\ c.redir # "Pure" /\ LanProxy(c) /\ body = NftRedir(c, TRUE, have)
                  \/ n = "output" /\ c.redir # "Pure" /\ LocalProxy(c) /\ body = NftRedir(c, FALSE, have)
                  \/ n = "prerouting_dns" /\ c.area <= 3 /\ LanProxy(c) /\ body = NftDns(Nets)
                  \/ n = "output_dns" /\ LocalProxy(c) /\ body = NftDns({"loop"})
                  \/ n = "prerouting_vm" /\ c.vm /\ body = NftVm
                  \/ n = "prerouting_vm_dns" /\ c.vm /\ body = NftVmDns
                  \/ n = "input" /\ body = <<>>
<1>1. /\ Nft(c)
      /\ \/ n = "prerouting" /\ c.redir # "Pure" /\ LanProxy(c)
         \/ n = "output" /\ c.redir # "Pure" /\ LocalProxy(c)
         \/ n = "prerouting_dns" /\ c.area <= 3 /\ LanProxy(c)
         \/ n = "output_dns" /\ LocalProxy(c)
         \/ n = "prerouting_vm" /\ c.vm
         \/ n = "prerouting_vm_dns" /\ c.vm
         \/ n = "input"
  BY DEF NftChains, IfSet
<1>2. /\ n = "prerouting" => NftChains(c, have)[n] = NftRedir(c, TRUE, have)
      /\ n = "output" => NftChains(c, have)[n] = NftRedir(c, FALSE, have)
      /\ n = "prerouting_dns" => NftChains(c, have)[n] = NftDns(Nets)
      /\ n = "output_dns" => NftChains(c, have)[n] = NftDns({"loop"})
      /\ n = "prerouting_vm" => NftChains(c, have)[n] = NftVm
      /\ n = "prerouting_vm_dns" => NftChains(c, have)[n] = NftVmDns
      /\ n = "input" => NftChains(c, have)[n] = <<>>
  BY DEF NftChains, IfSet
<1> QED BY <1>1, <1>2

\* What a base chain diverts is what its configuration asks for.
LEMMA NftScope ==
    ASSUME NEW c \in ConfigSpace, NEW have, NEW n \in DOMAIN NftChains(c, have),
           NEW p \in Packets, Entry(p) = NftEntry(n),
           Verdict(NftChains(c, have)[n], p) # "RETURN"
    PROVE  Serves(c, have, p)
<1>0. /\ Nft(c) /\ p.fam \in {4, 6} /\ LanSrc \cap OwnSrc = {}
      /\ Entry(p) = "PREROUTING" => p.src \in LanSrc
      /\ Entry(p) = "OUTPUT" => p.src \in OwnSrc
  BY NftStarted DEF Entry, Packets, Families, LanSrc, OwnSrc
<1>1. CASE /\ n = "prerouting" /\ c.redir # "Pure" /\ LanProxy(c)
           /\ NftChains(c, have)[n] = NftRedir(c, TRUE, have)
  <2>1. /\ p.port # "dns" /\ p.src # "core" /\ p.dst # "private" /\ (p.fam = 6 => c.ipv6)
        /\ p.dst = "cn" /\ SetCN(c) /\ p.fam \in have => p.fam = 6
        /\ c.redir \in {"Redir", "TCP"} => p.proto = "tcp"
    BY <1>1, NftRedirScope
  <2>2. OfArea(c, p) BY <1>0, <1>1 DEF NftEntry, OfArea
  <2>3. AsksDevice(c, p)
    BY <1>0, <1>1, NftRedirScope DEF NftEntry, AsksDevice
  <2> QED BY <1>0, <1>1, <2>1, <2>2, <2>3 DEF Serves, AsksProxy
<1>2. CASE /\ n = "output" /\ c.redir # "Pure" /\ LocalProxy(c)
           /\ NftChains(c, have)[n] = NftRedir(c, FALSE, have)
  <2>1. /\ p.port # "dns" /\ p.src # "core" /\ p.dst # "private" /\ (p.fam = 6 => c.ipv6)
        /\ p.dst = "cn" /\ SetCN(c) /\ p.fam \in have => p.fam = 6
        /\ c.redir \in {"Redir", "TCP"} => p.proto = "tcp"
    BY <1>2, NftRedirScope
  <2>2. OfArea(c, p) BY <1>0, <1>2 DEF NftEntry, OfArea
  <2>3. AsksDevice(c, p)
    BY <1>0, <1>2, NftRedirScope DEF NftEntry, AsksDevice
  <2> QED BY <1>0, <1>2, <2>1, <2>2, <2>3 DEF Serves, AsksProxy
<1>3. CASE n = "prerouting_dns" /\ c.area <= 3 /\ LanProxy(c) /\ NftChains(c, have)[n] = NftDns(Nets)
  <2>1. Nets \in SUBSET (LanSrc \cup OwnSrc) /\ Nets # {}
    BY FirewallAssumption DEF LanSrc
  <2>2. p.port = "dns" /\ p.src # "core"
    BY <1>3, <2>1, NftDnsScope
  <2> QED BY <1>0, <1>3, <2>2 DEF NftEntry, Serves, AsksDns, OfArea
<1>4. CASE n = "output_dns" /\ LocalProxy(c) /\ NftChains(c, have)[n] = NftDns({"loop"})
  <2>1. {"loop"} \in SUBSET (LanSrc \cup OwnSrc) /\ {"loop"} # {}
    BY DEF OwnSrc
  <2>2. p.port = "dns" /\ p.src # "core"
    BY <1>4, <2>1, NftDnsScope
  <2>3. c.area <= 3 BY <1>4 DEF LocalProxy
  <2> QED BY <1>0, <1>4, <2>2, <2>3 DEF NftEntry, Serves, AsksDns, OfArea
<1>5. CASE \/ n = "prerouting_vm" /\ c.vm /\ NftChains(c, have)[n] = NftVm
           \/ n = "prerouting_vm_dns" /\ c.vm /\ NftChains(c, have)[n] = NftVmDns
  <2>1. /\ p.src # "core" /\ (p.fam = 4 => p.src = "vm")
        /\ n = "prerouting_vm" => p.proto = "tcp"
        /\ n = "prerouting_vm_dns" => p.port = "dns"
    BY <1>5, NftVmScope
  <2>2. p.src \in LanSrc
    BY <1>0, <1>5 DEF NftEntry
  <2> QED BY <1>0, <1>5, <2>1, <2>2 DEF Serves, AsksDns, AsksVm, OfVm
<1>6. CASE n = "input" /\ NftChains(c, have)[n] = <<>>
  BY <1>6, EmptyChainReturns
<1> QED BY <1>1, <1>2, <1>3, <1>4, <1>5, <1>6, NftStarted

-----------------------------------------------------------------------------
(* Whatever is left behind, the scope is kept *)

\* Where a rule in a built-in chain leads into a chain of ours, it does so from the
\* built-in chain and the address family that chain belongs to.
Leads(h) == h.to \in StopChains => h.at = ChainAt(h.to) /\ h.fam = ChainFam(h.to)

\* A verdict in a chain, which starts may have filled several times over, is one in
\* the chain of a configuration started since the last Stop.
Sourced(n) ==
    /\ chains[n] \in Seq(Rule)
    /\ \A p \in Packets :
           Verdict(chains[n], p) # "RETURN" =>
               \E l \in live : /\ n \in DOMAIN StartChains(l.cfg, l.lists)
                              /\ Verdict(chains[n], p) = Verdict(StartChains(l.cfg, l.lists)[n], p)

Scoped ==
    /\ DOMAIN chains \subseteq StopChains
    /\ live \subseteq [cfg : ConfigSpace, lists : SUBSET Families] /\ cfg \in ConfigSpace
    /\ files \subseteq Families /\ sets \subseteq Families
    /\ \A h \in BagToSet(hooks) : Leads(h)
    /\ \A n \in DOMAIN chains : Sourced(n)
    /\ DOMAIN nft = {} \/ \E l \in live : nft = NftChains(l.cfg, l.lists)

VmHooks(c) == IF c.common THEN PortHooks(c, 4, "PREROUTING", "tcp", "shellcrash_vm")
                          ELSE {Hook(4, "PREROUTING", Proto("tcp"), "shellcrash_vm")}
QuicAt(c) == IF TunMode(c) THEN "FORWARD" ELSE "INPUT"

\* The groups of rules Start installs in built-in chains.
LEMMA StartedHooks ==
    ASSUME NEW c, NEW have, NEW h \in StartHooks(c, have)
    PROVE  \/ h \in WanHooks
           \/ h \in PortHooks(c, 4, "PREROUTING", "tcp", "shellcrash")
           \/ h \in PortHooks(c, 4, "OUTPUT", "tcp", "shellcrash_out")
           \/ \E f \in MarkFamilies(c) : h \in MarkHooks(c, f, "PREROUTING", MarkIn(f))
           \/ \E f \in MarkFamilies(c) : h \in MarkHooks(c, f, "OUTPUT", MarkOut(f))
           \/ \E f \in MarkFamilies(c) : h \in TproxyHooks(f)
           \/ h \in DnsHooks(4, "PREROUTING", "shellcrash_dns")
           \/ h \in DnsHooks(4, "OUTPUT", "shellcrash_dns_out")
           \/ h \in QuicHooks(c, QuicAt(c), have)
           \/ h \in ForwardHooks
           \/ h \in VmHooks(c)
           \/ h \in DnsHooks(4, "PREROUTING", "shellcrash_vm_dns")
<1> DEFINE vm == VmHooks(c)
           quic == QuicHooks(c, QuicAt(c), have)
<1>1. quic = QuicHooks(c, IF TunMode(c) THEN "FORWARD" ELSE "INPUT", have)
  BY DEF QuicAt
<1>2. vm = IF c.common THEN PortHooks(c, 4, "PREROUTING", "tcp", "shellcrash_vm")
                       ELSE {Hook(4, "PREROUTING", Proto("tcp"), "shellcrash_vm")}
  BY DEF VmHooks
<1> HIDE DEF quic, vm
<1>3. \/ h \in WanHooks
      \/ h \in PortHooks(c, 4, "PREROUTING", "tcp", "shellcrash")
      \/ h \in PortHooks(c, 4, "OUTPUT", "tcp", "shellcrash_out")
      \/ \E f \in MarkFamilies(c) : h \in MarkHooks(c, f, "PREROUTING", MarkIn(f))
      \/ \E f \in MarkFamilies(c) : h \in MarkHooks(c, f, "OUTPUT", MarkOut(f))
      \/ \E f \in MarkFamilies(c) : h \in TproxyHooks(f)
      \/ h \in DnsHooks(4, "PREROUTING", "shellcrash_dns")
      \/ h \in DnsHooks(4, "OUTPUT", "shellcrash_dns_out")
      \/ h \in quic
      \/ h \in ForwardHooks
      \/ h \in vm
      \/ h \in DnsHooks(4, "PREROUTING", "shellcrash_vm_dns")
  BY <1>1, <1>2 DEF StartHooks, IfSet
<1> QED BY <1>3 DEF quic, vm

\* Every rule Start installs in a built-in chain leads to its chain.
LEMMA StartedHooksLead ==
    ASSUME NEW c, NEW have, NEW h \in StartHooks(c, have)
    PROVE  Leads(h)
<1>1. \A f, at, m, n : /\ Hook(f, at, m, n).fam = f /\ Hook(f, at, m, n).at = at
                       /\ Hook(f, at, m, n).to = n
  BY DEF Hook
<1>2. {"ACCEPT", "REJECT", "TPROXY"} \cap StopChains = {}
  BY DEF StopChains, MarkIn, MarkOut, Families
<1>3. \A f, at, n : f = ChainFam(n) /\ at = ChainAt(n) =>
          /\ \A g \in PortHooks(c, f, at, "tcp", n) : Leads(g)
          /\ \A g \in MarkHooks(c, f, at, n) : Leads(g)
          /\ \A g \in DnsHooks(f, at, n) : Leads(g)
          /\ \A m : Leads(Hook(f, at, m, n))
  BY <1>1 DEF PortHooks, MarkHooks, DnsHooks, IfSet, Leads
<1>4. \A n \in {"ACCEPT", "REJECT", "TPROXY"} : \A f, at, m : Leads(Hook(f, at, m, n))
  BY <1>1, <1>2 DEF Leads
<1>5. \A g \in WanHooks : Leads(g)
  BY <1>4 DEF WanHooks
<1>6. \A g \in QuicHooks(c, QuicAt(c), have) : Leads(g)
  BY <1>4 DEF QuicHooks
<1>7. \A g \in ForwardHooks : Leads(g)
  BY <1>4 DEF ForwardHooks
<1>8. \A f : \A g \in TproxyHooks(f) : Leads(g)
  BY <1>4 DEF TproxyHooks
<1>9. /\ \A g \in PortHooks(c, 4, "PREROUTING", "tcp", "shellcrash") : Leads(g)
      /\ \A g \in PortHooks(c, 4, "OUTPUT", "tcp", "shellcrash_out") : Leads(g)
      /\ \A g \in VmHooks(c) : Leads(g)
      /\ \A g \in DnsHooks(4, "PREROUTING", "shellcrash_dns") : Leads(g)
      /\ \A g \in DnsHooks(4, "OUTPUT", "shellcrash_dns_out") : Leads(g)
      /\ \A g \in DnsHooks(4, "PREROUTING", "shellcrash_vm_dns") : Leads(g)
  BY <1>3, ChainNames DEF VmHooks
<1>10. \A f \in Families : /\ \A g \in MarkHooks(c, f, "PREROUTING", MarkIn(f)) : Leads(g)
                           /\ \A g \in MarkHooks(c, f, "OUTPUT", MarkOut(f)) : Leads(g)
  BY <1>3, ChainNames
<1>11. MarkFamilies(c) \subseteq Families
  BY DEF MarkFamilies, Families
<1> QED BY <1>5, <1>6, <1>7, <1>8, <1>9, <1>10, <1>11, StartedHooks

\* Start appends the chains of one more configuration.
LEMMA StartScoped ==
    ASSUME Scoped, FwStart
    PROVE  Scoped'
<1> DEFINE new == StartChains(cfg, sets)
           start == [cfg |-> cfg, lists |-> IF Nft(cfg) THEN files ELSE sets]
<1>1. /\ hooks' = hooks (+) SetToBag(StartHooks(cfg, sets))
      /\ chains' = [n \in DOMAIN chains \cup DOMAIN new |-> RulesOf(chains, n) \o RulesOf(new, n)]
      /\ nft' = IF Nft(cfg) THEN NftChains(cfg, files) ELSE nft
      /\ live' = live \cup {start}
      /\ UNCHANGED <<cfg, files, sets>>
  BY DEF FwStart
<1>2. DOMAIN chains' \subseteq StopChains
  BY <1>1, StartedChainsAreFlushed DEF Scoped
<1>3. \A h \in BagToSet(hooks') : Leads(h)
  <2>1. BagToSet(hooks') = BagToSet(hooks) \cup StartHooks(cfg, sets)
    BY <1>1 DEF BagToSet, SetToBag, (+)
  <2> QED BY <2>1, StartedHooksLead DEF Scoped
<1>4. ASSUME NEW n \in DOMAIN chains' PROVE Sourced(n)'
  <2> DEFINE old == RulesOf(chains, n)
             more == RulesOf(new, n)
  <2>1. old \in Seq(Rule) /\ more \in Seq(Rule) /\ chains'[n] = old \o more
    BY <1>1, <1>4, StartedTypes, NoRules DEF RulesOf, Scoped, Sourced
  <2>2. chains'[n] \in Seq(Rule)
    BY <2>1, Joined
  <2>3. ASSUME NEW p \in Packets, Verdict(chains'[n], p) # "RETURN"
        PROVE  \E l \in live' : /\ n \in DOMAIN StartChains(l.cfg, l.lists)
                                /\ Verdict(chains'[n], p) = Verdict(StartChains(l.cfg, l.lists)[n], p)
    <3>1. Verdict(chains'[n], p) = Verdict(old, p) \/ Verdict(chains'[n], p) = Verdict(more, p)
      BY <2>1, JoinedVerdict
    <3>2. CASE Verdict(chains'[n], p) = Verdict(old, p)
      <4>1. n \in DOMAIN chains /\ old = chains[n]
        BY <2>3, <3>2, EmptyChainReturns DEF RulesOf
      <4>2. Sourced(n)
        BY <4>1 DEF Scoped
      <4>3. Verdict(chains[n], p) = Verdict(chains'[n], p)
        BY <3>2, <4>1
      <4> HIDE DEF old, more, new, start
      <4> QED BY <1>1, <2>3, <4>2, <4>3 DEF Sourced
    <3>3. CASE Verdict(chains'[n], p) = Verdict(more, p)
      <4>1. n \in DOMAIN new /\ more = new[n]
        BY <2>3, <3>3, EmptyChainReturns DEF RulesOf
      <4>2. start \in live' /\ start.cfg = cfg /\ start.lists = sets
        <5>1. ~Nft(cfg) BY <4>1 DEF StartChains, IfSet
        <5> QED BY <1>1, <5>1
      <4> QED BY <3>3, <4>1, <4>2
    <3> QED BY <3>1, <3>2, <3>3
  <2> QED BY <2>2, <2>3 DEF Sourced
<1>5. DOMAIN nft' = {} \/ \E l \in live' : nft' = NftChains(l.cfg, l.lists)
  <2>1. start \in live' /\ start.cfg = cfg /\ (Nft(cfg) => start.lists = files) /\ live \subseteq live'
    BY <1>1
  <2>2. CASE Nft(cfg)
    BY <1>1, <2>1, <2>2
  <2>3. CASE ~Nft(cfg)
    BY <1>1, <2>1, <2>3 DEF Scoped
  <2> QED BY <2>2, <2>3
<1>6. live' \subseteq [cfg : ConfigSpace, lists : SUBSET Families]
  BY <1>1 DEF Scoped
<1> QED BY <1>1, <1>2, <1>3, <1>4, <1>5, <1>6 DEF Scoped

LEMMA ScopedHolds == Spec => []Scoped
<1> USE FirewallAssumption
<1>1. ASSUME Init PROVE Scoped
  <2>1. DOMAIN hooks = {} /\ DOMAIN chains = {} /\ DOMAIN nft = {}
    BY <1>1, NothingInstalled DEF Init
  <2> QED BY <1>1, <2>1 DEF Init, Scoped, BagToSet
<1>2. ASSUME Scoped, [Next]_vars PROVE Scoped'
  <2>1. CASE FwStart
    BY <1>2, <2>1, StartScoped
  <2>2. CASE FwStop
    <3>1. \A h \in BagToSet(hooks') : Leads(h)
      <4>1. BagToSet(hooks') \subseteq BagToSet(hooks)
        BY <2>2 DEF FwStop, BagToSet, SetToBag, (-)
      <4> QED BY <1>2, <4>1 DEF Scoped
    <3>2. DOMAIN chains' \subseteq StopChains /\ DOMAIN nft' = {}
      BY <1>2, <2>2, NothingInstalled DEF FwStop, Scoped
    <3>3. ASSUME NEW n \in DOMAIN chains' PROVE Sourced(n)'
      <4>1. chains'[n] = <<>>
        BY <1>2, <2>2, <3>3 DEF FwStop, Scoped
      <4> QED BY <4>1, EmptyChainReturns, NoRules DEF Sourced
    <3>4. /\ live' \subseteq [cfg : ConfigSpace, lists : SUBSET Families] /\ cfg' \in ConfigSpace
          /\ files' \subseteq Families /\ sets' \subseteq Families
      BY <1>2, <2>2 DEF FwStop, Scoped
    <3> QED BY <3>1, <3>2, <3>3, <3>4 DEF Scoped
  <2>3. CASE CheckCNIP
    <3>1. files' \subseteq Families /\ sets' \subseteq Families
      BY <1>2, <2>3 DEF CheckCNIP, Scoped, Families
    <3>2. UNCHANGED <<cfg, live, hooks, chains, nft>>
      BY <2>3 DEF CheckCNIP, history
    <3>3. \A n \in DOMAIN chains' : Sourced(n)'
      BY <1>2, <3>2 DEF Scoped, Sourced
    <3> QED BY <1>2, <3>1, <3>2, <3>3 DEF Scoped
  <2>4. CASE Edit
    BY <1>2, <2>4 DEF Edit, Scoped, Sourced, kernel
  <2>5. CASE Reboot
    <3>1. DOMAIN hooks' = {} /\ DOMAIN chains' = {} /\ DOMAIN nft' = {}
      BY <2>5, NothingInstalled DEF Reboot
    <3>2. /\ live' \subseteq [cfg : ConfigSpace, lists : SUBSET Families] /\ cfg' \in ConfigSpace
          /\ files' \subseteq Families /\ sets' \subseteq Families
      BY <1>2, <2>5 DEF Reboot, Scoped
    <3> QED BY <3>1, <3>2 DEF Scoped, BagToSet
  <2>6. CASE UNCHANGED vars
    BY <1>2, <2>6 DEF vars, kernel, history, Scoped, Sourced
  <2>7. QED BY <1>2, <2>1, <2>2, <2>3, <2>4, <2>5, <2>6 DEF Next
<1>3. QED BY <1>1, <1>2, PTL DEF Spec

\* The rule that leads a packet to a chain of ours asks for its port.
LEMMA StartedHooksAsk ==
    ASSUME NEW c \in ConfigSpace, NEW have, NEW h \in StartHooks(c, have), h.to \in StopChains,
           NEW p \in Packets, Matches(h.on, p)
    PROVE  AsksPort(c, p)
<1>0. SUFFICES ASSUME c.common, ~Nft(c)
               PROVE  p.port \in {"dns", "https"} \/ (FakeDns(c) /\ p.dst = "fake")
  BY DEF AsksPort
<1>1. {"ACCEPT", "REJECT", "TPROXY"} \cap StopChains = {}
  BY DEF StopChains, MarkIn, MarkOut, Families
<1>2. \A f, at, m, n : Hook(f, at, m, n).on = m /\ Hook(f, at, m, n).to = n
  BY DEF Hook
<1>3. p.port \in h.on.port /\ p.dst \in h.on.dst
  BY DEF Matches
<1>4. \A f, at, n : h \in PortHooks(c, f, at, "tcp", n) =>
          h.on = Ports(c, "tcp") \/ (FakeDns(c) /\ h.on = Fake("tcp"))
  BY <1>2 DEF PortHooks, IfSet
<1>5. \A f, at, n : h \in MarkHooks(c, f, at, n) =>
          \E t \in {"tcp", "udp"} : h.on = Ports(c, t) \/ (FakeDns(c) /\ h.on = Fake(t))
  BY <1>2, MarkedProtosAreProtos DEF MarkHooks, IfSet
<1>6. \A f, at, n : h \in DnsHooks(f, at, n) => \E t \in {"tcp", "udp"} : h.on = Dns(t)
  BY <1>2 DEF DnsHooks
<1>7. /\ h \in WanHooks => h.to \in {"ACCEPT", "REJECT", "TPROXY"}
      /\ h \in QuicHooks(c, QuicAt(c), have) => h.to \in {"ACCEPT", "REJECT", "TPROXY"}
      /\ h \in ForwardHooks => h.to \in {"ACCEPT", "REJECT", "TPROXY"}
      /\ \A f : h \in TproxyHooks(f) => h.to \in {"ACCEPT", "REJECT", "TPROXY"}
  BY <1>2 DEF WanHooks, QuicHooks, ForwardHooks, TproxyHooks
<1>8. VmHooks(c) = PortHooks(c, 4, "PREROUTING", "tcp", "shellcrash_vm")
  BY <1>0 DEF VmHooks
<1>9. ASSUME NEW t \in {"tcp", "udp"}, h.on = Dns(t)
      PROVE  p.port = "dns"
  BY <1>3, <1>9 DEF Dns, Proto, Every
<1>10. ASSUME NEW t \in {"tcp", "udp"}, h.on = Ports(c, t)
       PROVE  p.port = "https"
  BY <1>0, <1>3, <1>10 DEF Ports, Proto, Every
<1>11. ASSUME NEW t \in {"tcp", "udp"}, h.on = Fake(t)
       PROVE  p.dst = "fake"
  BY <1>3, <1>11 DEF Fake, Proto, Every
<1>12. ASSUME NEW f, NEW at, NEW n, h \in PortHooks(c, f, at, "tcp", n)
       PROVE  p.port \in {"dns", "https"} \/ (FakeDns(c) /\ p.dst = "fake")
  BY <1>4, <1>10, <1>11, <1>12
<1>13. ASSUME NEW f, NEW at, NEW n, h \in MarkHooks(c, f, at, n)
       PROVE  p.port \in {"dns", "https"} \/ (FakeDns(c) /\ p.dst = "fake")
  <2>1. PICK t \in {"tcp", "udp"} : h.on = Ports(c, t) \/ (FakeDns(c) /\ h.on = Fake(t))
    BY <1>5, <1>13
  <2> QED BY <2>1, <1>10, <1>11
<1>14. ASSUME NEW f, NEW at, NEW n, h \in DnsHooks(f, at, n)
       PROVE  p.port \in {"dns", "https"}
  BY <1>6, <1>9, <1>14
<1>15. ~(h.to \in {"ACCEPT", "REJECT", "TPROXY"})
  BY <1>1
<1> QED BY <1>7, <1>8, <1>12, <1>13, <1>14, <1>15, StartedHooks

\* Whatever earlier configurations left behind, a packet is diverted only where one
\* configuration started since the last Stop asks for it, but for the port filter of
\* rules others left: for every set of configurations and every sequence of starts,
\* stops, edits and reboots.
THEOREM ScopeKept == Spec => []ScopeRespected
<1> DEFINE Meant(l, p) == Asks(l, p) /\ (AsksPort(l.cfg, p) \/ (~tidy /\ OthersLead(l, p)))
<1>1. ASSUME Scoped, Tidied, NEW p \in Diverted
      PROVE  \E l \in live : Meant(l, p)
  <2>1. p \in Packets /\ Verdicts(p, BagToSet(hooks)) \cap Diverting(p.fam) # {}
    BY <1>1 DEF Diverted
  <2>2. "RETURN" \notin Diverting(p.fam)
    BY DEF Diverting, IfSet
  <2>3. \/ \E h \in BagToSet(hooks) : /\ h.fam = p.fam /\ h.at = Entry(p) /\ Matches(h.on, p)
                                      /\ Verdict(RulesOf(chains, h.to), p) # "RETURN"
        \/ \E n \in DOMAIN nft : NftEntry(n) = Entry(p) /\ Verdict(nft[n], p) # "RETURN"
    BY <2>1, <2>2 DEF Verdicts
  <2>4. ASSUME NEW h \in BagToSet(hooks), h.fam = p.fam, h.at = Entry(p), Matches(h.on, p),
               Verdict(RulesOf(chains, h.to), p) # "RETURN"
        PROVE  \E l \in live : Meant(l, p)
    <3>1. h.to \in DOMAIN chains /\ RulesOf(chains, h.to) = chains[h.to]
      BY <2>4, EmptyChainReturns DEF RulesOf
    <3>2. Leads(h) /\ Sourced(h.to) /\ h.to \in StopChains
      BY <1>1, <3>1 DEF Scoped
    <3>3. PICK l \in live : /\ h.to \in DOMAIN StartChains(l.cfg, l.lists)
                            /\ Verdict(StartChains(l.cfg, l.lists)[h.to], p) # "RETURN"
      BY <2>1, <2>4, <3>1, <3>2 DEF Sourced
    <3>4. l.cfg \in ConfigSpace
      BY <1>1 DEF Scoped
    <3>5. Asks(l, p)
      <4>1. Serves(l.cfg, l.lists, p)
        BY <2>1, <2>4, <3>2, <3>3, <3>4, ChainScope DEF Leads
      <4> QED BY <4>1 DEF Serves, Asks
    <3>6. CASE h \in StartHooks(l.cfg, l.lists)
      BY <2>1, <2>4, <3>2, <3>4, <3>5, <3>6, StartedHooksAsk
    <3>7. CASE h \notin StartHooks(l.cfg, l.lists)
      <4>1. OthersLead(l, p) BY <2>4, <3>7 DEF OthersLead
      <4>2. ~tidy
        <5>1. SUFFICES ASSUME tidy PROVE FALSE OBVIOUS
        <5>2. PICK have \in SUBSET Families :
                  hooks = SetToBag(StartHooks(cfg, have)) /\ live = {[cfg |-> cfg, lists |-> have]}
          BY <1>1, <3>3, <5>1 DEF Tidied
        <5>3. l.cfg = cfg /\ l.lists = have BY <3>3, <5>2
        <5>4. BagToSet(hooks) = StartHooks(cfg, have) BY <5>2 DEF BagToSet, SetToBag
        <5> QED BY <3>7, <5>3, <5>4
      <4> QED BY <3>5, <4>1, <4>2
    <3> QED BY <3>6, <3>7
  <2>5. ASSUME NEW n \in DOMAIN nft, NftEntry(n) = Entry(p), Verdict(nft[n], p) # "RETURN"
        PROVE  \E l \in live : Meant(l, p)
    <3>1. PICK l \in live : nft = NftChains(l.cfg, l.lists)
      BY <1>1, <2>5 DEF Scoped
    <3>2. l.cfg \in ConfigSpace /\ Nft(l.cfg)
      BY <1>1, <2>5, <3>1, NftStarted DEF Scoped
    <3>3. Serves(l.cfg, l.lists, p)
      BY <2>1, <2>5, <3>1, <3>2, NftScope
    <3> QED BY <3>2, <3>3 DEF Serves, Asks, AsksPort
  <2> HIDE DEF Meant
  <2> QED BY <2>3, <2>4, <2>5
<1>2. Scoped /\ Tidied => ScopeRespected
  BY <1>1 DEF ScopeRespected
<1> QED BY <1>2, ScopedHolds, TidiedHolds, PTL

=============================================================================
