---------------------------- MODULE GatewayProofs ----------------------------
(***************************************************************************)
(* For any number of menus, ports and answers: the limits on the lists of  *)
(* ports hold however menus overlap, and a cipher has its password as long *)
(* as none does.                                                           *)
(***************************************************************************)
EXTENDS Gateway, FiniteSetTheorems, TLAPS

Short(S, n) == IsFiniteSet(S) /\ Cardinality(S) <= n

\* What holds of the files, of every picture of them and of every copy.
Sane(fs) ==
    /\ Short(fs.gw["fw_wan_ports"], MaxWan) /\ Short(fs.main["fw_wan_ports"], MaxWan)
    /\ Short(fs.main["multiport"], MaxCommon)

\* What a menu writes, given the picture it has shown.
Fitting(fs, change) ==
    /\ change.keys \subseteq (CASE change.file = "gw" -> GwKeys
                                [] change.file = "main" -> MainKeys
                                [] change.file = "lan" -> LanLists)
    /\ change.file = "lan" => change.value \subseteq Devices
    /\ "fw_wan_ports" \in change.keys =>
        change.keys = {"fw_wan_ports"} /\ Short(change.value, MaxWan)
    /\ "multiport" \in change.keys => Short(change.value, MaxCommon)
    /\ "sss_cipher" \in change.keys =>
        /\ change.keys = {"sss_cipher", "sss_pwd"}
        /\ \E c \in Ciphers : change.value = {c} /\ change.pwd = {PwdOf(c)}
    /\ "sss_pwd" \in change.keys /\ "sss_cipher" \notin change.keys =>
        change.file = "gw" /\ Get(fs, "sss_cipher") \cap Blake3 = {}

-----------------------------------------------------------------------------
(* Lists *)

LEMMA ShortSub ==
  ASSUME NEW S, NEW T, NEW n \in Nat, Short(S, n), T \subseteq S
  PROVE  Short(T, n)
<1>1. IsFiniteSet(T) /\ Cardinality(T) <= Cardinality(S)
  BY FS_Subset DEF Short
<1>2. Cardinality(S) \in Nat /\ Cardinality(T) \in Nat
  BY <1>1, FS_CardinalityType DEF Short
<1>3. QED BY <1>1, <1>2 DEF Short

LEMMA ShortAdd ==
  ASSUME NEW S, NEW n \in Nat, IsFiniteSet(S), ~(Cardinality(S) >= n), NEW p, p \notin S
  PROVE  Short(S \cup {p}, n)
<1>1. IsFiniteSet(S \cup {p}) /\ Cardinality(S \cup {p}) = Cardinality(S) + 1
  BY FS_AddElement
<1>2. Cardinality(S) \in Nat
  BY FS_CardinalityType
<1>3. QED BY <1>1, <1>2 DEF Short

LEMMA ShortEmpty == \A n \in Nat : Short({}, n)
  BY FS_EmptySet DEF Short

LEMMA DefaultsShort == Short(DefaultPorts, MaxCommon) /\ Short(OldPorts, MaxCommon)
  BY GatewayAssumption, FS_Subset DEF Short

LEMMA KeysAreApart ==
  /\ GwKeys \cap MainKeys = {} /\ PortKeys \subseteq GwKeys /\ {"sss_cipher", "sss_pwd"} \subseteq GwKeys
  /\ PortKeys \cap {"sss_cipher", "sss_pwd"} = {} /\ LanLists \cap Keys = {}
  /\ \A s \in Services : SwitchOf[s] \in GwKeys \ {"sss_cipher", "sss_pwd"} /\ Fields[s] \subseteq GwKeys
<1>1. Services = {"vmess", "ss", "ts", "wg"}
  BY DEF Services, Fields
<1>2. GwKeys = PortKeys \cup {"vms_uuid", "sss_cipher", "sss_pwd", "ts_auth_key", "wg_keys"}
                 \cup {"vms_service", "sss_service", "ts_service", "wg_service"}
  <2>1. UNION {Fields[s] : s \in Services} = PortKeys \cup {"vms_uuid", "sss_cipher", "sss_pwd", "ts_auth_key", "wg_keys"}
    BY <1>1 DEF Fields, PortKeys
  <2>2. {SwitchOf[s] : s \in Services} = {"vms_service", "sss_service", "ts_service", "wg_service"}
    BY <1>1 DEF SwitchOf
  <2>3. QED BY <2>1, <2>2 DEF GwKeys
<1>3. \A s \in Services : SwitchOf[s] \in GwKeys \ {"sss_cipher", "sss_pwd"} /\ Fields[s] \subseteq GwKeys
  BY <1>1, <1>2 DEF SwitchOf, Fields, PortKeys
<1>4. GwKeys \cap MainKeys = {} /\ LanLists \cap Keys = {}
  BY <1>2 DEF MainKeys, PortKeys, Keys, LanLists
<1>5. PortKeys \subseteq GwKeys /\ {"sss_cipher", "sss_pwd"} \subseteq GwKeys
  BY <1>2
<1>6. PortKeys \cap {"sss_cipher", "sss_pwd"} = {}
  BY DEF PortKeys
<1>7. QED BY <1>3, <1>4, <1>5, <1>6

-----------------------------------------------------------------------------
(* Answers *)

LEMMA PutFits ==
  ASSUME NEW fs, NEW k \in Keys, NEW v \in SUBSET Items,
         k \notin {"fw_wan_ports", "multiport", "sss_cipher", "sss_pwd"}
  PROVE  Put(k, v) \in Change /\ Fitting(fs, Put(k, v))
<1>1. Put(k, v) = [file |-> To(k), keys |-> {k}, value |-> v, pwd |-> {}]
  BY DEF Put
<1>2. (k \in GwKeys /\ To(k) = "gw") \/ (k \in MainKeys /\ To(k) = "main")
  BY DEF To, Keys
<1>3. Put(k, v) \in Change
  BY <1>1, <1>2 DEF Change
<1>4. Fitting(fs, Put(k, v))
  BY <1>1, <1>2 DEF Fitting
<1>5. QED BY <1>3, <1>4

LEMMA WanFits ==
  ASSUME NEW fs \in Files, Sane(fs), NEW change \in WanAnswers(fs)
  PROVE  change \in Change /\ Fitting(fs, change)
<1> DEFINE ports == Get(fs, "fw_wan_ports")
<1>1. Short(ports, MaxWan) /\ ports \subseteq Items /\ MaxWan \in Nat
  BY GatewayAssumption DEF Get, Sane, MainKeys, Files, File, Keys
<1>2. {"ON"} \subseteq Items /\ {"OFF"} \subseteq Items /\ Ports \subseteq Items /\ {} \subseteq Items
  BY DEF Items
<1>3. ASSUME NEW v, change = Put("fw_wan", v), v \in {{"ON"}, {"OFF"}}
      PROVE  change \in Change /\ Fitting(fs, change)
  BY <1>2, <1>3, PutFits DEF Keys, MainKeys
<1>4. ASSUME NEW v \in SUBSET Items, change = Put("fw_wan_ports", v), Short(v, MaxWan)
      PROVE  change \in Change /\ Fitting(fs, change)
  <2>1. change = [file |-> "main", keys |-> {"fw_wan_ports"}, value |-> v, pwd |-> {}]
    BY <1>4, KeysAreApart DEF Put, To, MainKeys
  <2>2. QED BY <1>4, <2>1 DEF Change, Fitting, Keys, MainKeys
<1>5. ASSUME NEW p \in Ports \ ports, ~(Cardinality(ports) >= MaxWan), change = Put("fw_wan_ports", ports \cup {p})
      PROVE  change \in Change /\ Fitting(fs, change)
  <2>1. Short(ports \cup {p}, MaxWan)
    BY <1>1, <1>5, ShortAdd DEF Short
  <2>2. QED BY <1>1, <1>2, <1>4, <1>5, <2>1
<1>6. ASSUME NEW p \in ports, change = Put("fw_wan_ports", ports \ {p})
      PROVE  change \in Change /\ Fitting(fs, change)
  <2>1. Short(ports \ {p}, MaxWan)
    BY <1>1, ShortSub
  <2>2. QED BY <1>1, <1>4, <1>6, <2>1
<1>7. ASSUME change = Put("fw_wan_ports", {}) PROVE change \in Change /\ Fitting(fs, change)
  BY <1>1, <1>4, <1>7, ShortEmpty
<1>8. QED BY <1>3, <1>5, <1>6, <1>7 DEF WanAnswers

LEMMA CommonFits ==
  ASSUME NEW fs \in Files, Sane(fs), NEW change \in CommonAnswers(fs)
  PROVE  change \in Change /\ Fitting(fs, change)
<1> DEFINE ports == Effective(fs)
<1>1. Short(ports, MaxCommon) /\ ports \subseteq Items /\ MaxCommon \in Nat /\ OldPorts \subseteq Items
  BY GatewayAssumption, DefaultsShort DEF Effective, Sane, MainKeys, Files, File, Keys, Items
<1>2. {"ON"} \subseteq Items /\ {"OFF"} \subseteq Items /\ Ports \subseteq Items /\ {} \subseteq Items
  BY DEF Items
<1>3. ASSUME change = Put("common_ports", Flip(fs, "common_ports"))
      PROVE  change \in Change /\ Fitting(fs, change)
  BY <1>2, <1>3, PutFits DEF Keys, MainKeys, Flip
<1>4. ASSUME NEW v \in SUBSET Items, change = Put("multiport", v), Short(v, MaxCommon)
      PROVE  change \in Change /\ Fitting(fs, change)
  <2>1. change = [file |-> "main", keys |-> {"multiport"}, value |-> v, pwd |-> {}]
    BY <1>4, KeysAreApart DEF Put, To, MainKeys
  <2>2. QED BY <1>4, <2>1 DEF Change, Fitting, Keys, MainKeys
<1>5. ASSUME NEW p \in Ports \ ports, ~(Cardinality(ports) >= MaxCommon), change = Put("multiport", ports \cup {p})
      PROVE  change \in Change /\ Fitting(fs, change)
  <2>1. Short(ports \cup {p}, MaxCommon)
    BY <1>1, <1>5, ShortAdd DEF Short
  <2>2. QED BY <1>1, <1>2, <1>4, <1>5, <2>1
<1>6. ASSUME NEW p \in ports, change = Put("multiport", ports \ {p})
      PROVE  change \in Change /\ Fitting(fs, change)
  <2>1. Short(ports \ {p}, MaxCommon)
    BY <1>1, ShortSub
  <2>2. QED BY <1>1, <1>4, <1>6, <2>1
<1>7. ASSUME change = Put("multiport", {}) \/ change = Put("multiport", OldPorts)
      PROVE  change \in Change /\ Fitting(fs, change)
  BY <1>1, <1>4, <1>7, ShortEmpty, DefaultsShort
<1>8. QED BY <1>3, <1>5, <1>6, <1>7 DEF CommonAnswers

LEMMA CipherFits ==
  ASSUME NEW fs \in Files, NEW change \in CipherAnswers(fs)
  PROVE  change \in Change /\ Fitting(fs, change)
<1>1. ASSUME NEW c \in Ciphers,
             change = [file |-> "gw", keys |-> {"sss_cipher", "sss_pwd"}, value |-> {c}, pwd |-> {PwdOf(c)}]
      PROVE  change \in Change /\ Fitting(fs, change)
  <2>1. {c} \subseteq Items /\ {PwdOf(c)} \subseteq Items
    BY DEF Items, PwdOf
  <2>2. {"sss_cipher", "sss_pwd"} \subseteq GwKeys /\ {"sss_cipher", "sss_pwd"} \subseteq Keys
    BY KeysAreApart DEF Keys
  <2>3. change \in Change
    BY <1>1, <2>1, <2>2 DEF Change
  <2>4. Fitting(fs, change)
    BY <1>1, <2>2 DEF Fitting
  <2>5. QED BY <2>3, <2>4
<1>2. ASSUME NEW v \in {{}, {"typed"}}, change = Put("sss_pwd", v), ~(Get(fs, "sss_cipher") \cap Blake3 # {})
      PROVE  change \in Change /\ Fitting(fs, change)
  <2>1. change = [file |-> "gw", keys |-> {"sss_pwd"}, value |-> v, pwd |-> {}]
    BY <1>2, KeysAreApart DEF Put, To
  <2>2. {"sss_pwd"} \subseteq GwKeys /\ {"sss_pwd"} \subseteq Keys /\ v \subseteq Items
    BY KeysAreApart DEF Keys, Items
  <2>3. change \in Change
    BY <2>1, <2>2 DEF Change
  <2>4. Fitting(fs, change)
    BY <1>2, <2>1, <2>2 DEF Fitting
  <2>5. QED BY <2>3, <2>4
<1>3. QED BY <1>1, <1>2 DEF CipherAnswers

LEMMA FieldFits ==
  ASSUME NEW fs \in Files, NEW s \in Services,
         NEW change \in ServiceAnswers(fs, s) \cup FieldAnswers(fs, s)
  PROVE  change \in Change /\ Fitting(fs, change)
<1>1. \A v \in {{}, {"set"}, {"ON"}, {"OFF"}} : v \in SUBSET Items
  BY DEF Items
<1>2. \A p \in Ports : {p} \in SUBSET Items
  BY DEF Items
<1>3. \A k \in GwKeys : k \in Keys /\ k \notin {"fw_wan_ports", "multiport"}
  BY KeysAreApart DEF Keys, MainKeys
<1>4. CASE change \in ServiceAnswers(fs, s)
  <2>1. change = Put(SwitchOf[s], Flip(fs, SwitchOf[s])) /\ Flip(fs, SwitchOf[s]) \in SUBSET Items
    BY <1>1, <1>4 DEF ServiceAnswers, Flip
  <2>2. QED BY <1>3, <2>1, KeysAreApart, PutFits
<1>5. ASSUME NEW k \in Fields[s] \ (PortKeys \cup {"sss_cipher", "sss_pwd"}), NEW v \in {{}, {"set"}},
             change = Put(k, v)
      PROVE  change \in Change /\ Fitting(fs, change)
  BY <1>1, <1>3, <1>5, KeysAreApart, PutFits
<1>6. ASSUME NEW k \in Fields[s] \cap PortKeys, NEW v \in {{}} \cup {{p} : p \in Ports}, change = Put(k, v)
      PROVE  change \in Change /\ Fitting(fs, change)
  <2>1. v \in SUBSET Items
    BY <1>1, <1>2
  <2>2. QED BY <1>3, <1>6, <2>1, KeysAreApart, PutFits
<1>7. QED BY <1>4, <1>5, <1>6 DEF FieldAnswers

LEMMA LanFits ==
  ASSUME NEW fs \in Files, NEW change \in LanAnswers(fs)
  PROVE  change \in Change /\ Fitting(fs, change)
<1>1. ASSUME NEW ks \in SUBSET LanLists, NEW v \in SUBSET Devices, change = LanPut(ks, v)
      PROVE  change \in Change /\ Fitting(fs, change)
  <2>1. change = [file |-> "lan", keys |-> ks, value |-> v, pwd |-> {}] /\ v \subseteq Items
    BY <1>1 DEF LanPut, Items
  <2>2. change \in Change
    BY <2>1 DEF Change
  <2>3. ks \cap {"fw_wan_ports", "multiport", "sss_cipher", "sss_pwd"} = {}
    BY DEF LanLists
  <2>4. Fitting(fs, change)
    BY <2>1, <2>3 DEF Fitting
  <2>5. QED BY <2>2, <2>4
<1>2. \A k \in LanLists : fs.lan[k] \in SUBSET Devices
  BY DEF Files, Lan
<1>3. \A k \in LanLists, d \in Devices :
        {k} \in SUBSET LanLists /\ fs.lan[k] \cup {d} \in SUBSET Devices /\ fs.lan[k] \ {d} \in SUBSET Devices
  BY <1>2
<1>4. ASSUME NEW k \in LanLists, change \in ListAnswers(fs, k)
      PROVE  change \in Change /\ Fitting(fs, change)
  <2>1. PICK v \in SUBSET Devices : change = LanPut({k}, v)
    BY <1>3, <1>4 DEF ListAnswers
  <2>2. QED BY <1>1, <2>1
<1>5. CASE change = LanPut(LanLists, {})
  BY <1>1, <1>5
<1>6. QED BY <1>4, <1>5 DEF LanAnswers, LanLists

LEMMA AnswerFits ==
  ASSUME NEW fs \in Files, Sane(fs), NEW topic \in Topics, NEW change \in Answers(fs, topic)
  PROVE  change \in Change /\ Fitting(fs, change)
<1>1. topic \in AllTopics
  BY GatewayAssumption
<1>2. CASE topic \in {"hosts", "flags"}
  <2>1. fs.main["hosts"] \in SUBSET Items
    BY DEF Files, File, Keys, MainKeys
  <2>2. \A d \in Devices : {} \in SUBSET Items /\ fs.main["hosts"] \cup {d} \in SUBSET Items
    BY <2>1 DEF Items
  <2>3. {} \in SUBSET Items /\ Flip(fs, "common_ports") \in SUBSET Items
    BY DEF Items, Flip
  <2>4. "hosts" \in Keys /\ "common_ports" \in Keys
    BY DEF Keys, MainKeys
  <2>5. \E k \in {"hosts", "common_ports"}, v \in SUBSET Items : change = Put(k, v)
    <3>1. CASE topic = "hosts"
      <4>1. change \in HostAnswers(fs)
        BY <3>1 DEF Answers
      <4>2. QED BY <2>2, <2>3, <4>1 DEF HostAnswers
    <3>2. CASE topic = "flags"
      <4>1. change \in FlagAnswers(fs)
        BY <3>2 DEF Answers
      <4>2. QED BY <2>3, <4>1 DEF FlagAnswers
    <3>3. QED BY <1>2, <3>1, <3>2
  <2>6. QED BY <2>4, <2>5, PutFits
<1>3. CASE topic = "wan"
  BY <1>3, WanFits DEF Answers
<1>4. CASE topic = "common"
  BY <1>4, CommonFits DEF Answers
<1>5. CASE topic = "lan"
  BY <1>5, LanFits DEF Answers
<1>6. CASE topic = "ss"
  <2>1. "ss" \in Services
    BY DEF Services, Fields
  <2>2. change \in ServiceAnswers(fs, "ss") \cup FieldAnswers(fs, "ss") \cup CipherAnswers(fs)
    BY <1>6 DEF Answers
  <2>3. QED BY <2>1, <2>2, FieldFits, CipherFits
<1>7. CASE topic \in {"vmess", "ts", "wg"}
  <2>1. topic \in Services
    BY <1>7 DEF Services, Fields
  <2>2. change \in ServiceAnswers(fs, topic) \cup FieldAnswers(fs, topic)
    BY <1>7 DEF Answers
  <2>3. QED BY <2>1, <2>2, FieldFits
<1>8. QED BY <1>1, <1>2, <1>3, <1>4, <1>5, <1>6, <1>7 DEF AllTopics

-----------------------------------------------------------------------------
(* The files, the pictures of them, the copies *)

TypedMenus ==
    /\ snap \in [Menus -> Files] /\ copy \in [Menus -> Files] /\ todo \in [Menus -> Change]
    /\ pc \in [Menus -> {"load", "prompt", "write"}]
    /\ behind \subseteq Menus /\ overlapped \in BOOLEAN
    /\ answers \in 0 .. MaxAnswers

SaneAll ==
    /\ files \in Files /\ TypedMenus
    /\ Sane(files)
    /\ \A m \in Menus : /\ Sane(snap[m]) /\ Sane(copy[m])
                        /\ pc[m] = "write" => Fitting(snap[m], todo[m])

LEMMA ChangedTyped ==
  ASSUME NEW file \in File, NEW change \in Change
  PROVE  Changed(file, change) \in File
<1>1. DOMAIN file = Keys
  BY DEF File
<1>2. \A k \in Keys : (IF k \notin change.keys THEN file[k]
                       ELSE IF k = "sss_pwd" /\ "sss_cipher" \in change.keys THEN change.pwd
                       ELSE change.value) \in SUBSET Items
  BY DEF File, Change
<1>3. QED BY <1>1, <1>2 DEF Changed, File

LEMMA ChangedLanTyped ==
  ASSUME NEW file \in Lan, NEW change \in Change, change.keys \subseteq LanLists, change.value \subseteq Devices
  PROVE  Changed(file, change) \in Lan
<1>1. DOMAIN file = LanLists
  BY DEF Lan
<1>2. \A k \in LanLists : file[k] \in SUBSET Devices /\ k # "sss_pwd"
  BY DEF Lan, LanLists
<1>3. \A k \in LanLists : (IF k \notin change.keys THEN file[k]
                           ELSE IF k = "sss_pwd" /\ "sss_cipher" \in change.keys THEN change.pwd
                           ELSE change.value) \in SUBSET Devices
  BY <1>2
<1>4. QED BY <1>1, <1>3 DEF Changed, Lan

\* What a write does to the files, by the file it is about.
LEMMA Writes ==
  ASSUME SaneAll, NEW m \in Menus, Write(m)
  PROVE  /\ files' \in Files
         /\ todo[m].file = "gw" => /\ files'.gw = Changed(copy[m].gw, todo[m])
                                   /\ files'.main = files.main /\ todo[m].keys \subseteq GwKeys
         /\ todo[m].file = "main" => /\ files'.main = Changed(copy[m].main, todo[m])
                                     /\ files'.gw = files.gw /\ todo[m].keys \subseteq MainKeys
         /\ todo[m].file = "lan" => files'.gw = files.gw /\ files'.main = files.main
                                    /\ todo[m].keys \subseteq LanLists
         /\ todo[m].file \in {"gw", "main", "lan"}
<1>1. files \in Files /\ copy[m] \in Files /\ todo[m] \in Change /\ Fitting(snap[m], todo[m])
  BY DEF SaneAll, TypedMenus, Write
<1>2. files.gw \in File /\ files.main \in File /\ files.lan \in Lan /\ copy[m].gw \in File /\ copy[m].main \in File
  BY <1>1 DEF Files
<1>3. todo[m].file \in {"gw", "main", "lan"}
  BY <1>1 DEF Change
<1>4. files' = [files EXCEPT ![todo[m].file] = Written(m)]
  BY DEF Write
<1>5. CASE todo[m].file = "gw"
  <2>1. files' = [files EXCEPT !.gw = Changed(copy[m].gw, todo[m])]
    BY <1>4, <1>5 DEF Written
  <2>2. Changed(copy[m].gw, todo[m]) \in File
    BY <1>1, <1>2, ChangedTyped
  <2>3. todo[m].keys \subseteq GwKeys
    BY <1>1, <1>5 DEF Fitting
  <2>4. QED BY <1>1, <1>5, <2>1, <2>2, <2>3 DEF Files
<1>6. CASE todo[m].file = "main"
  <2>1. files' = [files EXCEPT !.main = Changed(copy[m].main, todo[m])]
    BY <1>4, <1>6 DEF Written
  <2>2. Changed(copy[m].main, todo[m]) \in File
    BY <1>1, <1>2, ChangedTyped
  <2>3. todo[m].keys \subseteq MainKeys
    BY <1>1, <1>6 DEF Fitting
  <2>4. QED BY <1>1, <1>6, <2>1, <2>2, <2>3 DEF Files
<1>7. CASE todo[m].file = "lan"
  <2>1. files' = [files EXCEPT !.lan = Changed(files.lan, todo[m])]
    BY <1>4, <1>7 DEF Written
  <2>2. todo[m].keys \subseteq LanLists /\ todo[m].value \subseteq Devices
    BY <1>1, <1>7 DEF Fitting
  <2>3. Changed(files.lan, todo[m]) \in Lan
    BY <1>1, <1>2, <2>2, ChangedLanTyped
  <2>4. QED BY <1>1, <1>7, <2>1, <2>2, <2>3 DEF Files
<1>8. QED BY <1>3, <1>5, <1>6, <1>7

LEMMA ChangedAt ==
  ASSUME NEW file \in File, NEW change \in Change, NEW k \in Keys
  PROVE  /\ k \notin change.keys => Changed(file, change)[k] = file[k]
         /\ k \in change.keys /\ k # "sss_pwd" => Changed(file, change)[k] = change.value
         /\ k \in change.keys /\ k = "sss_pwd" =>
              Changed(file, change)[k] = IF "sss_cipher" \in change.keys THEN change.pwd ELSE change.value
  BY DEF Changed, File

LEMMA WriteSane ==
  ASSUME SaneAll, NEW m \in Menus, Write(m)
  PROVE  Sane(files')
<1>1. files \in Files /\ copy[m] \in Files /\ todo[m] \in Change /\ Fitting(snap[m], todo[m])
      /\ Sane(files) /\ Sane(copy[m])
  BY DEF SaneAll, TypedMenus, Write
<1>2. copy[m].gw \in File /\ copy[m].main \in File
  BY <1>1 DEF Files
<1>3. /\ {"fw_wan_ports", "multiport"} \subseteq MainKeys /\ {"fw_wan_ports", "multiport"} \subseteq Keys
      /\ "fw_wan_ports" \notin GwKeys
      /\ "fw_wan_ports" # "sss_pwd" /\ "multiport" # "sss_pwd"
  BY KeysAreApart DEF MainKeys, Keys
<1>4. CASE todo[m].file = "gw"
  <2>1. files'.gw = Changed(copy[m].gw, todo[m]) /\ files'.main = files.main /\ todo[m].keys \subseteq GwKeys
    BY <1>4, Writes
  <2>2. files'.gw["fw_wan_ports"] = copy[m].gw["fw_wan_ports"]
    BY <1>1, <1>2, <1>3, <2>1, ChangedAt
  <2>3. QED BY <1>1, <2>1, <2>2 DEF Sane
<1>5. CASE todo[m].file = "main"
  <2>1. files'.main = Changed(copy[m].main, todo[m]) /\ files'.gw = files.gw /\ todo[m].keys \subseteq MainKeys
    BY <1>5, Writes
  <2>2. Short(files'.main["fw_wan_ports"], MaxWan)
    <3>1. files'.main["fw_wan_ports"] \in {copy[m].main["fw_wan_ports"], todo[m].value}
          /\ ("fw_wan_ports" \notin todo[m].keys => files'.main["fw_wan_ports"] = copy[m].main["fw_wan_ports"])
      BY <1>1, <1>2, <1>3, <2>1, ChangedAt
    <3>2. QED BY <1>1, <3>1 DEF Sane, Fitting
  <2>3. Short(files'.main["multiport"], MaxCommon)
    <3>1. files'.main["multiport"] \in {copy[m].main["multiport"], todo[m].value}
          /\ ("multiport" \notin todo[m].keys => files'.main["multiport"] = copy[m].main["multiport"])
      BY <1>1, <1>2, <1>3, <2>1, ChangedAt
    <3>2. QED BY <1>1, <3>1 DEF Sane, Fitting
  <2>4. QED BY <1>1, <2>1, <2>2, <2>3 DEF Sane
<1>6. CASE todo[m].file = "lan"
  <2>1. files'.gw = files.gw /\ files'.main = files.main
    BY <1>6, Writes
  <2>2. QED BY <1>1, <2>1 DEF Sane
<1>7. QED BY <1>4, <1>5, <1>6, Writes

\* What an older version left.
LEMMA LeftSane ==
  ASSUME NEW gw \in Old(LegacyGw), NEW main \in Old(Legacy)
  PROVE  LET fs == [Clean EXCEPT !.gw = Filled(gw), !.main = Filled(main)]
         IN  fs \in Files /\ Sane(fs) /\ fs.gw["sss_cipher"] = {}
<1> DEFINE fs == [Clean EXCEPT !.gw = Filled(gw), !.main = Filled(main)]
<1>1. /\ {"fw_wan_ports", "multiport", "sss_cipher"} \subseteq Keys
      /\ {"fw_wan_ports", "multiport"} \cap GwKeys = {} /\ "sss_cipher" \in GwKeys
  BY KeysAreApart DEF Keys, MainKeys
<1>2. Short({}, MaxWan) /\ Short({}, MaxCommon)
  BY GatewayAssumption, ShortEmpty
<1>3. ASSUME NEW k \in Keys, NEW v \in Left(k) PROVE v \in SUBSET Items
  <2>1. CASE k \in PortKeys
    BY <1>3, <2>1 DEF Left, Items
  <2>2. CASE k = "fw_wan_ports"
    <3>1. k \notin PortKeys
      BY <2>2, KeysAreApart DEF MainKeys
    <3>2. QED BY <1>3, <2>2, <3>1 DEF Left, Items
  <2>3. CASE k = "sss_cipher"
    BY <1>3, <2>3, KeysAreApart DEF Left, Items
  <2>4. CASE k \notin PortKeys /\ k # "fw_wan_ports" /\ k # "sss_cipher"
    BY <1>3, <2>4 DEF Left, Items
  <2>5. QED BY <2>1, <2>2, <2>3, <2>4
<1>4. ASSUME NEW keys \in SUBSET Keys, NEW f \in Old(keys)
      PROVE  /\ Filled(f) \in File
             /\ \A k \in Keys \ keys : Filled(f)[k] = {}
             /\ \A k \in keys : Filled(f)[k] \in {{}} \cup Left(k)
  <2>1. DOMAIN f = keys /\ \A k \in keys : f[k] \in {{}} \cup Left(k)
    BY <1>4 DEF Old
  <2>2. \A k \in keys : f[k] \in SUBSET Items
    BY <1>3, <2>1
  <2>3. QED BY <2>1, <2>2 DEF Filled, File
<1>5. LegacyGw \subseteq {"fw_wan", "fw_wan_ports"} /\ LegacyGw \subseteq Keys
      /\ Legacy \subseteq GwKeys /\ Legacy \subseteq Keys
  BY GatewayAssumption DEF Keys, MainKeys
<1>6. Filled(gw) \in File /\ Filled(main) \in File
  BY <1>4, <1>5
<1>7. fs \in Files /\ fs.gw = Filled(gw) /\ fs.main = Filled(main)
  BY <1>6 DEF Clean, Files, Lan
<1>8. Filled(main)["fw_wan_ports"] = {} /\ Filled(main)["multiport"] = {}
  BY <1>1, <1>4, <1>5
<1>9. Filled(gw)["sss_cipher"] = {}
  BY <1>1, <1>4, <1>5
<1>10. Short(Filled(gw)["fw_wan_ports"], MaxWan)
  <2>1. Filled(gw)["fw_wan_ports"] \in {{}} \cup Left("fw_wan_ports")
    BY <1>1, <1>4, <1>5
  <2>2. ASSUME NEW ports \in Left("fw_wan_ports") PROVE Short(ports, MaxWan)
    <3>1. "fw_wan_ports" \notin PortKeys
      BY KeysAreApart DEF MainKeys
    <3>2. ports \subseteq Ports /\ Cardinality(ports) <= MaxWan
      BY <2>2, <3>1 DEF Left
    <3>3. QED BY <3>2, GatewayAssumption, FS_Subset DEF Short
  <2>3. QED BY <1>2, <2>1, <2>2
<1>11. QED BY <1>2, <1>7, <1>8, <1>9, <1>10 DEF Sane

LEMMA CleanIsSane == Clean \in Files /\ Sane(Clean)
<1>1. "fw_wan_ports" \in Keys /\ "multiport" \in Keys
  BY DEF Keys, MainKeys
<1>2. Empty \in File /\ Clean.lan \in Lan /\ Clean.gw = Empty /\ Clean.main = Empty
  BY DEF Empty, File, Clean, Lan, Items
<1>3. QED BY <1>1, <1>2, GatewayAssumption, ShortEmpty DEF Clean, Files, Sane, Empty

LEMMA SaneInit == Init => SaneAll
<1> SUFFICES ASSUME Init PROVE SaneAll
  OBVIOUS
<1>1. PICK gw \in Old(LegacyGw), main \in Old(Legacy) :
        files = [Clean EXCEPT !.gw = Filled(gw), !.main = Filled(main)]
  BY DEF Init
<1>2. files \in Files /\ Sane(files) /\ Clean \in Files /\ Sane(Clean)
  BY <1>1, LeftSane, CleanIsSane
<1>3. Nothing \in Change
  BY DEF Nothing, Change
<1>4. 0 \in 0 .. MaxAnswers
  BY GatewayAssumption
<1>5. TypedMenus
  BY <1>2, <1>3, <1>4 DEF Init, TypedMenus
<1>6. QED BY <1>2, <1>5 DEF Init, SaneAll

LEMMA SaneNext == SaneAll /\ [Next]_vars => SaneAll'
<1> SUFFICES ASSUME SaneAll, [Next]_vars PROVE SaneAll'
  OBVIOUS
<1>1. ASSUME NEW m \in Menus, Load(m) PROVE SaneAll'
  BY <1>1 DEF SaneAll, TypedMenus, Load
<1>2. ASSUME NEW m \in Menus, Answer(m) PROVE SaneAll'
  <2>1. snap[m] \in Files /\ Sane(snap[m])
    BY DEF SaneAll, TypedMenus
  <2>2. PICK topic \in Topics : \E change \in Answers(snap[m], topic) : todo' = [todo EXCEPT ![m] = change]
    BY <1>2 DEF Answer
  <2>3. PICK change \in Answers(snap[m], topic) : todo' = [todo EXCEPT ![m] = change]
    BY <2>2
  <2>4. change \in Change /\ Fitting(snap[m], change)
    BY <2>1, AnswerFits
  <2>5. answers' \in 0 .. MaxAnswers
    BY <1>2, GatewayAssumption DEF SaneAll, TypedMenus, Answer
  <2>6. TypedMenus'
    BY <1>2, <2>3, <2>4, <2>5 DEF SaneAll, TypedMenus, Answer
  <2>7. \A n \in Menus : Sane(snap'[n]) /\ Sane(copy'[n])
    BY <1>2 DEF SaneAll, TypedMenus, Answer
  <2>8. \A n \in Menus : pc'[n] = "write" => Fitting(snap'[n], todo'[n])
    BY <1>2, <2>3, <2>4 DEF SaneAll, TypedMenus, Answer
  <2>9. QED BY <1>2, <2>6, <2>7, <2>8 DEF SaneAll, Answer
<1>3. ASSUME NEW m \in Menus, Leave(m) PROVE SaneAll'
  BY <1>3 DEF SaneAll, TypedMenus, Leave
<1>4. ASSUME NEW m \in Menus, Write(m) PROVE SaneAll'
  <2>1. files' \in Files /\ Sane(files')
    BY <1>4, Writes, WriteSane
  <2>2. Nothing \in Change
    BY DEF Nothing, Change
  <2>4. TypedMenus'
    BY <1>4, <2>1, <2>2 DEF SaneAll, TypedMenus, Write
  <2>5. \A n \in Menus : pc'[n] = "write" => Fitting(snap'[n], todo'[n])
    BY <1>4 DEF SaneAll, TypedMenus, Write
  <2>6. \A n \in Menus : Sane(snap'[n]) /\ Sane(copy'[n])
    BY <1>4 DEF SaneAll, Write
  <2>7. QED BY <2>1, <2>4, <2>5, <2>6 DEF SaneAll
<1>5. CASE UNCHANGED vars
  BY <1>5 DEF vars, SaneAll, TypedMenus
<1>6. QED BY <1>1, <1>2, <1>3, <1>4, <1>5 DEF Next

LEMMA SaneAlways == Spec => []SaneAll
  BY SaneInit, SaneNext, PTL DEF Spec

\* Types: whatever the menus answer, in whatever order they read and write.
THEOREM TypeCorrect == Spec => []TypeOK
<1>1. SaneAll => TypeOK
  BY DEF SaneAll, TypedMenus, TypeOK
<1>2. QED BY <1>1, SaneAlways, PTL

\* The limits on the ports opened by hand and on the common ports hold however
\* many menus write over each other (RunFirewallMenu, RunCommonPortsMenu).
THEOREM LimitsHold == Spec => []ListsBounded
<1>1. SaneAll => ListsBounded
  BY DefaultsShort DEF SaneAll, Sane, Short, ListsBounded, Effective
<1>2. QED BY <1>1, SaneAlways, PTL

-----------------------------------------------------------------------------
(* Menus that do not overlap *)

\* Until another menu writes, a picture and a copy are the files themselves.
Fresh == \A m \in Menus \ behind : /\ pc[m] # "load" => snap[m] = files
                                   /\ pc[m] = "write" => copy[m] = files

Kept == \A c \in Blake3 : files.gw["sss_cipher"] = {c} => files.gw["sss_pwd"] = {PwdOf(c)}

Apart == Fresh /\ (~overlapped => Kept)

LEMMA ApartInit == Init => Apart
<1> SUFFICES ASSUME Init PROVE Apart
  OBVIOUS
<1>1. PICK gw \in Old(LegacyGw), main \in Old(Legacy) :
        files = [Clean EXCEPT !.gw = Filled(gw), !.main = Filled(main)]
  BY DEF Init
<1>2. files.gw["sss_cipher"] = {}
  BY <1>1, LeftSane
<1>3. QED BY <1>2 DEF Init, Apart, Fresh, Kept

LEMMA WriteKeeps ==
  ASSUME SaneAll, Apart, NEW m \in Menus, Write(m), ~overlapped'
  PROVE  Kept'
<1>1. m \notin behind /\ ~overlapped
  BY DEF Write
<1>2. snap[m] = files /\ copy[m] = files /\ Kept
  BY <1>1 DEF Apart, Fresh, Write
<1>3. files \in Files /\ todo[m] \in Change /\ Fitting(files, todo[m])
  BY <1>2 DEF SaneAll, TypedMenus, Write
<1>4. files.gw \in File /\ files.main \in File
  BY <1>3 DEF Files
<1>5. {"sss_cipher", "sss_pwd"} \subseteq Keys /\ {"sss_cipher", "sss_pwd"} \cap MainKeys = {}
  BY KeysAreApart DEF Keys
<1>6. CASE todo[m].file = "gw"
  <2>1. files'.gw = Changed(files.gw, todo[m])
    BY <1>2, <1>6, Writes
  <2>2. ASSUME NEW c \in Blake3, files'.gw["sss_cipher"] = {c} PROVE files'.gw["sss_pwd"] = {PwdOf(c)}
    <3>1. CASE "sss_cipher" \in todo[m].keys
      <4>1. PICK d \in Ciphers : todo[m].value = {d} /\ todo[m].pwd = {PwdOf(d)} /\ "sss_pwd" \in todo[m].keys
        BY <1>3, <3>1 DEF Fitting
      <4>2. files'.gw["sss_cipher"] = {d} /\ files'.gw["sss_pwd"] = {PwdOf(d)}
        BY <1>3, <1>4, <1>5, <2>1, <3>1, <4>1, ChangedAt
      <4>3. QED BY <2>2, <4>2
    <3>2. CASE "sss_cipher" \notin todo[m].keys
      <4>1. files.gw["sss_cipher"] = {c}
        BY <1>3, <1>4, <1>5, <2>1, <2>2, <3>2, ChangedAt
      <4>2. Get(files, "sss_cipher") = {c}
        BY <1>5, <4>1 DEF Get
      <4>3. "sss_pwd" \notin todo[m].keys
        BY <1>3, <3>2, <4>2 DEF Fitting
      <4>4. files'.gw["sss_pwd"] = files.gw["sss_pwd"]
        BY <1>3, <1>4, <1>5, <2>1, <4>3, ChangedAt
      <4>5. QED BY <1>2, <4>1, <4>4 DEF Kept
    <3>3. QED BY <3>1, <3>2
  <2>3. QED BY <2>2 DEF Kept
<1>7. CASE todo[m].file \in {"main", "lan"}
  <2>1. files'.gw = files.gw
    BY <1>7, Writes
  <2>2. QED BY <1>2, <2>1 DEF Kept
<1>8. QED BY <1>6, <1>7, Writes

LEMMA ApartNext == SaneAll /\ Apart /\ [Next]_vars => Apart'
<1> SUFFICES ASSUME SaneAll, Apart, [Next]_vars PROVE Apart'
  OBVIOUS
<1>0. /\ snap \in [Menus -> Files] /\ copy \in [Menus -> Files]
      /\ pc \in [Menus -> {"load", "prompt", "write"}] /\ behind \subseteq Menus
  BY DEF SaneAll, TypedMenus
<1>1. ASSUME NEW m \in Menus, Load(m) PROVE Apart'
  BY <1>0, <1>1 DEF Load, Apart, Fresh, Kept
<1>2. ASSUME NEW m \in Menus, Answer(m) PROVE Apart'
  BY <1>0, <1>2 DEF Answer, Apart, Fresh, Kept
<1>3. ASSUME NEW m \in Menus, Leave(m) PROVE Apart'
  BY <1>0, <1>3 DEF Leave, Apart, Fresh, Kept
<1>4. ASSUME NEW m \in Menus, Write(m) PROVE Apart'
  <2>1. Fresh'
    BY <1>0, <1>4 DEF Write, Fresh
  <2>2. QED BY <1>4, <2>1, WriteKeeps DEF Apart
<1>5. CASE UNCHANGED vars
  BY <1>5 DEF vars, Apart, Fresh, Kept
<1>6. QED BY <1>1, <1>2, <1>3, <1>4, <1>5 DEF Next

LEMMA ApartAlways == Spec => []Apart
  BY SaneAlways, ApartInit, ApartNext, PTL DEF Spec

\* A 2022 cipher the menu has written has a password of its length, as long as
\* no menu writes from a picture another has overtaken (RunCommonSSMenu writes
\* both, and refuses one typed by hand).
THEOREM PasswordStays == Spec => []CipherHasItsPassword
<1>1. Apart => CipherHasItsPassword
  BY DEF Apart, Kept, CipherHasItsPassword
<1>2. QED BY <1>1, ApartAlways, PTL
=============================================================================
