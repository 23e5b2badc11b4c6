----------------------------- MODULE PartsProofs -----------------------------
(***************************************************************************)
(* The vault, the record and the audit log, each for every value of its    *)
(* constants, and what their composition keeps: the size of the log, the   *)
(* order of its lines and what a rotation keeps, for every number of       *)
(* processes, of lines and of system calls that fail; whose vault opens,   *)
(* for every set of devices; which record a lookup tells, for every zone.  *)
(***************************************************************************)
EXTENDS Parts, WanAddressProofs, FiniteSetTheorems, WellFoundedInduction, TLAPS

(***************************************************************************)
(* The identity and the vault                                              *)
(***************************************************************************)

\* A set of indices has a first one.
LEMMA FirstOne ==
  ASSUME NEW S \in SUBSET Nat, S # {}
  PROVE  \E j \in S : \A k \in S : j <= k
<1>1. IsWellFoundedOn(OpToRel(<, Nat), Nat)
  BY NatLessThanWellFounded
<1>2. PICK j \in S : \A k \in S : <<k, j>> \notin OpToRel(<, Nat)
  BY <1>1, WFMin, Zenon
<1>3. \A k \in S : ~(k < j)
  BY <1>2 DEF OpToRel
<1>4. QED
  BY <1>3

\* What a process sees, one thing after the other.
LEMMA ViewTypes ==
  ASSUME NEW v \in Views
  PROVE  /\ v.ubnthal \in Seq([key : STRING, value : STRING])
         /\ v.docker \in Seq(STRING)
         /\ v.probes \in STRING \X STRING
         /\ v.isUdm \in BOOLEAN /\ v.dockerenv \in BOOLEAN
         /\ v.os \in {"linux", "darwin", "windows"}
         /\ v # NoVault
<1>1. v \in View
  BY ViewsAssumption, Zenon DEF ViewsAssumption
<1>2. "os" \in DOMAIN v
  BY ONLY <1>1 DEF View
<1>3. DOMAIN NoVault = {"device"}
  BY DEF NoVault
<1>4. v # NoVault
  <2>1. "os" # "device"
    OBVIOUS
  <2>2. QED
    BY <1>2, <1>3, <2>1
<1>5. QED
  BY ONLY <1>1, <1>4 DEF View

\* The serial number is the value of one of the lines that may hold it.
LEMMA SerialIsALine ==
  ASSUME NEW v \in Views, SerialLines(v.ubnthal) # {}
  PROVE  \E j \in SerialLines(v.ubnthal) : SerialNumber(v.ubnthal) = v.ubnthal[j].value
<1> DEFINE S == SerialLines(v.ubnthal)
<1>1. S \in SUBSET Nat
  <2>1. v.ubnthal \in Seq([key : STRING, value : STRING])
    BY ViewTypes
  <2>2. DOMAIN v.ubnthal \subseteq Nat
    BY ONLY <2>1
  <2>3. QED
    BY <2>2 DEF SerialLines
<1> HIDE DEF S
<1>2. \E j \in S : \A k \in S : j <= k
  BY <1>1, FirstOne, Zenon DEF S
<1>3. (CHOOSE j \in S : \A k \in S : j <= k) \in S
  BY <1>2, Zenon
<1>4. QED
  BY <1>3, Zenon DEF S, SerialNumber

\* The identity a platform gives is a word of the device.
LEMMA PlatformIsAWord ==
  ASSUME NEW v \in Views, PlatformID(v) # ""
  PROVE  PlatformID(v) \in Words(v)
<1>1. Words(v) = (SerialWords(v) \cup ToSet(v.docker) \cup {v.eth0} \cup ToSet(v.probes)) \ {""}
  BY Zenon DEF Words
<1>2. CASE v.os = "linux" /\ v.isUdm /\ SerialLines(v.ubnthal) # {}
  <2>1. PlatformID(v) = SerialNumber(v.ubnthal)
    BY <1>2, Zenon DEF PlatformID, LinuxID
  <2>2. PICK j \in SerialLines(v.ubnthal) : PlatformID(v) = v.ubnthal[j].value
    BY <1>2, <2>1, SerialIsALine, Zenon
  <2>3. j \in DOMAIN v.ubnthal /\ v.ubnthal[j].key \in SerialKeys
    BY <2>2, Zenon DEF SerialLines
  <2>4. PlatformID(v) \in SerialWords(v)
    BY <2>2, <2>3, Zenon DEF SerialWords, ToSet
  <2>5. QED
    BY <1>1, <2>4, Zenon
<1>3. CASE v.os = "linux" /\ ~(v.isUdm /\ SerialLines(v.ubnthal) # {}) /\ v.docker # <<>>
  <2>1. PlatformID(v) = Head(v.docker)
    BY <1>3, Zenon DEF PlatformID, LinuxID
  <2>2. v.docker \in Seq(STRING)
    BY ViewTypes
  <2>3. 1 \in DOMAIN v.docker /\ Head(v.docker) = v.docker[1]
    BY ONLY <1>3, <2>2
  <2>4. PlatformID(v) \in ToSet(v.docker)
    BY <2>1, <2>3, Zenon DEF ToSet
  <2>5. QED
    BY <1>1, <2>4, Zenon
<1>4. CASE v.os = "linux" /\ ~(v.isUdm /\ SerialLines(v.ubnthal) # {}) /\ v.docker = <<>>
  <2>1. PlatformID(v) = v.eth0
    BY <1>4, Zenon DEF PlatformID, LinuxID
  <2>2. QED
    BY <1>1, <2>1, Zenon
<1>5. CASE v.os # "linux"
  <2>1. PlatformID(v) = v.probes[1] \/ PlatformID(v) = v.probes[2]
    BY <1>5, Zenon DEF PlatformID, ProbedID
  <2>2. v.probes \in STRING \X STRING
    BY ViewTypes
  <2>3. 1 \in DOMAIN v.probes /\ 2 \in DOMAIN v.probes
    BY ONLY <2>2
  <2>4. PlatformID(v) \in ToSet(v.probes)
    BY <2>1, <2>3, Zenon DEF ToSet
  <2>5. QED
    BY <1>1, <2>4, Zenon
<1>6. QED
  BY <1>2, <1>3, <1>4, <1>5, Zenon

\* Where the vaults lie, whose they are, and what the outcome of a command says.
Placed ==
  /\ \A d \in Dirs : Sealed(d) => DataDir(vault[d]) = d /\ DeviceID(vault[d]) # <<>>
  /\ outcome \in {"opened", "refused"} => DataDir(view) \in Dirs /\ Sealed(DataDir(view))
  /\ outcome = "opened" => DeviceID(vault[DataDir(view)]) = DeviceID(view)
  /\ outcome = "refused" => DeviceID(vault[DataDir(view)]) # DeviceID(view)
  /\ outcome = "absent" => ~Sealed(DataDir(view))
  /\ outcome = "error" => DataDir(view) = <<>> \/ DeviceID(view) = <<>>

\* A directory that is known is one of the directories.
LEMMA InDirs ==
  ASSUME NEW v \in Views, DataDir(v) # <<>>
  PROVE  DataDir(v) \in Dirs
BY Zenon DEF Dirs
\* Every step keeps the types.
LEMMA ViewTypeStep ==
  ASSUME ViewTypeOK, [ViewNext]_viewVars
  PROVE  ViewTypeOK'
<1> DEFINE Outcomes == {"none", "sealed", "opened", "refused", "absent", "error"}
<1>0. /\ view \in Views /\ vault \in [Dirs -> Views \cup {NoVault}]
      /\ outcome \in Outcomes
      /\ outcome \in {"opened", "refused"} => DataDir(view) \in Dirs
  BY Zenon DEF ViewTypeOK
<1>1. CASE SealVault
  <2>1. CASE DataDir(view) = <<>> \/ DeviceID(view) = <<>>
    <3>1. outcome' = "error" /\ vault' = vault /\ view' = view
      BY <1>1, <2>1, Zenon DEF SealVault
    <3>2. outcome' \in Outcomes /\ outcome' \notin {"opened", "refused"}
      BY <3>1
    <3>3. QED
      BY <1>0, <3>1, <3>2, Zenon DEF ViewTypeOK
  <2>2. CASE ~(DataDir(view) = <<>> \/ DeviceID(view) = <<>>)
    <3>1. outcome' = "sealed" /\ vault' = [vault EXCEPT ![DataDir(view)] = view] /\ view' = view
      BY <1>1, <2>2, Zenon DEF SealVault
    <3>2. outcome' \in Outcomes /\ outcome' \notin {"opened", "refused"}
      BY <3>1
    <3>3. vault' \in [Dirs -> Views \cup {NoVault}]
      BY <1>0, <3>1
    <3>4. QED
      BY <1>0, <3>1, <3>2, <3>3, Zenon DEF ViewTypeOK
  <2>3. QED
    BY <2>1, <2>2
<1>2. CASE OpenVault
  <2>1. view' = view /\ vault' = vault
    BY <1>2, Zenon DEF OpenVault
  <2>2. CASE DataDir(view) = <<>>
    <3>1. outcome' = "error"
      BY <1>2, <2>2, Zenon DEF OpenVault
    <3>2. outcome' \in Outcomes /\ outcome' \notin {"opened", "refused"}
      BY <3>1
    <3>3. QED
      BY <1>0, <2>1, <3>2, Zenon DEF ViewTypeOK
  <2>3. CASE DataDir(view) # <<>>
    <3>1. outcome' \in {"absent", "opened", "refused"}
      BY <1>2, <2>3, Zenon DEF OpenVault
    <3>2. outcome' \in Outcomes
      BY <3>1
    <3>3. DataDir(view) \in Dirs
      BY <1>0, <2>3, InDirs, Zenon
    <3>4. QED
      BY <1>0, <2>1, <3>2, <3>3, Zenon DEF ViewTypeOK
  <2>4. QED
    BY <2>2, <2>3
<1>3. ASSUME NEW v \in Views, Another(v)
      PROVE  ViewTypeOK'
  <2>1. view' = v /\ outcome' = "none" /\ vault' = vault
    BY <1>3, Zenon DEF Another
  <2>2. outcome' \in Outcomes /\ outcome' \notin {"opened", "refused"}
    BY <2>1
  <2>3. QED
    BY <1>0, <2>1, <2>2, Zenon DEF ViewTypeOK
<1>4. CASE UNCHANGED viewVars
  BY <1>0, <1>4, Zenon DEF viewVars, ViewTypeOK
<1>5. QED
  BY <1>1, <1>2, <1>3, <1>4, Zenon DEF ViewNext

\* Every command leaves the vaults where they belong.
LEMMA PlacedStep ==
  ASSUME ViewTypeOK, Placed, [ViewNext]_viewVars
  PROVE  Placed'
<1>0. view \in Views /\ vault \in [Dirs -> Views \cup {NoVault}]
  BY Zenon DEF ViewTypeOK
<1> DEFINE Vaults == \A d \in Dirs : Sealed(d) => DataDir(vault[d]) = d /\ DeviceID(vault[d]) # <<>>
<1>00. Vaults
  BY Zenon DEF Placed
<1>1. ASSUME vault' = vault
      PROVE  Vaults'
  BY <1>00, <1>1, Zenon DEF Sealed
<1>2. ASSUME Vaults', outcome' \in {"none", "sealed"}
      PROVE  Placed'
  BY <1>2 DEF Placed
<1>3. ASSUME Vaults', outcome' = "error", DataDir(view') = <<>> \/ DeviceID(view') = <<>>
      PROVE  Placed'
  BY <1>3 DEF Placed
<1>4. CASE SealVault
  <2>1. CASE DataDir(view) = <<>> \/ DeviceID(view) = <<>>
    <3>1. outcome' = "error" /\ vault' = vault /\ view' = view
      BY <1>4, <2>1, Zenon DEF SealVault
    <3>2. QED
      BY <1>1, <1>3, <2>1, <3>1, Zenon
  <2>2. CASE ~(DataDir(view) = <<>> \/ DeviceID(view) = <<>>)
    <3>1. outcome' = "sealed" /\ vault' = [vault EXCEPT ![DataDir(view)] = view] /\ view' = view
      BY <1>4, <2>2, Zenon DEF SealVault
    <3>2. \A d \in Dirs : vault'[d] = IF d = DataDir(view) THEN view ELSE vault[d]
      BY <1>0, <3>1
    <3>3. Vaults'
      <4> SUFFICES ASSUME NEW d \in Dirs, vault'[d] # NoVault
                   PROVE  DataDir(vault'[d]) = d /\ DeviceID(vault'[d]) # <<>>
        BY Zenon DEF Sealed
      <4>1. CASE d = DataDir(view)
        BY <2>2, <3>2, <4>1, Zenon
      <4>2. CASE d # DataDir(view)
        BY <1>00, <3>2, <4>2, Zenon DEF Sealed
      <4>3. QED
        BY <4>1, <4>2
    <3>4. outcome' \in {"none", "sealed"}
      BY <3>1, Zenon
    <3>5. QED
      BY <1>2, <3>3, <3>4
  <2>3. QED
    BY <2>1, <2>2
<1>5. CASE OpenVault
  <2> DEFINE d == DataDir(view)
  <2>1. view' = view /\ vault' = vault
    BY <1>5, Zenon DEF OpenVault
  <2>2. CASE d = <<>>
    <3>1. outcome' = "error"
      BY <1>5, <2>2, Zenon DEF OpenVault
    <3>2. QED
      BY <1>1, <1>3, <2>1, <2>2, <3>1, Zenon
  <2>3. CASE d # <<>> /\ ~Sealed(d)
    <3>1. outcome' = "absent" /\ ~Sealed(d)'
      BY <1>5, <2>1, <2>3, Zenon DEF OpenVault, Sealed
    <3>2. /\ outcome' \notin {"opened", "refused"} /\ outcome' # "opened" /\ outcome' # "refused"
          /\ outcome' # "error"
      BY <3>1
    <3>3. QED
      BY <1>1, <2>1, <3>1, <3>2, Zenon DEF Placed
  <2>4. CASE d # <<>> /\ Sealed(d) /\ DeviceID(vault[d]) = DeviceID(view)
    <3>1. outcome' = "opened" /\ Sealed(d)'
      BY <1>5, <2>1, <2>4, Zenon DEF OpenVault, Sealed
    <3>2. outcome' # "refused" /\ outcome' # "absent" /\ outcome' # "error"
      BY <3>1
    <3>3. d \in Dirs
      BY <1>0, <2>4, InDirs, Zenon
    <3>4. QED
      BY <1>1, <2>1, <2>4, <3>1, <3>2, <3>3, Zenon DEF Placed
  <2>5. CASE d # <<>> /\ Sealed(d) /\ DeviceID(vault[d]) # DeviceID(view)
    <3>1. outcome' = "refused" /\ Sealed(d)'
      BY <1>5, <2>1, <2>5, Zenon DEF OpenVault, Sealed
    <3>2. outcome' # "opened" /\ outcome' # "absent" /\ outcome' # "error"
      BY <3>1
    <3>3. d \in Dirs
      BY <1>0, <2>5, InDirs, Zenon
    <3>4. QED
      BY <1>1, <2>1, <2>5, <3>1, <3>2, <3>3, Zenon DEF Placed
  <2>6. QED
    BY <2>2, <2>3, <2>4, <2>5, Zenon
<1>6. ASSUME NEW v \in Views, Another(v)
      PROVE  Placed'
  BY <1>1, <1>2, <1>6, Zenon DEF Another
<1>7. CASE UNCHANGED viewVars
  BY <1>7, Zenon DEF viewVars, Placed, Sealed
<1>8. QED
  BY <1>4, <1>5, <1>6, <1>7, Zenon DEF ViewNext

\* What a command sees, the vaults and the outcome keep their types, and the
\* vaults their places, for any set of devices and processes.
LEMMA VaultsInPlace ==
  /\ ViewInit => ViewTypeOK /\ Placed
  /\ ViewTypeOK /\ Placed /\ [ViewNext]_viewVars => (ViewTypeOK /\ Placed)'
<1>1. ASSUME ViewInit
      PROVE  ViewTypeOK /\ Placed
  <2>1. view \in Views /\ vault = [d \in Dirs |-> NoVault] /\ outcome = "none"
    BY <1>1, Zenon DEF ViewInit
  <2>2. /\ outcome \in {"none", "sealed", "opened", "refused", "absent", "error"}
        /\ outcome \notin {"opened", "refused"}
        /\ outcome # "opened" /\ outcome # "refused" /\ outcome # "absent" /\ outcome # "error"
    BY <2>1
  <2>3. vault \in [Dirs -> Views \cup {NoVault}] /\ \A d \in Dirs : vault[d] = NoVault
    BY <2>1
  <2>4. QED
    BY <2>1, <2>2, <2>3, Zenon DEF ViewTypeOK, Placed, Sealed
<1>2. QED
  BY <1>1, ViewTypeStep, PlacedStep

\* The types of the commands.
THEOREM ViewTypeCorrect == ViewSpec => []ViewTypeOK
BY VaultsInPlace, PTL DEF ViewSpec

\* A vault that does not open is another device's, or a source of the identity
\* answered differently, or none is left but hostname and user, whatever the
\* processes see (device_crypto.go:39-67).
THEOREM HardwareOpens == ViewSpec => []HardwareSuffices
<1>1. Placed => HardwareSuffices
  <2> DEFINE s == vault[DataDir(view)]
  <2> SUFFICES ASSUME Placed, outcome = "refused", Hardware(s) = Hardware(view)
               PROVE  PlatformID(view) = "" /\ FallbackID(s) # FallbackID(view)
    BY Zenon DEF HardwareSuffices
  <2>1. DeviceID(s) # DeviceID(view)
    BY Zenon DEF Placed
  <2>2. /\ s.os = view.os /\ s.isUdm = view.isUdm /\ s.ubnthal = view.ubnthal
        /\ s.docker = view.docker /\ s.eth0 = view.eth0 /\ s.probes = view.probes
    BY DEF Hardware
  <2> HIDE DEF s
  <2>3. PlatformID(s) = PlatformID(view)
    BY <2>2, Zenon DEF PlatformID, LinuxID, ProbedID
  <2>4. PlatformID(view) = ""
    BY <2>1, <2>3, Zenon DEF DeviceID
  <2>5. FallbackID(s) # FallbackID(view)
    BY <2>1, <2>3, <2>4, Zenon DEF DeviceID
  <2>6. QED
    BY <2>4, <2>5, Zenon
<1>2. QED
  BY <1>1, VaultsInPlace, PTL DEF ViewSpec

\* A stranger's device does not have the words of another's identity.
LEMMA Strangers ==
  ASSUME NEW v \in Views, NEW w \in Views, v.device # w.device,
         DeviceID(v) = DeviceID(w), PlatformID(v) # ""
  PROVE  FALSE
<1>1. PlatformID(v) \in Words(v)
  BY PlatformIsAWord, Zenon
<1>2. DeviceID(v) = <<PlatformID(v)>>
  BY Zenon DEF DeviceID
<1>3. Words(v) \cap Words(w) = {} /\ \A x \in Words(v) : <<x>> # FallbackID(w)
  BY UniqueAssumption, Zenon DEF UniqueAssumption
<1>4. CASE PlatformID(w) # ""
  <2>1. DeviceID(w) = <<PlatformID(w)>>
    BY <1>4, Zenon DEF DeviceID
  <2>2. PlatformID(v) = PlatformID(w)
    BY ONLY <1>2, <2>1, DeviceID(v) = DeviceID(w)
  <2>3. PlatformID(w) \in Words(w)
    BY <1>4, PlatformIsAWord, Zenon
  <2>4. QED
    BY <1>1, <1>3, <2>2, <2>3, Zenon
<1>5. CASE PlatformID(w) = ""
  BY <1>1, <1>2, <1>3, <1>5, Zenon DEF DeviceID
<1>6. QED
  BY <1>4, <1>5

\* Another device's vault opens only where neither has an identity but hostname
\* and user, for any devices whose identities are their own
\* (docs/configuration.md:196, device_crypto.go:39-67).
THEOREM StrangersStayOut == ViewSpec => []NoStranger
<1>1. ViewTypeOK /\ Placed => NoStranger
  <2> DEFINE s == vault[DataDir(view)]
  <2> SUFFICES ASSUME ViewTypeOK, Placed, outcome = "opened", s.device # view.device
               PROVE  PlatformID(s) = "" /\ PlatformID(view) = ""
    BY Zenon DEF NoStranger
  <2>1. DataDir(view) \in Dirs /\ Sealed(DataDir(view)) /\ DeviceID(s) = DeviceID(view)
    BY Zenon DEF Placed
  <2>2. view \in Views /\ s \in Views
    BY <2>1, Zenon DEF ViewTypeOK, Sealed
  <2> HIDE DEF s
  <2>3. PlatformID(s) = ""
    BY <2>1, <2>2, Strangers, Zenon
  <2>4. PlatformID(view) = ""
    BY <2>1, <2>2, Strangers, Zenon
  <2>5. QED
    BY <2>3, <2>4, Zenon
<1>2. QED
  BY <1>1, VaultsInPlace, PTL DEF ViewSpec

\* A UniFi device with a serial number finds and opens its own vault from every
\* process, whatever HOME, USER and the other sources say (profile.go:80-83,
\* device_crypto.go:71-82).
THEOREM UdmOpens == ViewSpec => []UdmAlwaysOpens
<1>1. ViewTypeOK /\ Placed => UdmAlwaysOpens
  <2> SUFFICES ASSUME ViewTypeOK, Placed, NEW d \in Dirs, Sealed(d),
                      vault[d].device = view.device, vault[d].isUdm, view.isUdm,
                      SerialLines(vault[d].ubnthal) # {}, SerialNumber(vault[d].ubnthal) # ""
               PROVE  outcome \notin {"refused", "absent", "error"}
    BY Zenon DEF UdmAlwaysOpens
  <2> DEFINE s == vault[d]
  <2>1. view \in Views /\ s \in Views
    BY Zenon DEF ViewTypeOK, Sealed
  <2>2. DataDir(s) = d /\ DeviceID(s) # <<>>
    BY Zenon DEF Placed
  <2> HIDE DEF s
  <2>3. s.os = "linux" /\ view.os = "linux" /\ view.ubnthal = s.ubnthal
    BY <2>1, UdmAssumption, Zenon DEF UdmAssumption, s
  <2>4. DataDir(view) = d
    <3>1. \A v : v.isUdm => Detect(v) = "udm"
      BY DEF Detect
    <3>2. \A v : v.isUdm => DataDir(v) = <<"/data/.dddns">>
      BY <3>1 DEF DataDir
    <3>3. QED
      BY <2>2, <3>2, Zenon DEF s
  <2>5. PlatformID(view) = PlatformID(s) /\ PlatformID(s) # ""
    BY <2>3, Zenon DEF PlatformID, LinuxID, s
  <2>6. DeviceID(view) = DeviceID(s)
    BY <2>5, Zenon DEF DeviceID
  <2>7. d # <<>>
    BY Zenon DEF Dirs
  <2>8. outcome # "refused" /\ outcome # "absent" /\ outcome # "error"
    BY <2>2, <2>4, <2>6, <2>7, Zenon DEF Placed, s
  <2>9. QED
    BY <2>8
<1>2. QED
  BY <1>1, VaultsInPlace, PTL DEF ViewSpec

(***************************************************************************)
(* The record                                                              *)
(***************************************************************************)

\* A name without bytes to escape is signed as Route53 derives it, and a session
\* token with it.
LEMMA PlainVerifies ==
  ASSUME NEW n \in DOMAIN Names, NEW token, "other" \notin ToSet(Names[n])
  PROVE  Verifies(Names[n], token)
<1> DEFINE name == Names[n]
<1>1. \A i \in DOMAIN name : name[i] = "plain"
  <2>1. Names[n] \in Seq({"plain", "other"})
    BY NamesAssumption DEF NamesAssumption
  <2>2. \A i \in DOMAIN name : name[i] = "plain" \/ name[i] = "other"
    BY <2>1
  <2>3. \A i \in DOMAIN name : name[i] \in ToSet(name)
    BY Zenon DEF ToSet
  <2>4. QED
    BY <2>2, <2>3
<1> HIDE DEF name
<1>2. URIEncode(Text(name)) = Text(name)
  BY <1>1 DEF URIEncode, Text
<1>3. CanonicalQuery(RawQuery(name)) = URIEncode(Text(name))
  BY <1>2, Zenon DEF CanonicalQuery, RawQuery
<1>4. token # "" => "x-amz-security-token" \in SignedHeaders(token)
  BY Zenon DEF SignedHeaders
<1>5. QED
  BY <1>3, <1>4, Zenon DEF Verifies, name

\* A record set that is there, with values, gives an address.
LEMMA RecordValues ==
  ASSUME NEW r \in RecordSets, r # Absent, r.values # <<>>
  PROVE  r.values[1] \in Values
<1>1. r \in [values : {<<>>} \cup {<<v>> : v \in Values} \cup {<<v, w>> : v, w \in Values}]
  BY DEF RecordSets
<1>2. r.values \in {<<v>> : v \in Values} \/ r.values \in {<<v, w>> : v, w \in Values}
  BY <1>1
<1>3. CASE r.values \in {<<v>> : v \in Values}
  BY ONLY <1>3
<1>4. CASE r.values \in {<<v, w>> : v, w \in Values}
  BY ONLY <1>4
<1>5. QED
  BY <1>2, <1>3, <1>4

\* A call of GetCurrentIP keeps the types and tells the record.
LEMMA CallReads ==
  ASSUME ZoneTypeOK, NEW n \in DOMAIN Names, NEW token, GetCurrentIP(n, token)
  PROVE  ZoneTypeOK' /\ ReadsRecord'
<1> DEFINE k == <<n, 1>>
<1>1. zone \in [Keys -> RecordSets] /\ asked' = n /\ zone' = zone
  BY Zenon DEF ZoneTypeOK, GetCurrentIP
<1>2. k \in Keys /\ zone[k] \in RecordSets
  <2>1. 1 \in DOMAIN Types
    BY DEF Types
  <2>2. k \in Keys
    BY <2>1 DEF Keys
  <2>3. QED
    BY <1>1, <2>2
<1>3. "notfound" \notin Values /\ "denied" \notin Values /\ "none" \notin Values
  BY ValuesAssumption, Zenon DEF ValuesAssumption
<1>4. CASE ~Verifies(Names[n], token)
  <2>1. answer' = "denied"
    BY <1>4, Zenon DEF GetCurrentIP
  <2>2. answer' # "notfound" /\ answer' \notin Values
    BY <1>3, <2>1
  <2>3. "other" \in ToSet(Names[n])
    BY <1>4, PlainVerifies, Zenon
  <2>4. QED
    BY <1>1, <2>1, <2>2, <2>3, Zenon DEF ZoneTypeOK, ReadsRecord
<1>5. CASE Verifies(Names[n], token) /\ Matches(n) = {}
  <2>1. answer' = "notfound"
    BY <1>5, Zenon DEF GetCurrentIP
  <2>2. answer' # "denied" /\ answer' \notin Values
    BY <1>3, <2>1
  <2>3. zone[k] = Absent \/ zone[k].values = <<>>
    <3> SUFFICES ASSUME zone[k] # Absent, zone[k].values # <<>>
                 PROVE  FALSE
      OBVIOUS
    <3>1. ~Before(k, k)
      <4>1. \A m \in Nat : ~(m < m)
        OBVIOUS
      <4>2. k[1] = n /\ k[2] = 1 /\ n \in Nat
        BY NamesAssumption DEF NamesAssumption
      <4>3. QED
        BY <4>1, <4>2 DEF Before
    <3> DEFINE From == {j \in Keys : zone[j] # Absent /\ ~Before(j, <<n, 1>>)}
    <3>2. k \in Listed(n)
      <4>1. k \in From /\ \A j \in From : ~Before(j, k)
        BY <1>2, <3>1, Zenon
      <4>2. Listed(n) = {i \in From : \A j \in From : ~Before(j, i)}
        BY Zenon DEF Listed
      <4>3. QED
        BY <4>1, <4>2, Zenon
    <3>3. QED
      BY <1>5, <3>2, Zenon DEF Matches
  <2>4. QED
    BY <1>1, <2>1, <2>2, <2>3, Zenon DEF ZoneTypeOK, ReadsRecord
<1>6. CASE Verifies(Names[n], token) /\ Matches(n) # {}
  <2>1. k \in Matches(n) /\ \A j \in Matches(n) : j = k
    BY <1>6, Zenon DEF Matches
  <2>2. (CHOOSE j \in Matches(n) : TRUE) = k
    BY <2>1, Zenon
  <2>3. answer' = zone[k].values[1]
    BY <1>6, <2>2, Zenon DEF GetCurrentIP
  <2>4. zone[k] # Absent /\ zone[k].values # <<>>
    BY <2>1, Zenon DEF Matches, Listed
  <2>5. answer' \in Values
    BY <1>2, <2>3, <2>4, RecordValues, Zenon
  <2>6. answer' # "notfound" /\ answer' # "denied"
    BY <1>3, <2>5
  <2>7. QED
    BY <1>1, <2>3, <2>4, <2>5, <2>6, Zenon DEF ZoneTypeOK, ReadsRecord
<1>7. QED
  BY <1>4, <1>5, <1>6

\* What a lookup returns is the record.
LEMMA LookupsRead ==
  /\ ZoneInit => ZoneTypeOK /\ ReadsRecord
  /\ ZoneTypeOK /\ ReadsRecord /\ [ZoneNext]_zoneVars => (ZoneTypeOK /\ ReadsRecord)'
<1>1. ASSUME ZoneInit
      PROVE  ZoneTypeOK /\ ReadsRecord
  <2>1. zone \in [Keys -> RecordSets] /\ asked = 1 /\ answer = "none"
    BY <1>1, Zenon DEF ZoneInit
  <2>2. 1 \in DOMAIN Names
    BY NamesAssumption DEF NamesAssumption
  <2>3. answer \notin Values /\ answer # "notfound" /\ answer # "denied"
    BY <2>1, ValuesAssumption DEF ValuesAssumption
  <2>4. QED
    BY <2>1, <2>2, <2>3, Zenon DEF ZoneTypeOK, ReadsRecord
<1>2. ASSUME ZoneTypeOK, ReadsRecord, [ZoneNext]_zoneVars
      PROVE  (ZoneTypeOK /\ ReadsRecord)'
  <2>1. CASE ZoneNext
    BY <1>2, <2>1, CallReads, Zenon DEF ZoneNext
  <2>2. CASE UNCHANGED zoneVars
    BY <1>2, <2>2, Zenon DEF zoneVars, ZoneTypeOK, ReadsRecord
  <2>3. QED
    BY <1>2, <2>1, <2>2
<1>3. QED
  BY <1>1, <1>2

\* An address GetCurrentIP returns is the first value of the A record of exactly
\* that name, "not found" says there is none with values, and only a name with
\* bytes to escape is denied: any names, any zone, any token (route53.go:92-127,
\* sigv4.go:37-75).
THEOREM RecordIsRead == ZoneSpec => []ReadsRecord
BY LookupsRead, PTL DEF ZoneSpec

\* The types of the lookups.
THEOREM ZoneTypeCorrect == ZoneSpec => []ZoneTypeOK
BY LookupsRead, PTL DEF ZoneSpec

(***************************************************************************)
(* The audit log: the size of its files                                    *)
(***************************************************************************)
Entry == [by : Writers, at : Nat]

\* What the counting below needs of the types.
Shape ==
  /\ log \in Seq(Entry) /\ old \in Seq(Entry)
  /\ exists \in BOOLEAN
  /\ pc \in [Writers -> {"idle", "stat", "rename", "open", "write"}]
  /\ fd \in [Writers -> {"none", "log", "old", "gone"}]
  /\ stamp \in [Writers -> Nat]
  /\ clock \in Nat
  /\ fails \in Nat

\* Without a log nobody has it open.
NoLog == ~exists => log = <<>> /\ \A w \in Writers : fd[w] # "log"

\* The writers that will add a line to the log, or to .old, unless they fail.
ToLog == {w \in Writers : pc[w] = "open" \/ (pc[w] = "write" /\ fd[w] = "log")}
ToOld == {w \in Writers : pc[w] = "write" /\ fd[w] = "old"}

Limit == MaxSize - 1 + Cardinality(Writers) + fails

\* A file and the lines on their way to it.
Pending ==
  /\ Len(log) + Cardinality(ToLog) <= Limit
  /\ Len(old) + Cardinality(ToOld) <= Limit

\* Sets of writers are counted.
LEMMA Counting ==
  ASSUME IsFiniteSet(Writers)
  PROVE  /\ Cardinality(Writers) \in Nat
         /\ \A S \in SUBSET Writers : IsFiniteSet(S) /\ Cardinality(S) \in Nat
                                      /\ Cardinality(S) <= Cardinality(Writers)
         /\ \A S, T \in SUBSET Writers : S \subseteq T => Cardinality(S) <= Cardinality(T)
         /\ \A S \in SUBSET Writers, w \in Writers :
              /\ Cardinality(S \cup {w}) <= Cardinality(S) + 1
              /\ w \in S => Cardinality(S \ {w}) = Cardinality(S) - 1
<1>1. Cardinality(Writers) \in Nat
  BY FS_CardinalityType
<1>2. \A S \in SUBSET Writers : IsFiniteSet(S) /\ Cardinality(S) \in Nat
                                /\ Cardinality(S) <= Cardinality(Writers)
  BY FS_Subset, FS_CardinalityType
<1>3. \A S, T \in SUBSET Writers : S \subseteq T => Cardinality(S) <= Cardinality(T)
  BY <1>2, FS_Subset
<1>4. \A S \in SUBSET Writers, w \in Writers : Cardinality(S \cup {w}) <= Cardinality(S) + 1
  <2> SUFFICES ASSUME NEW S \in SUBSET Writers, NEW w \in Writers
               PROVE  Cardinality(S \cup {w}) <= Cardinality(S) + 1
    OBVIOUS
  <2>1. IsFiniteSet(S) /\ Cardinality(S) \in Nat
    BY <1>2
  <2>2. Cardinality(S \cup {w}) = IF w \in S THEN Cardinality(S) ELSE Cardinality(S) + 1
    BY <2>1, FS_AddElement, Zenon
  <2>3. QED
    BY <2>1, <2>2
<1>5. \A S \in SUBSET Writers, w \in Writers : w \in S => Cardinality(S \ {w}) = Cardinality(S) - 1
  <2> SUFFICES ASSUME NEW S \in SUBSET Writers, NEW w \in Writers, w \in S
               PROVE  Cardinality(S \ {w}) = Cardinality(S) - 1
    OBVIOUS
  <2>1. IsFiniteSet(S)
    BY <1>2
  <2>2. QED
    BY <2>1, FS_RemoveElement
<1>6. QED
  BY <1>1, <1>2, <1>3, <1>4, <1>5

\* A step moves one writer.
LEMMA OneMoves ==
  ASSUME Shape, NEW w \in Writers, NEW from, NEW to, Step(w, from, to)
  PROVE  /\ pc[w] = from
         /\ \A v \in Writers : pc'[v] = IF v = w THEN to ELSE pc[v]
         /\ to \in {"idle", "stat", "rename", "open", "write"} =>
              pc' \in [Writers -> {"idle", "stat", "rename", "open", "write"}]
BY DEF Shape, Step

\* Every step keeps the types.
LEMMA ShapeStep ==
  ASSUME Shape, [LogNext]_logVars
  PROVE  Shape'
<1>1. CASE UNCHANGED logVars
  BY <1>1 DEF logVars, Shape
<1>2. ASSUME NEW w \in Writers, Write(w)
      PROVE  Shape'
  <2>0. /\ log \in Seq(Entry) /\ old \in Seq(Entry) /\ exists \in BOOLEAN
        /\ fd \in [Writers -> {"none", "log", "old", "gone"}]
        /\ stamp \in [Writers -> Nat] /\ clock \in Nat /\ fails \in Nat
    BY DEF Shape
  <2>1. CASE Begin(w)
    <3>1. pc' \in [Writers -> {"idle", "stat", "rename", "open", "write"}]
      BY <2>1, OneMoves DEF Begin
    <3>2. clock' \in Nat /\ stamp' \in [Writers -> Nat]
      BY <2>0, <2>1 DEF Begin
    <3>3. QED
      BY <2>0, <2>1, <3>1, <3>2 DEF Begin, Shape
  <2>2. CASE Stat(w)
    <3>1. pc' \in [Writers -> {"idle", "stat", "rename", "open", "write"}]
      BY <2>2 DEF Stat, Step, Shape
    <3>2. QED
      BY <2>0, <2>2, <3>1 DEF Stat, Shape
  <2>3. CASE Rotate(w)
    <3>1. pc' \in [Writers -> {"idle", "stat", "rename", "open", "write"}]
      BY <2>3, OneMoves DEF Rotate
    <3>2. CASE exists
      <4>1. fd' \in [Writers -> {"none", "log", "old", "gone"}]
        <5>1. \A v \in Writers : fd[v] \in {"none", "log", "old", "gone"}
          BY <2>0
        <5>2. \A v \in Writers :
                (CASE fd[v] = "log" -> "old" [] fd[v] = "old" -> "gone" [] OTHER -> fd[v])
                  \in {"none", "log", "old", "gone"}
          BY <5>1
        <5>3. QED
          BY <2>3, <3>2, <5>2 DEF Rotate
      <4>2. log' = <<>> /\ old' = log /\ exists' = FALSE /\ UNCHANGED <<stamp, clock, fails>>
        BY <2>3, <3>2 DEF Rotate
      <4>3. log' \in Seq(Entry)
        BY <4>2
      <4>4. QED
        BY <2>0, <3>1, <4>1, <4>2, <4>3 DEF Shape
    <3>3. CASE ~exists
      BY <2>0, <2>3, <3>1, <3>3 DEF Rotate, Shape
    <3>4. QED
      BY <3>2, <3>3
  <2>4. CASE Open(w)
    <3>1. pc' \in [Writers -> {"idle", "stat", "rename", "open", "write"}]
      BY <2>4, OneMoves DEF Open
    <3>2. fd' \in [Writers -> {"none", "log", "old", "gone"}]
      BY <2>0, <2>4 DEF Open
    <3>3. QED
      BY <2>0, <2>4, <3>1, <3>2 DEF Open, Shape
  <2>5. CASE AppendLine(w)
    <3>1. pc' \in [Writers -> {"idle", "stat", "rename", "open", "write"}]
      BY <2>5, OneMoves DEF AppendLine
    <3>2. fd' \in [Writers -> {"none", "log", "old", "gone"}]
      BY <2>0, <2>5 DEF AppendLine
    <3> DEFINE line == [by |-> w, at |-> stamp[w]]
    <3>3. line \in Entry
      BY <2>0 DEF Entry
    <3>4. /\ log' = IF fd[w] = "log" THEN Append(log, line) ELSE log
          /\ old' = IF fd[w] = "old" THEN Append(old, line) ELSE old
          /\ UNCHANGED <<exists, stamp, clock, fails>>
      BY <2>5 DEF AppendLine
    <3> HIDE DEF line
    <3>5. log' \in Seq(Entry) /\ old' \in Seq(Entry)
      BY <2>0, <3>3, <3>4
    <3>6. QED
      BY <2>0, <3>1, <3>2, <3>4, <3>5 DEF Shape
  <2>6. CASE RotateFails(w)
    <3>1. pc' \in [Writers -> {"idle", "stat", "rename", "open", "write"}]
      BY <2>6, OneMoves DEF RotateFails
    <3>2. QED
      BY <2>0, <2>6, <3>1 DEF RotateFails, Fails, Shape
  <2>7. CASE OpenFails(w)
    <3>1. pc' \in [Writers -> {"idle", "stat", "rename", "open", "write"}]
      BY <2>7, OneMoves DEF OpenFails
    <3>2. QED
      BY <2>0, <2>7, <3>1 DEF OpenFails, Fails, Shape
  <2>8. CASE AppendFails(w)
    <3>1. pc' \in [Writers -> {"idle", "stat", "rename", "open", "write"}]
      BY <2>8, OneMoves DEF AppendFails
    <3>2. fd' \in [Writers -> {"none", "log", "old", "gone"}]
      BY <2>0, <2>8 DEF AppendFails
    <3>3. QED
      BY <2>0, <2>8, <3>1, <3>2 DEF AppendFails, Fails, Shape
  <2>9. CASE Killed(w)
    <3>1. /\ pc' \in [Writers -> {"idle", "stat", "rename", "open", "write"}]
          /\ fd' \in [Writers -> {"none", "log", "old", "gone"}]
      BY <2>0, <2>9 DEF Killed, Shape
    <3>2. QED
      BY <2>0, <2>9, <3>1 DEF Killed, Fails, Shape
  <2>10. QED
    BY <1>2, <2>1, <2>2, <2>3, <2>4, <2>5, <2>6, <2>7, <2>8, <2>9 DEF Write
<1>3. QED
  BY <1>1, <1>2 DEF LogNext

\* A rotation takes the log from those who have it open, an append from nobody.
LEMMA NoLogStep ==
  ASSUME Shape, NoLog, [LogNext]_logVars
  PROVE  NoLog'
<1>1. CASE UNCHANGED logVars
  BY <1>1 DEF logVars, NoLog
<1>2. ASSUME NEW w \in Writers, Write(w)
      PROVE  NoLog'
  <2>0. fd \in [Writers -> {"none", "log", "old", "gone"}]
    BY DEF Shape
  <2>1. CASE Begin(w) \/ Stat(w) \/ RotateFails(w) \/ OpenFails(w)
    BY <2>1 DEF Begin, Stat, RotateFails, OpenFails, NoLog
  <2>2. CASE Rotate(w)
    <3>1. CASE exists
      <4>1. \A v \in Writers :
              (CASE fd[v] = "log" -> "old" [] fd[v] = "old" -> "gone" [] OTHER -> fd[v]) # "log"
        <5> SUFFICES ASSUME NEW v \in Writers
                     PROVE  (CASE fd[v] = "log" -> "old" [] fd[v] = "old" -> "gone" [] OTHER -> fd[v]) # "log"
          OBVIOUS
        <5>1. CASE fd[v] = "log"
          BY <5>1
        <5>2. CASE fd[v] = "old"
          BY <5>2
        <5>3. CASE fd[v] # "log" /\ fd[v] # "old"
          BY <5>3
        <5>4. QED
          BY <5>1, <5>2, <5>3
      <4>2. QED
        BY <2>2, <3>1, <4>1 DEF Rotate, NoLog
    <3>2. CASE ~exists
      BY <2>2, <3>2 DEF Rotate, NoLog
    <3>3. QED
      BY <3>1, <3>2
  <2>3. CASE Open(w)
    BY <2>3 DEF Open, NoLog
  <2>4. CASE AppendLine(w)
    <3> SUFFICES ASSUME ~exists
                 PROVE  log' = <<>> /\ \A v \in Writers : fd'[v] # "log"
      BY <2>4 DEF AppendLine, NoLog
    <3>1. log = <<>> /\ \A v \in Writers : fd[v] # "log"
      BY DEF NoLog
    <3>2. QED
      BY <2>0, <2>4, <3>1 DEF AppendLine
  <2>5. CASE AppendFails(w)
    BY <2>0, <2>5 DEF AppendFails, NoLog
  <2>6. CASE Killed(w)
    BY <2>0, <2>6 DEF Killed, NoLog
  <2>7. QED
    BY <1>2, <2>1, <2>2, <2>3, <2>4, <2>5, <2>6 DEF Write
<1>3. QED
  BY <1>1, <1>2 DEF LogNext

\* Every step keeps the files and what is pending within the limit.
LEMMA PendingStep ==
  ASSUME MaxSize \in Nat \ {0}, IsFiniteSet(Writers), Shape, NoLog, Pending, [LogNext]_logVars
  PROVE  Pending'
<1>0. /\ Len(log) \in Nat /\ Len(old) \in Nat /\ fails \in Nat
      /\ ToLog \in SUBSET Writers /\ ToOld \in SUBSET Writers
      /\ ToLog' \in SUBSET Writers /\ ToOld' \in SUBSET Writers
      /\ Cardinality(Writers) \in Nat
      /\ Cardinality(ToLog) \in Nat /\ Cardinality(ToOld) \in Nat
      /\ Cardinality(ToLog') \in Nat /\ Cardinality(ToOld') \in Nat
      /\ Cardinality(ToLog') <= Cardinality(Writers) /\ Cardinality(ToOld') <= Cardinality(Writers)
  <2>1. Len(log) \in Nat /\ Len(old) \in Nat /\ fails \in Nat
    BY DEF Shape
  <2>2. /\ ToLog \in SUBSET Writers /\ ToOld \in SUBSET Writers
        /\ ToLog' \in SUBSET Writers /\ ToOld' \in SUBSET Writers
    BY DEF ToLog, ToOld
  <2>3. QED
    BY <2>1, <2>2, Counting
<1>00. /\ Len(log) + Cardinality(ToLog) <= MaxSize - 1 + Cardinality(Writers) + fails
       /\ Len(old) + Cardinality(ToOld) <= MaxSize - 1 + Cardinality(Writers) + fails
  BY DEF Pending, Limit
<1>01. fd \in [Writers -> {"none", "log", "old", "gone"}]
  BY DEF Shape
<1>1. ASSUME Len(log') = Len(log), ToLog' \subseteq ToLog, fails' \in {fails, fails + 1}
      PROVE  Len(log') + Cardinality(ToLog') <= Limit'
  <2>1. Cardinality(ToLog') <= Cardinality(ToLog)
    BY <1>0, <1>1, Counting
  <2>2. QED
    BY <1>0, <1>00, <1>1, <2>1 DEF Limit
<1>2. ASSUME Len(old') = Len(old), ToOld' \subseteq ToOld, fails' \in {fails, fails + 1}
      PROVE  Len(old') + Cardinality(ToOld') <= Limit'
  <2>1. Cardinality(ToOld') <= Cardinality(ToOld)
    BY <1>0, <1>2, Counting
  <2>2. QED
    BY <1>0, <1>00, <1>2, <2>1 DEF Limit
<1>3. ASSUME Len(log') < MaxSize, Len(log') \in Nat, fails' = fails
      PROVE  Len(log') + Cardinality(ToLog') <= Limit'
  BY <1>0, <1>3 DEF Limit
<1>4. CASE UNCHANGED logVars
  BY <1>1, <1>2, <1>4 DEF logVars, Pending, ToLog, ToOld
<1>5. ASSUME NEW w \in Writers, Write(w)
      PROVE  Pending'
  <2>1. ASSUME NEW from \in {"idle", "stat", "rename", "open", "write"}, NEW to \in {"idle", "stat", "rename"},
               Step(w, from, to), \A v \in Writers : v # w => fd'[v] = fd[v]
        PROVE  ToLog' \subseteq ToLog /\ ToOld' \subseteq ToOld
    BY <2>1, OneMoves DEF ToLog, ToOld
  <2>2. CASE Begin(w)
    BY <1>1, <1>2, <2>1, <2>2 DEF Begin, Pending
  <2>3. CASE Stat(w)
    <3>1. CASE exists /\ Len(log) >= MaxSize
      BY <1>1, <1>2, <2>1, <2>3, <3>1 DEF Stat, Pending
    <3>2. CASE ~(exists /\ Len(log) >= MaxSize)
      <4>1. Step(w, "stat", "open") /\ UNCHANGED <<log, old, fd, fails>>
        BY <2>3, <3>2 DEF Stat
      <4>2. Len(log) < MaxSize
        <5>1. ~exists => Len(log) = 0
          BY DEF NoLog
        <5>2. QED
          BY <1>0, <3>2, <5>1
      <4>3. ToOld' \subseteq ToOld
        BY <4>1, OneMoves DEF ToOld
      <4>4. QED
        BY <1>0, <1>2, <1>3, <4>1, <4>2, <4>3 DEF Pending
    <3>3. QED
      BY <3>1, <3>2
  <2>4. CASE Rotate(w)
    <3>1. CASE exists
      <4>1. /\ Step(w, "rename", "open") /\ log' = <<>> /\ old' = log /\ fails' = fails
            /\ fd' = [v \in Writers |-> CASE fd[v] = "log" -> "old" [] fd[v] = "old" -> "gone"
                                          [] OTHER -> fd[v]]
        BY <2>4, <3>1 DEF Rotate
      <4>2. \A v \in Writers : fd'[v] = "old" => fd[v] = "log"
        <5> SUFFICES ASSUME NEW v \in Writers, fd[v] # "log"
                     PROVE  fd'[v] # "old"
          OBVIOUS
        <5>1. CASE fd[v] = "old"
          BY <4>1, <5>1
        <5>2. CASE fd[v] # "old"
          BY <4>1, <5>2
        <5>3. QED
          BY <5>1, <5>2
      <4>3. ToOld' \subseteq ToLog
        BY <4>1, <4>2, OneMoves DEF ToOld, ToLog
      <4>4. Cardinality(ToOld') <= Cardinality(ToLog)
        BY <1>0, <4>3, Counting
      <4>5. Len(old') + Cardinality(ToOld') <= Limit'
        BY <1>0, <1>00, <4>1, <4>4 DEF Limit
      <4>6. Len(log') = 0
        BY <4>1
      <4>7. QED
        BY <1>3, <4>1, <4>5, <4>6 DEF Pending
    <3>2. CASE ~exists
      <4>1. Step(w, "rename", "open") /\ UNCHANGED <<log, old, fd, fails>>
        BY <2>4, <3>2 DEF Rotate
      <4>2. Len(log) = 0
        BY <3>2 DEF NoLog
      <4>3. ToOld' \subseteq ToOld
        BY <4>1, OneMoves DEF ToOld
      <4>4. QED
        BY <1>2, <1>3, <4>1, <4>2, <4>3 DEF Pending
    <3>3. QED
      BY <3>1, <3>2
  <2>5. CASE RotateFails(w)
    <3>1. Step(w, "rename", "open") /\ UNCHANGED <<log, old, fd>> /\ fails' = fails + 1
      BY <2>5 DEF RotateFails, Fails
    <3>2. ToLog' \subseteq ToLog \cup {w} /\ ToOld' \subseteq ToOld
      BY <3>1, OneMoves DEF ToOld, ToLog
    <3>3. Cardinality(ToLog') <= Cardinality(ToLog) + 1
      <4>1. ToLog \cup {w} \in SUBSET Writers
        BY <1>0
      <4>2. Cardinality(ToLog \cup {w}) \in Nat /\ Cardinality(ToLog') <= Cardinality(ToLog \cup {w})
        BY <1>0, <3>2, <4>1, Counting
      <4>3. Cardinality(ToLog \cup {w}) <= Cardinality(ToLog) + 1
        BY <1>0, Counting
      <4>4. QED
        BY <1>0, <4>2, <4>3
    <3>4. Len(log') + Cardinality(ToLog') <= Limit'
      BY <1>0, <1>00, <3>1, <3>3 DEF Limit
    <3>5. QED
      BY <1>2, <3>1, <3>2, <3>4 DEF Pending
  <2>6. CASE Open(w)
    <3>1. /\ Step(w, "open", "write") /\ UNCHANGED <<log, old, fails>>
          /\ fd' = [fd EXCEPT ![w] = "log"]
      BY <2>6 DEF Open
    <3>2. ToLog' \subseteq ToLog /\ ToOld' \subseteq ToOld
      BY <1>01, <3>1, OneMoves DEF ToOld, ToLog
    <3>3. QED
      BY <1>1, <1>2, <3>1, <3>2 DEF Pending
  <2>7. CASE AppendLine(w)
    <3> DEFINE line == [by |-> w, at |-> stamp[w]]
    <3>1. /\ Step(w, "write", "idle") /\ fails' = fails
          /\ log' = IF fd[w] = "log" THEN Append(log, line) ELSE log
          /\ old' = IF fd[w] = "old" THEN Append(old, line) ELSE old
          /\ fd' = [fd EXCEPT ![w] = "none"]
      BY <2>7 DEF AppendLine
    <3>2. line \in Entry /\ log \in Seq(Entry) /\ old \in Seq(Entry)
      BY DEF Entry, Shape
    <3> HIDE DEF line
    <3>3. ToLog' \subseteq ToLog \ {w} /\ ToOld' \subseteq ToOld \ {w}
      BY <1>01, <3>1, OneMoves DEF ToOld, ToLog
    <3>4. pc[w] = "write"
      BY <3>1, OneMoves
    <3>5. Len(log') + Cardinality(ToLog') <= Limit'
      <4>1. CASE fd[w] = "log"
        <5>1. w \in ToLog /\ Len(log') = Len(log) + 1
          BY <3>1, <3>2, <3>4, <4>1 DEF ToLog
        <5>2. Cardinality(ToLog') <= Cardinality(ToLog \ {w})
          BY <1>0, <3>3, Counting
        <5>3. Cardinality(ToLog \ {w}) = Cardinality(ToLog) - 1
          BY <1>0, <5>1, Counting
        <5>4. QED
          BY <1>0, <1>00, <3>1, <5>1, <5>2, <5>3 DEF Limit
      <4>2. CASE fd[w] # "log"
        BY <1>1, <3>1, <3>3, <4>2
      <4>3. QED
        BY <4>1, <4>2
    <3>6. Len(old') + Cardinality(ToOld') <= Limit'
      <4>1. CASE fd[w] = "old"
        <5>1. w \in ToOld /\ Len(old') = Len(old) + 1
          BY <3>1, <3>2, <3>4, <4>1 DEF ToOld
        <5>2. Cardinality(ToOld') <= Cardinality(ToOld \ {w})
          BY <1>0, <3>3, Counting
        <5>3. Cardinality(ToOld \ {w}) = Cardinality(ToOld) - 1
          BY <1>0, <5>1, Counting
        <5>4. QED
          BY <1>0, <1>00, <3>1, <5>1, <5>2, <5>3 DEF Limit
      <4>2. CASE fd[w] # "old"
        BY <1>2, <3>1, <3>3, <4>2
      <4>3. QED
        BY <4>1, <4>2
    <3>7. QED
      BY <3>5, <3>6 DEF Pending
  <2>8. CASE OpenFails(w)
    BY <1>1, <1>2, <2>1, <2>8 DEF OpenFails, Fails, Pending
  <2>9. CASE AppendFails(w)
    BY <1>01, <1>1, <1>2, <2>1, <2>9 DEF AppendFails, Fails, Pending
  <2>10. CASE Killed(w)
    <3>1. /\ \A v \in Writers : pc'[v] = IF v = w THEN "idle" ELSE pc[v]
          /\ \A v \in Writers : v # w => fd'[v] = fd[v]
      BY <1>01, <2>10 DEF Killed, Shape
    <3>2. ToLog' \subseteq ToLog /\ ToOld' \subseteq ToOld
      BY <3>1 DEF ToLog, ToOld
    <3>3. QED
      BY <1>1, <1>2, <2>10, <3>2 DEF Killed, Fails, Pending
  <2>11. QED
    BY <1>5, <2>2, <2>3, <2>4, <2>5, <2>6, <2>7, <2>8, <2>9, <2>10 DEF Write
<1>6. QED
  BY <1>4, <1>5 DEF LogNext

\* Neither file outgrows the threshold by more than one line for each process
\* and one for each rotation that failed, for any number of them
\* (audit.go:57-84).
THEOREM LogIsBounded == LogSpec => []SizeBounded
<1>0. MaxSize \in Nat \ {0} /\ IsFiniteSet(Writers)
  BY SizeAssumption, WritersAssumption DEF SizeAssumption, WritersAssumption
<1>1. LogInit => Shape /\ NoLog /\ Pending
  <2> SUFFICES ASSUME LogInit
               PROVE  Shape /\ NoLog /\ Pending
    OBVIOUS
  <2>1. Shape
    <3>1. <<>> \in Seq(Entry)
      OBVIOUS
    <3>2. /\ pc \in [Writers -> {"idle", "stat", "rename", "open", "write"}]
          /\ fd \in [Writers -> {"none", "log", "old", "gone"}]
          /\ stamp \in [Writers -> Nat]
      BY DEF LogInit
    <3>3. QED
      BY <3>1, <3>2 DEF LogInit, Shape
  <2>2. NoLog
    BY DEF LogInit, NoLog
  <2>3. ToLog = {} /\ ToOld = {} /\ Len(log) = 0 /\ Len(old) = 0 /\ fails = 0
    BY DEF LogInit, ToLog, ToOld
  <2>4. Cardinality({}) = 0 /\ Cardinality(Writers) \in Nat
    BY <1>0, FS_EmptySet, FS_CardinalityType
  <2>5. Pending
    BY <1>0, <2>3, <2>4 DEF Pending, Limit
  <2>6. QED
    BY <2>1, <2>2, <2>5
<1>2. Shape /\ NoLog /\ Pending /\ [LogNext]_logVars => (Shape /\ NoLog /\ Pending)'
  BY <1>0, ShapeStep, NoLogStep, PendingStep
<1>3. Shape /\ NoLog /\ Pending => SizeBounded
  <2> SUFFICES ASSUME Shape, Pending
               PROVE  SizeBounded
    OBVIOUS
  <2>1. ToLog \in SUBSET Writers /\ ToOld \in SUBSET Writers
    BY DEF ToLog, ToOld
  <2>2. Cardinality(ToLog) \in Nat /\ Cardinality(ToOld) \in Nat /\ Cardinality(Writers) \in Nat
    BY <1>0, <2>1, Counting
  <2>3. Len(log) \in Nat /\ Len(old) \in Nat /\ fails \in Nat
    BY DEF Shape
  <2>4. Len(log) + Cardinality(ToLog) <= Limit /\ Len(old) + Cardinality(ToOld) <= Limit
    BY DEF Pending
  <2>5. QED
    BY <1>0, <2>2, <2>4, <2>3 DEF Limit, SizeBounded
<1>4. QED
  BY <1>1, <1>2, <1>3, PTL DEF LogSpec

(***************************************************************************)
(* The order of the lines of one process                                   *)
(***************************************************************************)
InOrder(f) ==
  \A i, j \in DOMAIN f : i < j /\ f[i].by = f[j].by => f[i].at < f[j].at

\* A process's lines in a file are earlier than the one it is writing, and no
\* later than its last.
Earlier(f) ==
  \A w \in Writers, i \in DOMAIN f :
    f[i].by = w => f[i].at <= stamp[w] /\ (pc[w] # "idle" => f[i].at < stamp[w])

\* A process that has .old open opened it as the log, before the log of now began.
Ordered ==
  /\ InOrder(log) /\ InOrder(old)
  /\ \A i \in DOMAIN old, j \in DOMAIN log : old[i].by = log[j].by => old[i].at < log[j].at
  /\ Earlier(log) /\ Earlier(old)
  /\ \A w \in Writers : stamp[w] <= clock
  /\ \A w \in Writers : fd[w] # "none" => pc[w] = "write"
  /\ \A w \in Writers : fd[w] = "old" => \A i \in DOMAIN log : log[i].by # w

\* A line later than all of its process in a file may follow them.
LEMMA Appended ==
  ASSUME NEW f \in Seq(Entry), InOrder(f), NEW line \in Entry,
         \A i \in DOMAIN f : f[i].by = line.by => f[i].at < line.at
  PROVE  /\ InOrder(Append(f, line))
         /\ DOMAIN Append(f, line) = 1 .. Len(f) + 1
         /\ \A i \in DOMAIN f : Append(f, line)[i] = f[i]
         /\ Append(f, line)[Len(f) + 1] = line
         /\ \A i \in DOMAIN Append(f, line) : i \in DOMAIN f \/ i = Len(f) + 1
<1> DEFINE g == Append(f, line)
<1>1. /\ g \in Seq(Entry) /\ Len(g) = Len(f) + 1 /\ Len(f) \in Nat
      /\ DOMAIN g = 1 .. Len(f) + 1 /\ DOMAIN f = 1 .. Len(f)
  OBVIOUS
<1>2. (\A i \in DOMAIN f : g[i] = f[i]) /\ g[Len(f) + 1] = line
  BY <1>1
<1> HIDE DEF g
<1>3. \A i \in DOMAIN g : i \in DOMAIN f \/ i = Len(f) + 1
  BY <1>1
<1>4. InOrder(g)
  <2> SUFFICES ASSUME NEW i \in DOMAIN g, NEW j \in DOMAIN g, i < j, g[i].by = g[j].by
               PROVE  g[i].at < g[j].at
    BY DEF InOrder
  <2>1. i \in DOMAIN f
    BY <1>1
  <2>2. CASE j \in DOMAIN f
    BY <1>2, <2>1, <2>2 DEF InOrder
  <2>3. CASE j = Len(f) + 1
    BY <1>2, <2>1, <2>3
  <2>4. QED
    BY <1>3, <2>2, <2>3
<1>5. QED
  BY <1>1, <1>2, <1>3, <1>4 DEF g

\* A step that leaves the files and their times alone keeps the order, when only
\* a process that is idle or loses its descriptor moves.
LEMMA OrderStays ==
  ASSUME Shape, Ordered, UNCHANGED <<log, old, stamp, clock>>,
         \A v \in Writers : pc'[v] # "idle" => pc[v] # "idle",
         \A v \in Writers : fd'[v] # "none" => pc'[v] = "write",
         \A v \in Writers : fd'[v] = "old" => fd[v] = "old"
  PROVE  Ordered'
BY DEF Ordered, InOrder, Earlier

\* Every step keeps the order.
LEMMA OrderedStep ==
  ASSUME Shape, Ordered, [LogNext]_logVars
  PROVE  Ordered'
<1>0. /\ log \in Seq(Entry) /\ old \in Seq(Entry) /\ clock \in Nat
      /\ pc \in [Writers -> {"idle", "stat", "rename", "open", "write"}]
      /\ fd \in [Writers -> {"none", "log", "old", "gone"}]
      /\ stamp \in [Writers -> Nat]
  BY DEF Shape
<1>00. \A v \in Writers : fd[v] # "none" => pc[v] = "write"
  BY DEF Ordered
<1>1. CASE UNCHANGED logVars
  BY <1>1, <1>00, OrderStays DEF logVars
<1>2. ASSUME NEW w \in Writers, Write(w)
      PROVE  Ordered'
  <2>1. CASE Begin(w)
    <3>1. /\ \A v \in Writers : pc'[v] = IF v = w THEN "stat" ELSE pc[v]
          /\ pc[w] = "idle"
          /\ \A v \in Writers : stamp'[v] = IF v = w THEN clock + 1 ELSE stamp[v]
          /\ clock' = clock + 1 /\ UNCHANGED <<log, old, fd>>
      BY <1>0, <2>1, OneMoves DEF Begin
    <3>2. \A v \in Writers : stamp[v] <= clock /\ stamp'[v] <= clock'
      <4> SUFFICES ASSUME NEW v \in Writers
                   PROVE  stamp[v] <= clock /\ stamp'[v] <= clock'
        OBVIOUS
      <4>1. stamp[v] \in Nat /\ clock \in Nat
        BY <1>0
      <4>2. stamp[v] <= clock
        BY DEF Ordered
      <4>3. clock' = clock + 1 /\ stamp'[v] = IF v = w THEN clock + 1 ELSE stamp[v]
        BY <3>1
      <4>4. QED
        BY <4>1, <4>2, <4>3
    <3>3. ASSUME NEW f \in Seq(Entry), Earlier(f)
          PROVE  \A v \in Writers, i \in DOMAIN f :
                   f[i].by = v => f[i].at <= stamp'[v] /\ (pc'[v] # "idle" => f[i].at < stamp'[v])
      <4> SUFFICES ASSUME NEW v \in Writers, NEW i \in DOMAIN f, f[i].by = v
                   PROVE  f[i].at <= stamp'[v] /\ (pc'[v] # "idle" => f[i].at < stamp'[v])
        OBVIOUS
      <4>1. f[i].at \in Nat
        <5>1. f[i] \in Entry
          OBVIOUS
        <5>2. QED
          BY <5>1 DEF Entry
      <4>2. f[i].at <= stamp[v] /\ (pc[v] # "idle" => f[i].at < stamp[v])
        BY <3>3 DEF Earlier
      <4>3. QED
        BY <1>0, <3>1, <3>2, <4>1, <4>2
    <3>4. Earlier(log)' /\ Earlier(old)'
      BY <1>0, <3>1, <3>3 DEF Ordered, Earlier
    <3>5. \A v \in Writers : fd'[v] # "none" => pc'[v] = "write"
      BY <1>00, <3>1
    <3>6. QED
      BY <3>1, <3>2, <3>4, <3>5 DEF Ordered, InOrder
  <2>2. CASE Stat(w)
    <3>1. /\ pc[w] = "stat" /\ \A v \in Writers : v # w => pc'[v] = pc[v]
      BY <1>0, <2>2 DEF Stat, Step
    <3>2. QED
      BY <1>00, <2>2, <3>1, OrderStays DEF Stat
  <2>3. CASE Rotate(w)
    <3>1. /\ pc[w] = "rename" /\ \A v \in Writers : v # w => pc'[v] = pc[v]
      BY <2>3, OneMoves DEF Rotate
    <3>2. CASE exists
      <4>1. /\ log' = <<>> /\ old' = log /\ UNCHANGED <<stamp, clock>>
            /\ fd' = [v \in Writers |-> CASE fd[v] = "log" -> "old" [] fd[v] = "old" -> "gone"
                                          [] OTHER -> fd[v]]
        BY <2>3, <3>2 DEF Rotate
      <4>2. \A v \in Writers : fd[v] = "none" => fd'[v] = "none"
        BY <4>1
      <4>3. \A v \in Writers : fd'[v] # "none" => pc'[v] = "write"
        BY <1>00, <3>1, <4>2
      <4>4. \A v \in Writers : pc'[v] # "idle" => pc[v] # "idle"
        BY <3>1
      <4>5. DOMAIN log' = {}
        BY <4>1
      <4>6. Earlier(old)' /\ InOrder(old)'
        BY <4>1, <4>4 DEF Ordered, Earlier, InOrder
      <4>7. Earlier(log)' /\ InOrder(log)'
        BY <4>5 DEF Earlier, InOrder
      <4>8. QED
        BY <4>1, <4>3, <4>5, <4>6, <4>7 DEF Ordered
    <3>3. CASE ~exists
      BY <1>00, <2>3, <3>1, <3>3, OrderStays DEF Rotate
    <3>4. QED
      BY <3>2, <3>3
  <2>4. CASE RotateFails(w)
    <3>1. /\ pc[w] = "rename" /\ \A v \in Writers : v # w => pc'[v] = pc[v]
      BY <2>4, OneMoves DEF RotateFails
    <3>2. QED
      BY <1>00, <2>4, <3>1, OrderStays DEF RotateFails
  <2>5. CASE Open(w)
    <3>1. /\ pc[w] = "open" /\ \A v \in Writers : pc'[v] = IF v = w THEN "write" ELSE pc[v]
          /\ \A v \in Writers : fd'[v] = IF v = w THEN "log" ELSE fd[v]
      BY <1>0, <2>5, OneMoves DEF Open
    <3>2. QED
      BY <1>00, <2>5, <3>1, OrderStays DEF Open
  <2>6. CASE OpenFails(w)
    <3>1. /\ pc[w] = "open" /\ \A v \in Writers : pc'[v] = IF v = w THEN "idle" ELSE pc[v]
      BY <2>6, OneMoves DEF OpenFails
    <3>2. QED
      BY <1>00, <2>6, <3>1, OrderStays DEF OpenFails
  <2>7. CASE AppendFails(w)
    <3>1. /\ \A v \in Writers : pc'[v] = IF v = w THEN "idle" ELSE pc[v]
          /\ \A v \in Writers : fd'[v] = IF v = w THEN "none" ELSE fd[v]
      BY <1>0, <2>7, OneMoves DEF AppendFails
    <3>2. QED
      BY <1>00, <2>7, <3>1, OrderStays DEF AppendFails
  <2>8. CASE Killed(w)
    <3>1. /\ \A v \in Writers : pc'[v] = IF v = w THEN "idle" ELSE pc[v]
          /\ \A v \in Writers : fd'[v] = IF v = w THEN "none" ELSE fd[v]
      BY <1>0, <2>8 DEF Killed
    <3>2. QED
      BY <1>00, <2>8, <3>1, OrderStays DEF Killed
  <2>9. CASE AppendLine(w)
    <3> DEFINE line == [by |-> w, at |-> stamp[w]]
    <3>1. /\ log' = IF fd[w] = "log" THEN Append(log, line) ELSE log
          /\ old' = IF fd[w] = "old" THEN Append(old, line) ELSE old
          /\ pc[w] = "write" /\ \A v \in Writers : pc'[v] = IF v = w THEN "idle" ELSE pc[v]
          /\ \A v \in Writers : fd'[v] = IF v = w THEN "none" ELSE fd[v]
          /\ UNCHANGED <<stamp, clock>>
      BY <1>0, <2>9, OneMoves DEF AppendLine
    <3>2. line \in Entry /\ line.by = w /\ line.at = stamp[w]
      BY <1>0 DEF Entry
    <3> HIDE DEF line
    <3>3. ASSUME NEW f \in Seq(Entry), InOrder(f), Earlier(f)
          PROVE  /\ InOrder(Append(f, line))
                 /\ \A v \in Writers, i \in DOMAIN Append(f, line) :
                      Append(f, line)[i].by = v =>
                        /\ Append(f, line)[i].at <= stamp[v]
                        /\ pc'[v] # "idle" => Append(f, line)[i].at < stamp[v]
      <4>1. \A i \in DOMAIN f : f[i].by = line.by => f[i].at < line.at
        BY <3>1, <3>2, <3>3 DEF Earlier
      <4>2. InOrder(Append(f, line))
        BY <3>2, <3>3, <4>1, Appended
      <4> SUFFICES ASSUME NEW v \in Writers, NEW i \in DOMAIN Append(f, line), Append(f, line)[i].by = v
                   PROVE  /\ Append(f, line)[i].at <= stamp[v]
                          /\ pc'[v] # "idle" => Append(f, line)[i].at < stamp[v]
        BY <4>2
      <4>3. CASE i \in DOMAIN f
        <5>1. Append(f, line)[i] = f[i]
          BY <3>2, <3>3, <4>1, <4>3, Appended
        <5>2. QED
          BY <3>1, <3>3, <4>3, <5>1 DEF Earlier
      <4>4. CASE i = Len(f) + 1
        <5>1. Append(f, line)[i] = line
          BY <3>2, <3>3, <4>1, <4>4, Appended
        <5>2. QED
          BY <1>0, <3>1, <3>2, <5>1
      <4>5. QED
        BY <3>2, <3>3, <4>1, <4>3, <4>4, Appended
    <3>4. /\ InOrder(log) /\ InOrder(old) /\ Earlier(log) /\ Earlier(old)
          /\ \A i \in DOMAIN old, j \in DOMAIN log : old[i].by = log[j].by => old[i].at < log[j].at
          /\ \A v \in Writers : stamp[v] <= clock
          /\ \A v \in Writers : fd[v] = "old" => \A i \in DOMAIN log : log[i].by # v
      BY DEF Ordered
    <3>5. \A f \in {log, old} : \A i \in DOMAIN f : f[i].by = w => f[i].at < line.at
      BY <3>1, <3>2, <3>4 DEF Earlier
    <3>6. /\ \A v \in Writers : stamp'[v] <= clock'
          /\ \A v \in Writers : fd'[v] # "none" => pc'[v] = "write"
      BY <1>00, <3>1, <3>4
    <3>7. CASE fd[w] = "log"
      <4>1. log' = Append(log, line) /\ old' = old
        BY <3>1, <3>7
      <4>2. InOrder(log') /\ Earlier(log)'
        BY <1>0, <3>1, <3>3, <3>4, <4>1 DEF Earlier
      <4>3. InOrder(old)' /\ Earlier(old)'
        BY <3>1, <3>4, <4>1 DEF InOrder, Earlier
      <4>4. /\ \A i \in DOMAIN log : log'[i] = log[i]
            /\ log'[Len(log) + 1] = line
            /\ \A i \in DOMAIN log' : i \in DOMAIN log \/ i = Len(log) + 1
        BY <1>0, <3>2, <3>4, <3>5, <4>1, Appended
      <4>5. \A i \in DOMAIN old', j \in DOMAIN log' : old'[i].by = log'[j].by => old'[i].at < log'[j].at
        BY <3>2, <3>4, <3>5, <4>1, <4>4
      <4>6. \A v \in Writers : fd'[v] = "old" => \A i \in DOMAIN log' : log'[i].by # v
        BY <3>1, <3>2, <3>4, <4>4
      <4>7. InOrder(log)'
        BY <4>2 DEF InOrder
      <4>8. QED
        BY <3>6, <4>2, <4>3, <4>5, <4>6, <4>7 DEF Ordered
    <3>8. CASE fd[w] = "old"
      <4>1. old' = Append(old, line) /\ log' = log
        BY <3>1, <3>8
      <4>2. InOrder(old') /\ Earlier(old)'
        BY <1>0, <3>1, <3>3, <3>4, <4>1 DEF Earlier
      <4>3. InOrder(log)' /\ Earlier(log)'
        BY <3>1, <3>4, <4>1 DEF InOrder, Earlier
      <4>4. /\ \A i \in DOMAIN old : old'[i] = old[i]
            /\ old'[Len(old) + 1] = line
            /\ \A i \in DOMAIN old' : i \in DOMAIN old \/ i = Len(old) + 1
        BY <1>0, <3>2, <3>4, <3>5, <4>1, Appended
      <4>5. \A i \in DOMAIN old', j \in DOMAIN log' : old'[i].by = log'[j].by => old'[i].at < log'[j].at
        BY <3>2, <3>4, <3>8, <4>1, <4>4
      <4>6. \A v \in Writers : fd'[v] = "old" => \A i \in DOMAIN log' : log'[i].by # v
        BY <3>1, <3>4, <4>1
      <4>7. InOrder(old)'
        BY <4>2 DEF InOrder
      <4>8. QED
        BY <3>6, <4>2, <4>3, <4>5, <4>6, <4>7 DEF Ordered
    <3>9. CASE fd[w] # "log" /\ fd[w] # "old"
      BY <1>00, <3>1, <3>9, OrderStays
    <3>10. QED
      BY <3>7, <3>8, <3>9
  <2>10. QED
    BY <1>2, <2>1, <2>2, <2>3, <2>4, <2>5, <2>6, <2>7, <2>8, <2>9 DEF Write
<1>3. QED
  BY <1>1, <1>2 DEF LogNext

\* The types and the order of an empty log.
LEMMA ShapeInit ==
  ASSUME LogInit
  PROVE  Shape /\ Ordered
<1>1. <<>> \in Seq(Entry) /\ DOMAIN <<>> = {}
  OBVIOUS
<1>2. /\ pc \in [Writers -> {"idle", "stat", "rename", "open", "write"}]
      /\ fd \in [Writers -> {"none", "log", "old", "gone"}]
      /\ stamp \in [Writers -> Nat]
  BY DEF LogInit
<1>3. Shape
  BY <1>1, <1>2 DEF LogInit, Shape
<1>4. Ordered
  <2>1. log = <<>> /\ old = <<>> /\ clock = 0 /\ \A w \in Writers : stamp[w] = 0 /\ fd[w] = "none"
    BY DEF LogInit
  <2>2. DOMAIN log = {} /\ DOMAIN old = {}
    BY <1>1, <2>1
  <2>3. InOrder(log) /\ InOrder(old) /\ Earlier(log) /\ Earlier(old)
    BY <2>2 DEF InOrder, Earlier
  <2>4. QED
    BY <2>1, <2>2, <2>3 DEF Ordered
<1>5. QED
  BY <1>3, <1>4

\* Whatever rotations fall into whose writes, .old and the log together keep the
\* lines of each process in the order it wrote them (audit.go:57-84).
THEOREM OrderIsKept == LogSpec => []OwnOrder
<1>1. LogInit => Shape /\ Ordered
  BY ShapeInit
<1>2. Shape /\ Ordered /\ [LogNext]_logVars => (Shape /\ Ordered)'
  BY ShapeStep, OrderedStep
<1>3. Shape /\ Ordered => OwnOrder
  <2> SUFFICES ASSUME Shape, Ordered
               PROVE  OwnOrder
    OBVIOUS
  <2> DEFINE all == old \o log
  <2>1. log \in Seq(Entry) /\ old \in Seq(Entry)
    BY DEF Shape
  <2>2. /\ \A i \in DOMAIN all : \/ i \in DOMAIN old /\ all[i] = old[i]
                                 \/ i - Len(old) \in DOMAIN log /\ all[i] = log[i - Len(old)]
        /\ \A i \in DOMAIN all : i \in Nat
        /\ \A i \in DOMAIN old : i \in Nat /\ i <= Len(old)
        /\ \A i \in DOMAIN log : i \in Nat /\ i >= 1
        /\ Len(old) \in Nat
    BY <2>1
  <2> HIDE DEF all
  <2>3. ASSUME NEW i \in DOMAIN all, NEW j \in DOMAIN all, i < j, all[i].by = all[j].by
        PROVE  all[i].at < all[j].at
    <3>1. CASE i \in DOMAIN old /\ j \in DOMAIN old /\ all[i] = old[i] /\ all[j] = old[j]
      BY <2>3, <3>1 DEF Ordered, InOrder
    <3>2. CASE /\ i \in DOMAIN old /\ all[i] = old[i]
               /\ j - Len(old) \in DOMAIN log /\ all[j] = log[j - Len(old)]
      BY <2>3, <3>2 DEF Ordered
    <3>3. CASE /\ i - Len(old) \in DOMAIN log /\ all[i] = log[i - Len(old)]
               /\ j - Len(old) \in DOMAIN log /\ all[j] = log[j - Len(old)]
      <4>1. i - Len(old) < j - Len(old)
        BY <2>2, <2>3
      <4>2. QED
        BY <2>3, <3>3, <4>1 DEF Ordered, InOrder
    <3>4. ~(i - Len(old) \in DOMAIN log /\ j \in DOMAIN old)
      BY <2>2, <2>3
    <3>5. QED
      BY <2>2, <3>1, <3>2, <3>3, <3>4
  <2>4. QED
    BY <2>3 DEF OwnOrder, all
<1>4. QED
  BY <1>1, <1>2, <1>3, PTL DEF LogSpec

(***************************************************************************)
(* The lines a rotation keeps                                              *)
(***************************************************************************)

\* As long as no rotation fell into another's write, the two files are the end
\* of what was written: all of it, or more than a threshold of it.
Ending ==
  /\ \A v \in Writers : fd[v] \in {"none", "log"}
  /\ \A v \in Writers : pc[v] = "rename" => Len(log) >= MaxSize
  /\ Len(old) + Len(log) <= Len(done)
  /\ \A i \in DOMAIN log : log[i] = done[Len(done) - Len(log) + i]
  /\ \A i \in DOMAIN old : old[i] = done[Len(done) - Len(log) - Len(old) + i]
  /\ Len(old) + Len(log) = Len(done) \/ Len(old) >= MaxSize

Kept ==
  /\ done \in Seq(Entry)
  /\ raced \in BOOLEAN
  /\ \A v \in Writers : fd[v] = "none" <=> pc[v] # "write"
  /\ ~raced => Ending

\* A step that writes no line and renames no file keeps the ending, if only a
\* log that is full is to be renamed.
LEMMA EndingStays ==
  ASSUME Kept, UNCHANGED <<log, old, done, raced>>,
         \A v \in Writers : fd'[v] = "none" <=> pc'[v] # "write",
         \A v \in Writers : fd'[v] \in {fd[v], "none", "log"},
         \A v \in Writers : pc'[v] = "rename" => pc[v] = "rename" \/ Len(log) >= MaxSize
  PROVE  Kept'
<1>1. done' \in Seq(Entry) /\ raced' \in BOOLEAN
  BY DEF Kept
<1>2. ASSUME ~raced'
      PROVE  Ending'
  <2>1. Ending
    BY <1>2 DEF Kept
  <2>2. \A v \in Writers : fd'[v] \in {"none", "log"}
    BY <2>1 DEF Ending
  <2>3. \A v \in Writers : pc'[v] = "rename" => Len(log') >= MaxSize
    BY <2>1 DEF Ending
  <2>4. QED
    BY <2>1, <2>2, <2>3 DEF Ending
<1>3. QED
  BY <1>1, <1>2 DEF Kept

\* Every step keeps the ending.
LEMMA KeptStep ==
  ASSUME MaxSize \in Nat \ {0}, Shape, NoLog, Kept, [LogNext]_logVars
  PROVE  Kept'
<1>0. /\ log \in Seq(Entry) /\ old \in Seq(Entry) /\ done \in Seq(Entry)
      /\ pc \in [Writers -> {"idle", "stat", "rename", "open", "write"}]
      /\ fd \in [Writers -> {"none", "log", "old", "gone"}]
      /\ stamp \in [Writers -> Nat]
      /\ raced \in BOOLEAN
  BY DEF Shape, Kept
<1>00. \A v \in Writers : fd[v] = "none" <=> pc[v] # "write"
  BY DEF Kept
<1>1. CASE UNCHANGED logVars
  BY <1>00, <1>1, EndingStays DEF logVars
<1>2. ASSUME NEW w \in Writers, Write(w)
      PROVE  Kept'
  <2>1. CASE Begin(w) \/ RotateFails(w) \/ OpenFails(w)
    <3>1. /\ pc[w] \in {"idle", "rename", "open"} /\ pc'[w] \in {"stat", "open", "idle"}
          /\ \A v \in Writers : v # w => pc'[v] = pc[v]
          /\ UNCHANGED <<log, old, done, raced, fd>>
      BY <1>0, <2>1 DEF Begin, RotateFails, OpenFails, Step
    <3>2. QED
      BY <1>00, <3>1, EndingStays
  <2>2. CASE Stat(w)
    <3>1. /\ pc[w] = "stat" /\ pc'[w] = IF exists /\ Len(log) >= MaxSize THEN "rename" ELSE "open"
          /\ \A v \in Writers : v # w => pc'[v] = pc[v]
          /\ UNCHANGED <<log, old, done, raced, fd>>
      BY <1>0, <2>2 DEF Stat, Step
    <3>2. pc'[w] # "write" /\ (pc'[w] = "rename" => Len(log) >= MaxSize)
      BY <3>1
    <3>3. QED
      BY <1>00, <3>1, <3>2, EndingStays
  <2>3. CASE Open(w) \/ AppendFails(w) \/ Killed(w)
    <3>1. /\ \/ pc'[w] = "write" /\ fd'[w] = "log"
             \/ pc'[w] = "idle" /\ fd'[w] = "none"
          /\ \A v \in Writers : v # w => pc'[v] = pc[v] /\ fd'[v] = fd[v]
          /\ UNCHANGED <<log, old, done, raced>>
      BY <1>0, <2>3 DEF Open, AppendFails, Killed, Step
    <3>2. QED
      BY <1>00, <3>1, EndingStays
  <2>4. CASE Rotate(w)
    <3>1. /\ pc[w] = "rename" /\ pc'[w] = "open" /\ \A v \in Writers : v # w => pc'[v] = pc[v]
          /\ done' = done
      BY <2>4, OneMoves DEF Rotate
    <3>2. CASE ~exists
      <4>1. UNCHANGED <<log, old, raced, fd>>
        BY <2>4, <3>2 DEF Rotate
      <4>2. QED
        BY <1>00, <3>1, <4>1, EndingStays
    <3>3. CASE exists
      <4>1. /\ log' = <<>> /\ old' = log
            /\ fd' = [v \in Writers |-> CASE fd[v] = "log" -> "old" [] fd[v] = "old" -> "gone"
                                          [] OTHER -> fd[v]]
            /\ raced' = (raced \/ Midway(w))
        BY <2>4, <3>3 DEF Rotate
      <4>2. \A v \in Writers : fd'[v] = "none" <=> fd[v] = "none"
        <5> SUFFICES ASSUME NEW v \in Writers
                     PROVE  fd'[v] = "none" <=> fd[v] = "none"
          OBVIOUS
        <5>1. CASE fd[v] \in {"log", "old"}
          BY <4>1, <5>1
        <5>2. CASE fd[v] \notin {"log", "old"}
          BY <4>1, <5>2
        <5>3. QED
          BY <5>1, <5>2
      <4>3. \A v \in Writers : fd'[v] = "none" <=> pc'[v] # "write"
        BY <1>00, <3>1, <4>2
      <4>4. ASSUME ~raced'
            PROVE  Ending'
        <5>1. ~raced /\ \A v \in Writers : v # w => pc[v] = "idle"
          BY <4>1, <4>4 DEF Midway
        <5>2. Ending
          BY <5>1 DEF Kept
        <5>3. \A v \in Writers : pc[v] # "write"
          BY <3>1, <5>1
        <5>4. \A v \in Writers : fd'[v] = "none"
          BY <1>00, <4>2, <5>3
        <5>5. \A v \in Writers : pc'[v] # "rename"
          BY <3>1, <5>1
        <5>6. Len(log) >= MaxSize /\ Len(old) + Len(log) <= Len(done)
          BY <3>1, <5>2 DEF Ending
        <5>7. /\ Len(log') = 0 /\ DOMAIN log' = {}
              /\ Len(log) \in Nat /\ Len(old) \in Nat /\ Len(done) \in Nat
          BY <1>0, <4>1
        <5>8. Len(old') + Len(log') <= Len(done') /\ Len(old') >= MaxSize
          BY <3>1, <4>1, <5>6, <5>7
        <5>9. \A i \in DOMAIN old' : old'[i] = done'[Len(done') - Len(log') - Len(old') + i]
          <6>1. \A i \in DOMAIN log : log[i] = done[Len(done) - Len(log) + i]
            BY <5>2 DEF Ending
          <6>2. Len(done') - Len(log') - Len(old') = Len(done) - Len(log)
            BY <3>1, <4>1, <5>7
          <6>3. QED
            BY <3>1, <4>1, <6>1, <6>2
        <5>10. QED
          BY <5>4, <5>5, <5>7, <5>8, <5>9 DEF Ending
      <4>5. raced' \in BOOLEAN
        BY <4>1
      <4>6. QED
        BY <1>0, <3>1, <4>3, <4>4, <4>5 DEF Kept
    <3>4. QED
      BY <3>2, <3>3
  <2>5. CASE AppendLine(w)
    <3> DEFINE line == [by |-> w, at |-> stamp[w]]
    <3>1. /\ log' = IF fd[w] = "log" THEN Append(log, line) ELSE log
          /\ old' = IF fd[w] = "old" THEN Append(old, line) ELSE old
          /\ done' = Append(done, line) /\ raced' = raced
          /\ pc[w] = "write" /\ \A v \in Writers : pc'[v] = IF v = w THEN "idle" ELSE pc[v]
          /\ \A v \in Writers : fd'[v] = IF v = w THEN "none" ELSE fd[v]
      BY <1>0, <2>5, OneMoves DEF AppendLine
    <3>2. line \in Entry
      BY <1>0 DEF Entry
    <3> HIDE DEF line
    <3>3. /\ done' \in Seq(Entry)
          /\ \A v \in Writers : fd'[v] = "none" <=> pc'[v] # "write"
      <4>1. done' \in Seq(Entry)
        BY <1>0, <3>1, <3>2
      <4>2. \A v \in Writers : fd'[v] = "none" <=> pc'[v] # "write"
        BY <1>00, <3>1
      <4>3. QED
        BY <4>1, <4>2
    <3>4. ASSUME ~raced'
          PROVE  Ending'
      <4>1. Ending
        BY <3>1, <3>4 DEF Kept
      <4>2. fd[w] = "log"
        BY <1>00, <3>1, <4>1 DEF Ending
      <4>3. log' = Append(log, line) /\ old' = old
        BY <3>1, <4>2
      <4>4. /\ Len(log') = Len(log) + 1 /\ Len(done') = Len(done) + 1
            /\ Len(log) \in Nat /\ Len(old) \in Nat /\ Len(done) \in Nat
            /\ DOMAIN log = 1 .. Len(log) /\ DOMAIN old = 1 .. Len(old)
            /\ DOMAIN log' = 1 .. Len(log) + 1
            /\ \A i \in 1 .. Len(log) : log'[i] = log[i]
            /\ \A i \in 1 .. Len(done) : done'[i] = done[i]
            /\ log'[Len(log) + 1] = line /\ done'[Len(done) + 1] = line
        BY <1>0, <3>1, <3>2, <4>3
      <4>5. Len(old) + Len(log) <= Len(done)
        BY <4>1 DEF Ending
      <4>6. \A i \in DOMAIN log' : log'[i] = done'[Len(done') - Len(log') + i]
        <5> SUFFICES ASSUME NEW i \in 1 .. Len(log) + 1
                     PROVE  log'[i] = done'[Len(done) - Len(log) + i]
          BY <4>4
        <5>1. CASE i <= Len(log)
          <6>1. log[i] = done[Len(done) - Len(log) + i]
            <7>1. i \in DOMAIN log
              BY <4>4, <5>1
            <7>2. QED
              BY <4>1, <7>1 DEF Ending
          <6>2. Len(done) - Len(log) + i \in 1 .. Len(done)
            BY <4>4, <4>5, <5>1
          <6>3. QED
            BY <4>4, <5>1, <6>1, <6>2
        <5>2. CASE i = Len(log) + 1
          BY <4>4, <5>2
        <5>3. QED
          BY <4>4, <5>1, <5>2
      <4>7. \A i \in DOMAIN old' : old'[i] = done'[Len(done') - Len(log') - Len(old') + i]
        <5> SUFFICES ASSUME NEW i \in 1 .. Len(old)
                     PROVE  old[i] = done'[Len(done) - Len(log) - Len(old) + i]
          BY <4>3, <4>4
        <5>1. old[i] = done[Len(done) - Len(log) - Len(old) + i]
          BY <4>1, <4>4 DEF Ending
        <5>2. Len(done) - Len(log) - Len(old) + i \in 1 .. Len(done)
          BY <4>4, <4>5
        <5>3. QED
          BY <4>4, <5>1, <5>2
      <4>8. /\ Len(old') + Len(log') <= Len(done')
            /\ Len(old') + Len(log') = Len(done') \/ Len(old') >= MaxSize
        <5>1. /\ Len(log') = Len(log) + 1 /\ Len(done') = Len(done) + 1
              /\ Len(log) \in Nat /\ Len(old) \in Nat /\ Len(done) \in Nat
          BY <4>4
        <5>2. Len(old') = Len(old)
          BY <4>3
        <5>3. Len(old) + Len(log) = Len(done) \/ Len(old) >= MaxSize
          BY <4>1 DEF Ending
        <5>4. QED
          BY ONLY <4>5, <5>1, <5>2, <5>3
      <4>9. \A v \in Writers : fd'[v] \in {"none", "log"}
        BY <3>1, <4>1 DEF Ending
      <4>10. \A v \in Writers : pc'[v] = "rename" => Len(log') >= MaxSize
        <5> SUFFICES ASSUME NEW v \in Writers, pc'[v] = "rename"
                     PROVE  Len(log) >= MaxSize
          BY <4>4
        <5>1. QED
          BY <3>1, <4>1 DEF Ending
      <4>11. QED
        BY <4>6, <4>7, <4>8, <4>9, <4>10 DEF Ending
    <3>5. QED
      BY <1>0, <3>1, <3>3, <3>4 DEF Kept
  <2>6. QED
    BY <1>2, <2>1, <2>2, <2>3, <2>4, <2>5 DEF Write
<1>3. QED
  BY <1>1, <1>2 DEF LogNext

\* As long as no rotation falls into another's write, the latest lines, as many
\* as the threshold, are on disk at every moment (audit.go:63-67).
THEOREM LatestAreKept == LogSpec => []RecentKept
<1>0. MaxSize \in Nat \ {0}
  BY SizeAssumption DEF SizeAssumption
<1>1. LogInit => Shape /\ NoLog /\ Kept
  <2> SUFFICES ASSUME LogInit
               PROVE  Shape /\ NoLog /\ Kept
    OBVIOUS
  <2>1. Shape /\ NoLog
    BY ShapeInit DEF LogInit, NoLog
  <2>2. <<>> \in Seq(Entry) /\ Len(<<>>) = 0 /\ DOMAIN <<>> = {}
    OBVIOUS
  <2>3. /\ log = <<>> /\ old = <<>> /\ done = <<>> /\ raced = FALSE
        /\ \A v \in Writers : pc[v] = "idle" /\ fd[v] = "none"
    BY DEF LogInit
  <2>4. Ending
    BY <2>2, <2>3 DEF Ending
  <2>5. QED
    BY <2>1, <2>2, <2>3, <2>4 DEF Kept
<1>2. Shape /\ NoLog /\ Kept /\ [LogNext]_logVars => (Shape /\ NoLog /\ Kept)'
  BY <1>0, ShapeStep, NoLogStep, KeptStep
<1>3. Shape /\ Kept => RecentKept
  <2> SUFFICES ASSUME Shape, Kept, ~raced,
                      NEW i \in DOMAIN done, i > Len(done) - MaxSize
               PROVE  done[i] \in OnDisk
    BY DEF RecentKept
  <2>1. /\ Len(log) \in Nat /\ Len(old) \in Nat /\ Len(done) \in Nat
        /\ DOMAIN log = 1 .. Len(log) /\ DOMAIN old = 1 .. Len(old) /\ DOMAIN done = 1 .. Len(done)
    BY DEF Shape, Kept
  <2>2. Ending
    BY DEF Kept
  <2>3. CASE i > Len(done) - Len(log)
    <3> DEFINE k == i - (Len(done) - Len(log))
    <3>1. k \in DOMAIN log /\ Len(done) - Len(log) + k = i
      BY <2>1, <2>3
    <3>2. log[k] = done[i]
      BY <2>2, <3>1 DEF Ending
    <3>3. QED
      BY <3>1, <3>2 DEF OnDisk, ToSet
  <2>4. CASE i <= Len(done) - Len(log) /\ i > Len(done) - Len(log) - Len(old)
    <3> DEFINE k == i - (Len(done) - Len(log) - Len(old))
    <3>1. k \in DOMAIN old /\ Len(done) - Len(log) - Len(old) + k = i
      BY <2>1, <2>4
    <3>2. old[k] = done[i]
      BY <2>2, <3>1 DEF Ending
    <3>3. QED
      BY <3>1, <3>2 DEF OnDisk, ToSet
  <2>5. i > Len(done) - Len(log) - Len(old)
    <3>1. Len(old) + Len(log) = Len(done) \/ Len(old) >= MaxSize
      BY <2>2 DEF Ending
    <3>2. i \in 1 .. Len(done) /\ MaxSize \in Nat
      BY <1>0, <2>1
    <3>3. CASE Len(old) + Len(log) = Len(done)
      BY <2>1, <3>2, <3>3
    <3>4. CASE Len(old) >= MaxSize
      BY <2>1, <3>2, <3>4
    <3>5. QED
      BY <3>1, <3>3, <3>4
  <2>6. QED
    BY <2>1, <2>3, <2>4, <2>5
<1>4. QED
  BY <1>1, <1>2, <1>3, PTL DEF LogSpec
(***************************************************************************)
(* The types of the audit log                                              *)
(***************************************************************************)

\* Who is writing has taken the time.
Stamped == \A w \in Writers : pc[w] # "idle" => stamp[w] \in 1 .. MaxLines

\* Every step keeps the types; that nobody has a log open that is not there is
\* known of both states.
LEMMA LogTypeStep ==
  ASSUME LogTypeOK, Stamped, NoLog, NoLog', [LogNext]_logVars
  PROVE  LogTypeOK' /\ Stamped'
<1> DEFINE Calls0 == {"idle", "stat", "rename", "open", "write"}
           Files == {"none", "log", "old", "gone"}
<1>0. /\ log \in Seq(Line) /\ old \in Seq(Line) /\ done \in Seq(Line)
      /\ exists \in BOOLEAN /\ raced \in BOOLEAN
      /\ pc \in [Writers -> Calls0] /\ fd \in [Writers -> Files]
      /\ \A w \in Writers : fd[w] = "none" <=> pc[w] # "write"
      /\ stamp \in [Writers -> 0 .. MaxLines]
      /\ clock \in 0 .. MaxLines /\ fails \in 0 .. MaxFails
  BY DEF LogTypeOK
<1>1. MaxLines \in Nat /\ MaxFails \in Nat
  BY BoundAssumption DEF BoundAssumption
<1>2. ~exists' => log' = <<>>
  BY DEF NoLog
<1>3. ASSUME UNCHANGED <<log, old, done, raced, stamp, clock>>, exists' \in BOOLEAN,
             pc' \in [Writers -> Calls0], fd' \in [Writers -> Files],
             \A w \in Writers : fd'[w] = "none" <=> pc'[w] # "write",
             \A w \in Writers : pc'[w] # "idle" => pc[w] # "idle",
             fails' = fails \/ (fails < MaxFails /\ fails' = fails + 1)
      PROVE  LogTypeOK' /\ Stamped'
  <2>1. fails' \in 0 .. MaxFails
    BY <1>0, <1>1, <1>3
  <2>2. Stamped'
    BY <1>3, Zenon DEF Stamped
  <2>3. QED
    BY <1>0, <1>2, <1>3, <2>1, <2>2, Zenon DEF LogTypeOK
<1>4. ASSUME NEW w \in Writers, NEW from, NEW to \in Calls0, Step(w, from, to)
      PROVE  /\ pc[w] = from /\ pc' \in [Writers -> Calls0]
             /\ \A v \in Writers : pc'[v] = IF v = w THEN to ELSE pc[v]
  BY <1>0, <1>4 DEF Step
<1>5. CASE UNCHANGED logVars
  <2>1. UNCHANGED <<log, old, done, raced, stamp, clock, exists, pc, fd, fails>>
    BY <1>5 DEF logVars
  <2>2. QED
    BY <1>0, <1>3, <2>1
<1>6. ASSUME NEW w \in Writers, Write(w)
      PROVE  LogTypeOK' /\ Stamped'
  <2>1. CASE Begin(w)
    <3>1. /\ clock < MaxLines /\ clock' = clock + 1 /\ stamp' = [stamp EXCEPT ![w] = clock + 1]
          /\ UNCHANGED <<log, old, exists, fd, done, raced, fails>>
          /\ Step(w, "idle", "stat")
      BY <2>1 DEF Begin
    <3>2. /\ pc[w] = "idle" /\ pc' \in [Writers -> Calls0]
          /\ \A v \in Writers : pc'[v] = IF v = w THEN "stat" ELSE pc[v]
      BY <1>4, <3>1
    <3>3. clock' \in 0 .. MaxLines /\ clock + 1 \in 1 .. MaxLines
      BY <1>0, <1>1, <3>1
    <3>4. /\ stamp' \in [Writers -> 0 .. MaxLines]
          /\ \A v \in Writers : stamp'[v] = IF v = w THEN clock + 1 ELSE stamp[v]
      BY <1>0, <3>1, <3>3
    <3>5. \A v \in Writers : fd'[v] = "none" <=> pc'[v] # "write"
      BY <1>0, <3>1, <3>2
    <3>6. Stamped'
      BY <3>2, <3>3, <3>4 DEF Stamped
    <3>7. QED
      BY <1>0, <1>2, <3>1, <3>2, <3>3, <3>4, <3>5, <3>6, Zenon DEF LogTypeOK
  <2>2. CASE Stat(w) \/ RotateFails(w) \/ OpenFails(w)
    <3>1. /\ UNCHANGED <<log, old, done, raced, stamp, clock, exists, fd>>
          /\ fails' = fails \/ (fails < MaxFails /\ fails' = fails + 1)
      BY <2>2 DEF Stat, RotateFails, OpenFails, Fails
    <3>2. PICK from \in {"stat", "rename", "open"}, to \in {"rename", "open", "idle"} : Step(w, from, to)
      BY <2>2 DEF Stat, RotateFails, OpenFails
    <3>3. /\ pc[w] = from /\ pc' \in [Writers -> Calls0]
          /\ \A v \in Writers : pc'[v] = IF v = w THEN to ELSE pc[v]
      BY <1>4, <3>2
    <3>4. /\ \A v \in Writers : fd'[v] = "none" <=> pc'[v] # "write"
          /\ \A v \in Writers : pc'[v] # "idle" => pc[v] # "idle"
      BY <1>0, <3>1, <3>3
    <3>5. QED
      BY <1>0, <1>3, <3>1, <3>3, <3>4
  <2>3. CASE Rotate(w)
    <3>1. /\ pc[w] = "rename" /\ pc' \in [Writers -> Calls0]
          /\ \A v \in Writers : pc'[v] = IF v = w THEN "open" ELSE pc[v]
      BY <1>4, <2>3 DEF Rotate
    <3>2. UNCHANGED <<stamp, clock, done, fails>>
      BY <2>3 DEF Rotate
    <3>3. CASE exists
      <4>1. /\ old' = log /\ log' = <<>> /\ exists' = FALSE
            /\ fd' = [v \in Writers |-> CASE fd[v] = "log" -> "old" [] fd[v] = "old" -> "gone"
                                          [] OTHER -> fd[v]]
            /\ raced' = (raced \/ Midway(w))
        BY <2>3, <3>3 DEF Rotate
      <4>2. \A v \in Writers : fd'[v] \in Files /\ (fd'[v] = "none" <=> fd[v] = "none")
        <5> SUFFICES ASSUME NEW v \in Writers
                     PROVE  fd'[v] \in Files /\ (fd'[v] = "none" <=> fd[v] = "none")
          OBVIOUS
        <5>1. CASE fd[v] \in {"log", "old"}
          BY <4>1, <5>1
        <5>2. CASE fd[v] \notin {"log", "old"}
          BY <1>0, <4>1, <5>2
        <5>3. QED
          BY <5>1, <5>2
      <4>3. fd' \in [Writers -> Files]
        BY <4>1, <4>2
      <4>4. \A v \in Writers : fd'[v] = "none" <=> pc'[v] # "write"
        BY <1>0, <3>1, <4>2
      <4>5. log' \in Seq(Line) /\ raced' \in BOOLEAN /\ exists' \in BOOLEAN
        <5>1. log' = <<>> /\ exists' = FALSE
          BY <4>1, Zenon
        <5>2. <<>> \in Seq(Line) /\ FALSE \in BOOLEAN
          OBVIOUS
        <5>3. raced' \in BOOLEAN
          BY <4>1
        <5>4. QED
          BY <5>1, <5>2, <5>3, Zenon
      <4>6. Stamped'
        BY <3>1, <3>2 DEF Stamped
      <4>7. QED
        BY <1>0, <1>2, <3>1, <3>2, <4>1, <4>3, <4>4, <4>5, <4>6, Zenon DEF LogTypeOK
    <3>4. CASE ~exists
      <4>1. UNCHANGED <<log, old, exists, fd, raced>>
        BY <2>3, <3>4 DEF Rotate
      <4>2. /\ \A v \in Writers : fd'[v] = "none" <=> pc'[v] # "write"
            /\ \A v \in Writers : pc'[v] # "idle" => pc[v] # "idle"
        BY <1>0, <3>1, <4>1
      <4>3. QED
        BY <1>0, <1>3, <3>1, <3>2, <4>1, <4>2
    <3>5. QED
      BY <3>3, <3>4
  <2>4. CASE Open(w)
    <3>1. /\ pc[w] = "open" /\ pc' \in [Writers -> Calls0]
          /\ \A v \in Writers : pc'[v] = IF v = w THEN "write" ELSE pc[v]
      BY <1>4, <2>4 DEF Open
    <3>2. /\ exists' = TRUE /\ fd' \in [Writers -> Files]
          /\ \A v \in Writers : fd'[v] = IF v = w THEN "log" ELSE fd[v]
      BY <1>0, <2>4 DEF Open
    <3>3. UNCHANGED <<log, old, stamp, clock, done, raced, fails>>
      BY <2>4 DEF Open
    <3>4. /\ \A v \in Writers : fd'[v] = "none" <=> pc'[v] # "write"
          /\ \A v \in Writers : pc'[v] # "idle" => pc[v] # "idle"
      BY <1>0, <3>1, <3>2
    <3>5. QED
      BY <1>3, <3>1, <3>2, <3>3, <3>4
  <2>5. CASE AppendFails(w) \/ Killed(w)
    <3>1. /\ UNCHANGED <<log, old, exists, stamp, clock, done, raced>>
          /\ fails < MaxFails /\ fails' = fails + 1
          /\ fd' \in [Writers -> Files] /\ pc' \in [Writers -> Calls0]
          /\ \A v \in Writers : fd'[v] = IF v = w THEN "none" ELSE fd[v]
          /\ \A v \in Writers : pc'[v] = IF v = w THEN "idle" ELSE pc[v]
      BY <1>0, <2>5 DEF AppendFails, Killed, Fails, Step
    <3>2. /\ \A v \in Writers : fd'[v] = "none" <=> pc'[v] # "write"
          /\ \A v \in Writers : pc'[v] # "idle" => pc[v] # "idle"
      BY <1>0, <3>1
    <3>3. QED
      BY <1>0, <1>3, <3>1, <3>2
  <2>6. CASE AppendLine(w)
    <3> DEFINE line == [by |-> w, at |-> stamp[w]]
    <3>1. /\ pc[w] = "write" /\ pc' \in [Writers -> Calls0]
          /\ \A v \in Writers : pc'[v] = IF v = w THEN "idle" ELSE pc[v]
      BY <1>4, <2>6 DEF AppendLine
    <3>2. /\ log' = IF fd[w] = "log" THEN Append(log, line) ELSE log
          /\ old' = IF fd[w] = "old" THEN Append(old, line) ELSE old
          /\ done' = Append(done, line)
          /\ UNCHANGED <<exists, stamp, clock, raced, fails>>
      BY <2>6 DEF AppendLine
    <3>3. line \in Line
      <4>1. stamp[w] \in 1 .. MaxLines
        BY <3>1 DEF Stamped
      <4>2. QED
        BY <4>1 DEF Line
    <3> HIDE DEF line
    <3>4. log' \in Seq(Line) /\ old' \in Seq(Line) /\ done' \in Seq(Line)
      BY <1>0, <3>2, <3>3
    <3>5. /\ fd' \in [Writers -> Files]
          /\ \A v \in Writers : fd'[v] = IF v = w THEN "none" ELSE fd[v]
      BY <1>0, <2>6 DEF AppendLine
    <3>6. \A v \in Writers : fd'[v] = "none" <=> pc'[v] # "write"
      BY <1>0, <3>1, <3>5
    <3>7. Stamped'
      BY <3>1, <3>2 DEF Stamped
    <3>8. QED
      BY <1>0, <1>2, <3>1, <3>2, <3>4, <3>5, <3>6, <3>7, Zenon DEF LogTypeOK
  <2>7. QED
    BY <1>6, <2>1, <2>2, <2>3, <2>4, <2>5, <2>6, Zenon DEF Write
<1>7. QED
  BY <1>5, <1>6, Zenon DEF LogNext

\* The types of the log, of the writers and of what they have written.
THEOREM LogTypeCorrect == LogSpec => []LogTypeOK
<1>1. LogInit => Shape /\ NoLog /\ LogTypeOK /\ Stamped
  <2> SUFFICES ASSUME LogInit
               PROVE  Shape /\ NoLog /\ LogTypeOK /\ Stamped
    OBVIOUS
  <2>1. Shape /\ NoLog
    BY ShapeInit DEF LogInit, NoLog
  <2>2. /\ log = <<>> /\ old = <<>> /\ done = <<>> /\ exists = FALSE /\ raced = FALSE
        /\ pc = [w \in Writers |-> "idle"] /\ fd = [w \in Writers |-> "none"]
        /\ stamp = [w \in Writers |-> 0] /\ clock = 0 /\ fails = 0
    BY DEF LogInit
  <2>3. log \in Seq(Line) /\ old \in Seq(Line) /\ done \in Seq(Line)
    BY <2>2
  <2>4. /\ \A w \in Writers : pc[w] = "idle" /\ fd[w] = "none"
        /\ pc \in [Writers -> {"idle", "stat", "rename", "open", "write"}]
        /\ fd \in [Writers -> {"none", "log", "old", "gone"}]
    BY <2>2
  <2>5. /\ clock \in 0 .. MaxLines /\ fails \in 0 .. MaxFails
        /\ stamp \in [Writers -> 0 .. MaxLines]
    BY <2>2, BoundAssumption DEF BoundAssumption
  <2>6. Stamped
    BY <2>4 DEF Stamped
  <2>7. LogTypeOK
    BY <2>2, <2>3, <2>4, <2>5 DEF LogTypeOK
  <2>8. QED
    BY <2>1, <2>6, <2>7
<1>2. Shape /\ NoLog /\ LogTypeOK /\ Stamped /\ [LogNext]_logVars
        => (Shape /\ NoLog /\ LogTypeOK /\ Stamped)'
  BY ShapeStep, NoLogStep, LogTypeStep
<1>3. QED
  BY <1>1, <1>2, PTL DEF LogSpec

(***************************************************************************)
(* The composition                                                         *)
(***************************************************************************)

\* A step of the composition is a step of one part and leaves the others alone.
THEOREM PartsAreParts == Spec => WanSpec /\ ViewSpec /\ ZoneSpec /\ LogSpec
<1>1. Init => WanInit /\ ViewInit /\ ZoneInit /\ LogInit
  BY DEF Init, WanRests, ViewRests, ZoneRests, LogRests
<1>2. [Next]_vars => [WanNext]_wanVars /\ [ViewNext]_viewVars /\ [ZoneNext]_zoneVars /\ [LogNext]_logVars
  BY Zenon DEF Next, vars
<1>3. QED
  BY <1>1, <1>2, PTL DEF Spec, WanSpec, ViewSpec, ZoneSpec, LogSpec

\* The caller of the server keeps its type.
LEMMA PeerTypeCorrect == Spec => [](peer \in Calls \cup {Nobody})
<1>1. Init => peer \in Calls \cup {Nobody}
  BY Zenon DEF Init, PeerRests
<1>2. peer \in Calls \cup {Nobody} /\ [Next]_vars => (peer \in Calls \cup {Nobody})'
  BY Zenon DEF Next, vars, PeerRests
<1>3. QED
  BY <1>1, <1>2, PTL DEF Spec

\* Every part keeps its types in the composition.
THEOREM TypeCorrect == Spec => []TypeOK
<1>1. WanTypeOK /\ ViewTypeOK /\ ZoneTypeOK /\ LogTypeOK /\ peer \in Calls \cup {Nobody} => TypeOK
  BY DEF TypeOK
<1>2. QED
  BY <1>1, PartsAreParts, WanTypeCorrect, ViewTypeCorrect, ZoneTypeCorrect, LogTypeCorrect,
     PeerTypeCorrect, PTL

\* The server serves a caller exactly if a block of its allowlist that parses has
\* the caller's address in its range, for any callers and lists (cidr.go:22-46).
THEOREM CallersInRange == Spec => []AllowedIffInRange
<1>1. peer \in Calls \cup {Nobody} => AllowedIffInRange
  <2> SUFFICES ASSUME peer \in Calls \cup {Nobody}
               PROVE  AllowedIffInRange
    OBVIOUS
  <2>1. peer.ip \in IPv4 \cup {<<>>} /\ peer.blocks \in SUBSET [net : IPv4, prefix : -1 .. 32]
    <3>1. CASE peer \in Calls
      <4>1. peer.ip \in Peers /\ peer.blocks \in Lists
        BY <3>1 DEF Calls
      <4>2. QED
        BY <4>1, PeersAssumption, ListsAssumption, Zenon DEF PeersAssumption, ListsAssumption
    <3>2. CASE peer = Nobody
      <4>1. peer.ip = <<>> /\ peer.blocks = {}
        BY <3>2 DEF Nobody
      <4>2. QED
        BY <4>1, Zenon
    <3>3. QED
      BY <3>1, <3>2
  <2>2. QED
    BY <2>1, AllowedInRange, Zenon DEF AllowedIffInRange
<1>2. QED
  BY <1>1, PeerTypeCorrect, PTL

\* What each part promises holds in the composition.
THEOREM PartsCorrect ==
  Spec => [](/\ NothingReserved /\ OnDefaultRoute
             /\ HardwareSuffices /\ NoStranger /\ UdmAlwaysOpens
             /\ ReadsRecord
             /\ RecentKept /\ OwnOrder /\ SizeBounded)
BY PartsAreParts, NothingReservedFound, DetectedOnRoute, HardwareOpens, StrangersStayOut, UdmOpens,
   RecordIsRead, LatestAreKept, OrderIsKept, LogIsBounded, PTL
=============================================================================
