--------------------------- MODULE Features_proofs ---------------------------
(***************************************************************************)
(* Proofs about Features, whichever of them a behaviour follows, for all   *)
(* links, files, keys, requests and bounds: type correctness, that what a  *)
(* feature remembers as reported is what the twin shows, that the twin and *)
(* the local status are current, that a refused reset is not performed,    *)
(* that a setting is saved when it is reported, and that the loop they run *)
(* on is one of TwinConnection.                                            *)
(***************************************************************************)
EXTENDS Features, TLAPS, WellFoundedInduction, SequenceTheorems

\* The steps of a handler at which it may be connect_twin that runs.
ConnectSteps ==
  {"describe", "units", "ble", "paths", "status", "general", "request", "history", "report"}

\* The loop: who is connected has a client and a sender.
LoopInv ==
  /\ connecting => client /\ tx /\ ~auth /\ pc \in ConnectSteps
  /\ proc = "down" => ~tx
  /\ reported \in Seq(Range(reported))

Up == proc = "up"

\* What the feature remembers and the twin shows.
CacheInv == auth => Holds(Shown, [k \in DOMAIN cache \ {"fleet_id"} |-> cache[k]])

\* A Tick makes the feature look again, or what it has read is what there is.
NetworkInv ==
  feature = "network" =>
    /\ Up => /\ source # "unused"
             /\ web = cache \/ (web = Nothing /\ cache = [interfaces |-> {}])
    /\ auth /\ pc \in {"idle", "reload"} => cache = NetworkView \/ TickComing \/ missed
    /\ pc = "report" => seen = NetworkView \/ TickComing \/ missed

\* What is in file is not parsed, was shown, or will be looked at.
ShownFile(file) == file \in DOMAIN Shown /\ Shown[file] = world[file]
FileCurrent(file) == world[file] = Torn \/ file \in events \/ ShownFile(file)

\* The service alone writes general consent, and the handlers of connect_twin
\* report one file after the other.
ConsentInv ==
  feature = "consent" =>
    /\ cache = Nothing /\ events \subseteq Watched
    /\ pc = "write" => /\ \E consent \in Consents : seen = [general_consent |-> consent]
                       /\ world.general_consent = Torn
    /\ pc = "saved" => /\ world.general_consent # Torn
                       /\ seen = [general_consent |-> world.general_consent]
    /\ auth /\ pc # "saved" => world.general_consent = Torn \/ ShownFile("general_consent")
    /\ auth => \A file \in Watched : FileCurrent(file)
    /\ connecting /\ pc \in {"request", "history"} =>
         world.general_consent = Torn \/ ShownFile("general_consent")
    /\ connecting /\ pc = "history" => FileCurrent("user_consent_request")

\* The boot time is known, or the event that tells of it is there.
SystemInv ==
  feature = "system_info" =>
    /\ "synchronized" \in events => world
    /\ Up => /\ web = cache /\ "boot_time" \in DOMAIN cache
             /\ cache.boot_time = world \/ "synchronized" \in events

\* A handler that is interrupted leaves a change that is missed.
WaitOnlineInv ==
  feature = "wait_online" =>
    /\ cache = Nothing
    /\ pc = "write" => \E timeout \in Timeouts : seen = [wait_online_timeout_secs |-> timeout]
    /\ Up /\ pc = "idle" => web = WaitOnlineView \/ missed
    /\ auth /\ pc = "idle" => Holds(Shown, WaitOnlineView) \/ missed

\* The numbers of requests: what was refused was never stored.
RequestInv ==
  feature = "factory_reset" =>
    /\ world.refused \cup world.performed \subseteq 1..world.asked
    /\ world.request \in 0..world.asked
    /\ world.refused \cap (world.performed \cup {world.request}) = {}

\* What there is to report of the result w holds.
ResetFields(w) == IF w.result = NoReset THEN {"keys"} ELSE {"keys", "result"}

\* The keys are those of the configuration, or an event tells of it, or a write
\* in place or a failing read was missed.
ResetInv ==
  feature = "factory_reset" /\ Up =>
    /\ web = cache /\ DOMAIN cache = ResetFields(world)
    /\ "result" \in DOMAIN cache => cache["result"] = world.result
    /\ cache.keys = KeysOf(world) \/ "factory-reset.d" \in events \/ missed

\* As in WaitOnlineInv.
CaInv ==
  feature = "ssh_ca" =>
    /\ cache = Nothing
    /\ pc = "tee" => \E ca \in Cas : seen = [ca_pub |-> ca]
    /\ auth /\ pc = "idle" => Holds(Shown, CaView) \/ missed

IInv ==
  /\ TypeOK /\ LoopInv /\ CacheInv /\ NetworkInv /\ ConsentInv /\ SystemInv
  /\ WaitOnlineInv /\ RequestInv /\ ResetInv /\ CaInv

-----------------------------------------------------------------------------
USE FeaturesAssumption, ReportingAssumption, ResetsAssumption, ConsentsAssumption

(* Patches, and the twin that they make.                                   *)

\* One patch merged into another.
LEMMA MergedPatches ==
  ASSUME NEW p, NEW q
  PROVE  /\ DOMAIN Merged(p, q) = DOMAIN p \cup DOMAIN q
         /\ \A k \in DOMAIN q : Merged(p, q)[k] = q[k]
         /\ \A k \in DOMAIN p \ DOMAIN q : Merged(p, q)[k] = p[k]
         /\ IsPatch(p) /\ IsPatch(q) => IsPatch(Merged(p, q))
<1>1. /\ DOMAIN Merged(p, q) = DOMAIN p \cup DOMAIN q
      /\ \A k \in DOMAIN q : Merged(p, q)[k] = q[k]
      /\ \A k \in DOMAIN p \ DOMAIN q : Merged(p, q)[k] = p[k]
  BY DEF Merged
<1>2. ASSUME IsPatch(p), IsPatch(q) PROVE IsPatch(Merged(p, q))
  BY <1>1, <1>2 DEF IsPatch
<1> QED
  BY <1>1, <1>2

\* A set of positions has a last one.
LEMMA LastPosition ==
  ASSUME NEW n \in Nat, NEW S \in SUBSET (1..n), S # {}
  PROVE  Max(S) \in S /\ \A y \in S : y <= Max(S)
<1> DEFINE T == {n - i : i \in S}
<1>1. T \in SUBSET Nat /\ T # {}
  <2>1. \A i \in S : n - i \in Nat
    OBVIOUS
  <2> QED
    BY <2>1
<1>2. \A x, y \in Nat : <<x, y>> \in OpToRel(<, Nat) <=> x < y
  BY DEF OpToRel
<1> HIDE DEF T
<1>3. PICK t \in T : \A y \in T : ~(<<y, t>> \in OpToRel(<, Nat))
  BY <1>1, NatLessThanWellFounded, WFMin
<1>4. \A y \in T : ~(y < t)
  BY <1>1, <1>2, <1>3
<1>5. PICK i \in S : t = n - i
  BY DEF T
<1>6. ASSUME NEW y \in S PROVE y <= i
  <2>1. n - y \in T
    BY DEF T
  <2> QED
    BY <1>4, <1>5, <2>1
<1> QED
  BY <1>6 DEF Max

\* The last position is the one that is not before any other.
LEMMA LastPositionIs ==
  ASSUME NEW n \in Nat, NEW S \in SUBSET (1..n), NEW m \in S, \A y \in S : y <= m
  PROVE  Max(S) = m
<1>1. Max(S) \in S /\ \A y \in S : y <= Max(S)
  BY LastPosition
<1> DEFINE x == Max(S)
<1>2. x \in S /\ m <= x
  BY <1>1
<1> HIDE DEF x
<1>3. x \in 1..n /\ m \in 1..n /\ x <= m
  BY <1>2
<1>4. x = m
  BY <1>2, <1>3
<1> QED
  BY <1>4 DEF x

\* Naming and Shown, of any twin and any patches.
NamingIn(patches, k) == {i \in DOMAIN patches : k \in DOMAIN patches[i]}
ShownBy(twin, patches) ==
  [k \in DOMAIN twin \cup UNION {DOMAIN patches[i] : i \in DOMAIN patches} |->
     IF NamingIn(patches, k) = {} THEN twin[k] ELSE patches[Max(NamingIn(patches, k))][k]]

\* These are those of the model, before and after a step.
LEMMA ShownIs ==
  Shown = ShownBy(cloud, reported) /\ Shown' = ShownBy(cloud', reported')
BY DEF Shown, ShownBy, Naming, NamingIn

\* What is shown is of the twin or of a patch.
LEMMA ShownValue ==
  ASSUME NEW S, NEW patches \in Seq(S), NEW twin
  PROVE  /\ \A k : k \in DOMAIN ShownBy(twin, patches)
                     <=> k \in DOMAIN twin \/ NamingIn(patches, k) # {}
         /\ \A k \in DOMAIN twin :
              NamingIn(patches, k) = {} => ShownBy(twin, patches)[k] = twin[k]
         /\ \A k : \A m \in NamingIn(patches, k) :
              (\A i \in NamingIn(patches, k) : i <= m) => ShownBy(twin, patches)[k] = patches[m][k]
         /\ \A k : NamingIn(patches, k) # {} =>
              \E m \in NamingIn(patches, k) : \A i \in NamingIn(patches, k) : i <= m
<1> DEFINE all == DOMAIN twin \cup UNION {DOMAIN patches[i] : i \in DOMAIN patches}
<1>1. \A k : k \in all <=> k \in DOMAIN twin \/ NamingIn(patches, k) # {}
  BY DEF NamingIn
<1>2. Len(patches) \in Nat /\ \A k : NamingIn(patches, k) \in SUBSET (1..Len(patches))
  BY DEF NamingIn
<1>3. \A k : \A m \in NamingIn(patches, k) :
        (\A i \in NamingIn(patches, k) : i <= m) => Max(NamingIn(patches, k)) = m
  BY <1>2, LastPositionIs
<1>4. \A k : NamingIn(patches, k) # {} =>
        \E m \in NamingIn(patches, k) : \A i \in NamingIn(patches, k) : i <= m
  BY <1>2, LastPosition
<1>5. /\ DOMAIN ShownBy(twin, patches) = all
      /\ \A k \in all : ShownBy(twin, patches)[k] =
           IF NamingIn(patches, k) = {} THEN twin[k]
           ELSE patches[Max(NamingIn(patches, k))][k]
  BY DEF ShownBy
<1> HIDE DEF all
<1>6. ASSUME NEW k, NEW m \in NamingIn(patches, k), \A i \in NamingIn(patches, k) : i <= m
      PROVE  ShownBy(twin, patches)[k] = patches[m][k]
  <2>1. Max(NamingIn(patches, k)) = m /\ k \in all /\ NamingIn(patches, k) # {}
    BY <1>1, <1>3, <1>6
  <2> QED
    BY <1>5, <2>1
<1> QED
  BY <1>1, <1>4, <1>5, <1>6

\* A patch more: its values are shown, and those it does not name as before.
LEMMA ShownAppend ==
  ASSUME NEW S, NEW patches \in Seq(S), NEW twin, NEW p
  PROVE  /\ \A k \in DOMAIN p : /\ k \in DOMAIN ShownBy(twin, Append(patches, p))
                                /\ ShownBy(twin, Append(patches, p))[k] = p[k]
         /\ \A k \in DOMAIN ShownBy(twin, patches) \ DOMAIN p :
              /\ k \in DOMAIN ShownBy(twin, Append(patches, p))
              /\ ShownBy(twin, Append(patches, p))[k] = ShownBy(twin, patches)[k]
<1> DEFINE n == Len(patches)  more == Append(patches, p)
<1>1. /\ n \in Nat /\ DOMAIN patches = 1..n /\ DOMAIN more = 1..(n + 1)
      /\ \A i \in 1..n : more[i] = patches[i]
      /\ more[n + 1] = p /\ more \in Seq(S \cup {p})
  OBVIOUS
<1> HIDE DEF n, more
<1>2. ASSUME NEW k \in DOMAIN p
      PROVE  k \in DOMAIN ShownBy(twin, more) /\ ShownBy(twin, more)[k] = p[k]
  <2>1. n + 1 \in NamingIn(more, k) /\ \A i \in NamingIn(more, k) : i <= n + 1
    BY <1>1, <1>2 DEF NamingIn
  <2> QED
    BY <1>1, <2>1, ShownValue
<1>3. ASSUME NEW k \in DOMAIN ShownBy(twin, patches), k \notin DOMAIN p
      PROVE  /\ k \in DOMAIN ShownBy(twin, more)
             /\ ShownBy(twin, more)[k] = ShownBy(twin, patches)[k]
  <2>1. NamingIn(more, k) = NamingIn(patches, k)
    BY <1>1, <1>3 DEF NamingIn
  <2>2. k \in DOMAIN ShownBy(twin, more)
    BY <1>1, <1>3, <2>1, ShownValue
  <2>3. CASE NamingIn(patches, k) = {}
    BY <1>1, <1>3, <2>1, <2>3, ShownValue
  <2>4. CASE NamingIn(patches, k) # {}
    <3>1. PICK m \in NamingIn(patches, k) : \A i \in NamingIn(patches, k) : i <= m
      BY <2>4, ShownValue
    <3>2. ShownBy(twin, patches)[k] = patches[m][k] /\ ShownBy(twin, more)[k] = more[m][k]
      BY <1>1, <2>1, <3>1, ShownValue
    <3>3. more[m] = patches[m]
      BY <1>1 DEF NamingIn
    <3> QED
      BY <2>2, <3>2, <3>3
  <2> QED
    BY <2>3, <2>4, <2>2
<1> QED
  BY <1>2, <1>3 DEF more

\* A patch that reaches the twin is shown as before.
LEMMA ShownTail ==
  ASSUME NEW S, NEW patches \in Seq(S), patches # <<>>, NEW twin,
         NEW k \in DOMAIN ShownBy(twin, patches)
  PROVE  /\ k \in DOMAIN ShownBy(Merged(twin, Head(patches)), Tail(patches))
         /\ ShownBy(Merged(twin, Head(patches)), Tail(patches))[k] = ShownBy(twin, patches)[k]
<1> DEFINE n == Len(patches)  h == Head(patches)  t == Tail(patches)  to == Merged(twin, h)
<1>1. /\ n \in Nat \ {0} /\ DOMAIN patches = 1..n /\ DOMAIN t = 1..(n - 1)
      /\ \A i \in 1..(n - 1) : t[i] = patches[i + 1]
      /\ h = patches[1] /\ t \in Seq(S)
  OBVIOUS
<1> HIDE DEF n, h, t
<1>2. /\ DOMAIN to = DOMAIN twin \cup DOMAIN h
      /\ \A j \in DOMAIN h : to[j] = h[j]
      /\ \A j \in DOMAIN twin \ DOMAIN h : to[j] = twin[j]
  BY MergedPatches
<1> HIDE DEF to
<1>3. \A i \in 1..(n - 1) : i \in NamingIn(t, k) <=> i + 1 \in NamingIn(patches, k)
  BY <1>1 DEF NamingIn
<1>4. NamingIn(t, k) \subseteq 1..(n - 1) /\ NamingIn(patches, k) \subseteq 1..n
  BY <1>1 DEF NamingIn
<1>5. 1 \in NamingIn(patches, k) <=> k \in DOMAIN h
  BY <1>1 DEF NamingIn
<1>6. CASE NamingIn(t, k) # {}
  <2>1. PICK m \in NamingIn(t, k) : \A i \in NamingIn(t, k) : i <= m
    BY <1>1, <1>6, ShownValue
  <2>2. m + 1 \in NamingIn(patches, k) /\ m \in 1..(n - 1)
    BY <1>3, <1>4
  <2>3. ASSUME NEW i \in NamingIn(patches, k) PROVE i <= m + 1
    <3>1. CASE i = 1
      BY <2>2, <3>1
    <3>2. CASE i # 1
      <4>1. i - 1 \in 1..(n - 1) /\ (i - 1) + 1 = i
        BY <1>1, <1>4, <3>2
      <4>2. i - 1 \in NamingIn(t, k)
        BY <1>3, <4>1
      <4>3. i - 1 <= m
        BY <2>1, <4>2
      <4> QED
        BY <2>2, <4>1, <4>3
    <3> QED
      BY <3>1, <3>2
  <2>4. ShownBy(twin, patches)[k] = patches[m + 1][k]
    BY <2>2, <2>3, ShownValue
  <2>5. k \in DOMAIN ShownBy(to, t) /\ ShownBy(to, t)[k] = t[m][k]
    BY <1>1, <2>1, ShownValue
  <2> QED
    BY <1>1, <2>2, <2>4, <2>5 DEF to, h, t
<1>7. CASE NamingIn(t, k) = {}
  <2>1. \A i \in NamingIn(patches, k) : i = 1
    <3> SUFFICES ASSUME NEW i \in NamingIn(patches, k), i # 1 PROVE FALSE
      OBVIOUS
    <3>1. i - 1 \in 1..(n - 1) /\ (i - 1) + 1 = i
      BY <1>1, <1>4
    <3> QED
      BY <1>3, <1>7, <3>1
  <2>2. CASE k \in DOMAIN h
    <3>1. ShownBy(twin, patches)[k] = patches[1][k]
      BY <1>5, <2>1, <2>2, ShownValue
    <3>2. k \in DOMAIN ShownBy(to, t) /\ ShownBy(to, t)[k] = to[k]
      BY <1>1, <1>2, <1>7, <2>2, ShownValue
    <3> QED
      BY <1>1, <1>2, <2>2, <3>1, <3>2 DEF to, h, t
  <2>3. CASE k \notin DOMAIN h
    <3>1. NamingIn(patches, k) = {}
      BY <1>5, <2>1, <2>3
    <3>2. k \in DOMAIN twin /\ ShownBy(twin, patches)[k] = twin[k]
      BY <3>1, ShownValue
    <3>3. k \in DOMAIN ShownBy(to, t) /\ ShownBy(to, t)[k] = to[k]
      BY <1>1, <1>2, <1>7, <3>2, ShownValue
    <3> QED
      BY <1>2, <2>3, <3>2, <3>3 DEF to, h, t
  <2> QED
    BY <2>2, <2>3
<1> QED
  BY <1>6, <1>7

\* The twin has the properties of the features, and no others.
LEMMA ShownPatch ==
  ASSUME NEW S, NEW patches \in Seq(S), \A i \in DOMAIN patches : IsPatch(patches[i]),
         NEW twin, IsPatch(twin)
  PROVE  IsPatch(ShownBy(twin, patches))
<1> SUFFICES ASSUME NEW k \in DOMAIN ShownBy(twin, patches)
             PROVE  k \in DOMAIN Values /\ ShownBy(twin, patches)[k] \in Values[k]
  BY DEF IsPatch
<1>1. CASE NamingIn(patches, k) = {}
  <2>1. k \in DOMAIN twin /\ ShownBy(twin, patches)[k] = twin[k]
    BY <1>1, ShownValue
  <2> QED
    BY <2>1 DEF IsPatch
<1>2. CASE NamingIn(patches, k) # {}
  <2>1. PICK m \in NamingIn(patches, k) : \A i \in NamingIn(patches, k) : i <= m
    BY <1>2, ShownValue
  <2>2. ShownBy(twin, patches)[k] = patches[m][k]
    BY <2>1, ShownValue
  <2>3. m \in DOMAIN patches /\ k \in DOMAIN patches[m]
    BY DEF NamingIn
  <2> QED
    BY <2>2, <2>3 DEF IsPatch
<1> QED
  BY <1>1, <1>2

-----------------------------------------------------------------------------
(* The actions, by the feature that takes them                             *)

NetworkActions ==
  \/ NetworkNew \/ Describe \/ DescribeFails \/ NetworkUnchanged \/ NetworkReport
  \/ ReloadNetwork \/ NetworkReloaded \/ NetworkReloadHangs \/ LinkChanges

WifiActions ==
  \/ WifiNew \/ WifiUnits \/ WifiUnitsFail \/ WifiServiceInfo \/ WifiUnreachable
  \/ WifiReport \/ WifiUnitChanges \/ WifiApiChanges

ModemActions ==
  \/ ModemNew \/ ModemPaths \/ ModemStatus \/ ModemVanished \/ ModemQueryFails
  \/ ModemUnchanged \/ ModemReport \/ ModemChanges

ProvisioningActions ==
  \/ ProvisioningNew \/ ProvisioningConnect \/ Refresh
  \/ CertificateWritten \/ CertificateRemoved \/ CertificatesLost

ConsentActions ==
  \/ ConsentNew \/ ConsentConnect \/ ConsentUnparsable \/ ConsentEvent
  \/ DesiredGeneralConsent \/ SaveGeneralConsent \/ SaveFails \/ ReportGeneralConsent
  \/ UserConsent \/ ConsentToolTruncates \/ ConsentToolWrites

SystemActions ==
  SystemNew \/ SystemConnect \/ ClockSynchronised \/ FleetId \/ Synchronises

WaitOnlineActions ==
  \/ WaitOnlineNew \/ SetWaitOnlineTimeout \/ WriteTimeout \/ WriteTimeoutFails
  \/ ReportTimeout

ResetActions ==
  \/ ResetNew \/ ResetConnect \/ KeysModified \/ ResetToFactorySettings
  \/ RebootRequested \/ Reboot \/ RebootTargetFails \/ DeviceReboots \/ PowerCycle
  \/ CustomConfigChanges

CaActions == CaNew \/ UpdateDeviceSshCa \/ TeeExits \/ TeeFails \/ CaReport

LoopActions ==
  \/ Kill \/ Stop \/ ConnectClient \/ Authenticated \/ SoftLoss \/ HardLoss \/ Drain
  \/ Tick \/ Notified \/ StreamWork \/ StreamBreaks \/ UNCHANGED vars

\* Every step is one of these.
LEMMA Steps ==
  ASSUME [Next]_vars
  PROVE  \/ LoopActions \/ NetworkActions \/ WifiActions \/ ModemActions
         \/ ProvisioningActions \/ ConsentActions \/ SystemActions
         \/ WaitOnlineActions \/ ResetActions \/ CaActions
BY DEF Next, Starts, HandlerSteps, Commands, Requests, Failures, World, LoopActions,
       NetworkActions, WifiActions, ModemActions, ProvisioningActions, ConsentActions,
       SystemActions, WaitOnlineActions, ResetActions, CaActions

\* A feature takes its own actions only.
LEMMA Owners ==
  /\ NetworkActions => feature = "network"
  /\ WifiActions => feature = "wifi"
  /\ ModemActions => feature = "modem"
  /\ ProvisioningActions => feature = "provisioning"
  /\ ConsentActions => feature = "consent"
  /\ SystemActions => feature = "system_info"
  /\ WaitOnlineActions => feature = "wait_online"
  /\ ResetActions => feature = "factory_reset"
  /\ CaActions => feature = "ssh_ca"
<1> USE DEF At, Ready, New
<1>1. NetworkActions => feature = "network"
  BY DEF NetworkActions, NetworkNew, Describe, DescribeFails, NetworkUnchanged,
         NetworkReport, ReloadNetwork, NetworkReloaded, NetworkReloadHangs, LinkChanges
<1>2. WifiActions => feature = "wifi"
  BY DEF WifiActions, WifiNew, WifiUnits, WifiUnitsFail, WifiServiceInfo,
         WifiUnreachable, WifiReport, WifiUnitChanges, WifiApiChanges
<1>3. ModemActions => feature = "modem"
  BY DEF ModemActions, ModemNew, ModemPaths, ModemStatus, ModemVanished,
         ModemQueryFails, ModemUnchanged, ModemReport, ModemChanges
<1>4. ProvisioningActions => feature = "provisioning"
  BY DEF ProvisioningActions, ProvisioningNew, ProvisioningConnect, Refresh,
         CertificateWritten, CertificateRemoved, CertificatesLost
<1>5. ConsentActions => feature = "consent"
  BY DEF ConsentActions, ConsentNew, ConsentConnect, ConsentUnparsable, ConsentEvent,
         DesiredGeneralConsent, SaveGeneralConsent, SaveFails, ReportGeneralConsent,
         UserConsent, ConsentToolTruncates, ConsentToolWrites
<1>6. SystemActions => feature = "system_info"
  BY DEF SystemActions, SystemNew, SystemConnect, ClockSynchronised, FleetId, Synchronises
<1>7. WaitOnlineActions => feature = "wait_online"
  BY DEF WaitOnlineActions, WaitOnlineNew, SetWaitOnlineTimeout, WriteTimeout,
         WriteTimeoutFails, ReportTimeout
<1>8. ResetActions => feature = "factory_reset"
  BY DEF ResetActions, ResetNew, ResetConnect, KeysModified, ResetToFactorySettings,
         RebootRequested, Reboot, RebootTargetFails, DeviceReboots, PowerCycle,
         CustomConfigChanges
<1>9. CaActions => feature = "ssh_ca"
  BY DEF CaActions, CaNew, UpdateDeviceSshCa, TeeExits, TeeFails, CaReport
<1> QED
  BY <1>1, <1>2, <1>3, <1>4, <1>5, <1>6, <1>7, <1>8, <1>9

-----------------------------------------------------------------------------
(* The loop                                                                *)

Control ==
  /\ feature \in Features /\ proc \in {"up", "down"}
  /\ {client, auth, tx, connecting, waiting} \subseteq BOOLEAN
  /\ proc = "down" => pc = "idle" /\ ~client /\ reported = <<>>
  /\ auth => client /\ tx
  /\ connecting => pc # "idle"
  /\ \A i \in DOMAIN reported : IsPatch(reported[i])
  /\ IsPatch(cloud)

Data ==
  /\ missed \in BOOLEAN
  /\ IsPatch(web) /\ IsPatch(cache) /\ IsPatch(seen)
  /\ world \in Worlds[feature]
  /\ events \subseteq Watched \cup {"synchronized", "factory-reset.d"}
  /\ \A k \in DOMAIN budget : budget[k] \in Nat
  /\ StreamTypeOK

\* The two halves of the types.
LEMMA TypeOKIs == TypeOK <=> Control /\ Data
BY DEF TypeOK, Control, Data

\* What a handler sends: nothing, or one patch.
Sendable(patches) == patches = <<>> \/ \E p : IsPatch(p) /\ patches = <<p>>

\* A sequence with an element more, or one less, has a range of its own.
LEMMA Ranges ==
  /\ \A s : \A p : s \in Seq(Range(s)) =>
       /\ Append(s, p) \in Seq(Range(Append(s, p))) /\ s \o <<p>> = Append(s, p)
       /\ s \o <<>> = s
  /\ \A s : s \in Seq(Range(s)) /\ s # <<>> => Tail(s) \in Seq(Range(Tail(s)))
  /\ <<>> \in Seq(Range(<<>>))
<1>1. ASSUME NEW s, NEW p, s \in Seq(Range(s))
      PROVE  /\ Append(s, p) \in Seq(Range(Append(s, p))) /\ s \o <<p>> = Append(s, p)
             /\ s \o <<>> = s
  <2> DEFINE S == Range(s) \cup {p}
  <2>1. s \in Seq(S) /\ p \in S
    BY <1>1
  <2> HIDE DEF S
  <2>2. s \o <<p>> = Append(s, p) /\ s \o <<>> = s
    BY <2>1, AppendIsConcat, ConcatEmptySeq
  <2>3. Append(s, p) \in Seq(S)
    BY <2>1
  <2>4. Append(s, p) \in Seq(Range(Append(s, p)))
    <3> DEFINE t == Append(s, p)
    <3>1. t \in Seq(S) /\ \A i \in 1..Len(t) : t[i] \in Range(t)
      BY <2>3 DEF Range
    <3> HIDE DEF t
    <3> QED
      BY <3>1 DEF t
  <2> QED
    BY <2>2, <2>4
<1>2. ASSUME NEW s, s \in Seq(Range(s)), s # <<>>
      PROVE  Tail(s) \in Seq(Range(Tail(s)))
  <2> DEFINE t == Tail(s)  S == Range(s)
  <2>1. s \in Seq(S)
    BY <1>2
  <2> HIDE DEF S
  <2>2. t \in Seq(S)
    BY <1>2, <2>1
  <2> HIDE DEF t
  <2>3. Len(t) \in Nat /\ DOMAIN t = 1..Len(t) /\ t = [i \in 1..Len(t) |-> t[i]]
    BY <2>2
  <2>4. \A i \in 1..Len(t) : t[i] \in Range(t)
    BY <2>3 DEF Range
  <2>5. t \in Seq(Range(t))
    BY <2>3, <2>4, IsASeq
  <2> QED
    BY <2>5 DEF t
<1>3. <<>> \in Seq(Range(<<>>))
  OBVIOUS
<1> QED
  BY <1>1, <1>2, <1>3

\* The channel after a handler has sent.
LEMMA SendIs ==
  ASSUME LoopInv, NEW patches, Sendable(patches), Send(patches),
         \A i \in DOMAIN reported : IsPatch(reported[i])
  PROVE  /\ reported' \in Seq(Range(reported'))
         /\ \A i \in DOMAIN reported' : IsPatch(reported'[i])
         /\ \/ reported' = reported /\ (tx => patches = <<>>)
            \/ tx /\ \E p : IsPatch(p) /\ patches = <<p>> /\ reported' = Append(reported, p)
<1>1. reported \in Seq(Range(reported))
  BY DEF LoopInv
<1>2. CASE reported' = reported /\ (tx => patches = <<>>)
  BY <1>1, <1>2
<1>3. ASSUME tx, NEW p, IsPatch(p), patches = <<p>>
      PROVE  /\ reported' \in Seq(Range(reported'))
             /\ \A i \in DOMAIN reported' : IsPatch(reported'[i])
             /\ reported' = Append(reported, p)
  <2>1. reported' = reported \o <<p>>
    BY <1>3 DEF Send
  <2>3. reported \o <<p>> = Append(reported, p)
    BY <1>1, Ranges
  <2>4. Append(reported, p) \in Seq(Range(Append(reported, p)))
    BY <1>1, Ranges
  <2>5. reported' = Append(reported, p) /\ reported' \in Seq(Range(reported'))
    BY <2>1, <2>3, <2>4
  <2>2. ASSUME NEW i \in DOMAIN reported' PROVE IsPatch(reported'[i])
    <3>1. /\ Len(reported) \in Nat /\ DOMAIN reported = 1..Len(reported)
          /\ DOMAIN reported' = 1..(Len(reported) + 1)
          /\ reported'[i] = IF i \in DOMAIN reported THEN reported[i] ELSE p
      BY <1>1, <2>5
    <3> QED
      BY <1>3, <3>1
  <2> QED
    BY <2>5, <2>2
<1>4. reported \o <<>> = reported
  BY <1>1, Ranges
<1> QED
  BY <1>2, <1>3, <1>4 DEF Sendable, Send

\* A patch that is sent is shown, and without one nothing changes.
ShownKept == \A k \in DOMAIN Shown : k \in DOMAIN Shown' /\ Shown'[k] = Shown[k]
ShownPatched(p) ==
  /\ \A k \in DOMAIN p : k \in DOMAIN Shown' /\ Shown'[k] = p[k]
  /\ \A k \in DOMAIN Shown \ DOMAIN p : k \in DOMAIN Shown' /\ Shown'[k] = Shown[k]

\* What the twin shows while it and the channel stay as they are.
LEMMA ShownSame ==
  ASSUME cloud' = cloud, reported' = reported
  PROVE  ShownKept
<1>1. Shown' = Shown
  BY ShownIs
<1> QED
  BY <1>1 DEF ShownKept

\* After an empty send.
LEMMA SentNothing ==
  ASSUME LoopInv, cloud' = cloud, Send(<<>>)
  PROVE  reported' = reported /\ ShownKept
<1>1. reported \o <<>> = reported
  BY Ranges DEF LoopInv
<1> QED
  BY <1>1, ShownSame DEF Send

\* After a patch.
LEMMA SentPatch ==
  ASSUME LoopInv, cloud' = cloud, tx, NEW p, Send(<<p>>)
  PROVE  ShownPatched(p)
<1>1. reported' = Append(reported, p)
  BY Ranges DEF LoopInv, Send
<1> DEFINE S == Range(reported)
<1>2. reported \in Seq(S)
  BY DEF LoopInv
<1> HIDE DEF S
<1>3. ShownPatched(p)
  <2>1. Shown' = ShownBy(cloud, Append(reported, p)) /\ Shown = ShownBy(cloud, reported)
    BY <1>1, ShownIs
  <2> QED
    BY <1>2, <2>1, ShownAppend DEF ShownPatched
<1> QED
  BY <1>3

\* The report at the head of the channel reaches the twin.
LEMMA Delivered ==
  ASSUME LoopInv, reported # <<>>, reported' = Tail(reported),
         cloud' = Merged(cloud, Head(reported))
  PROVE  ShownKept
<1> DEFINE S == Range(reported)
<1>1. reported \in Seq(S)
  BY DEF LoopInv
<1> HIDE DEF S
<1>2. /\ Shown = ShownBy(cloud, reported)
      /\ Shown' = ShownBy(Merged(cloud, Head(reported)), Tail(reported))
  BY ShownIs
<1>3. ASSUME NEW k \in DOMAIN ShownBy(cloud, reported)
      PROVE  /\ k \in DOMAIN ShownBy(Merged(cloud, Head(reported)), Tail(reported))
             /\ ShownBy(Merged(cloud, Head(reported)), Tail(reported))[k]
                  = ShownBy(cloud, reported)[k]
  BY <1>1, ShownTail
<1> QED
  BY <1>2, <1>3 DEF ShownKept

\* The twin as it is shown is a patch itself.
LEMMA ShownIsPatch ==
  ASSUME LoopInv, Control
  PROVE  IsPatch(Shown)
<1> DEFINE S == Range(reported)
<1>1. reported \in Seq(S) /\ IsPatch(cloud) /\ \A i \in DOMAIN reported : IsPatch(reported[i])
  BY DEF LoopInv, Control
<1> HIDE DEF S
<1> QED
  BY <1>1, ShownPatch, ShownIs

-----------------------------------------------------------------------------
(* The loop, in the ways that a step may leave it                          *)

\* A step of a handler.
LEMMA ContinueLoop ==
  ASSUME Control, LoopInv, proc = "up", NEW step, step # "idle",
         connecting => step \in ConnectSteps,
         NEW patches, Sendable(patches), Continue(step, patches)
  PROVE  Control' /\ LoopInv'
<1>1. /\ reported' \in Seq(Range(reported'))
      /\ \A i \in DOMAIN reported' : IsPatch(reported'[i])
  BY SendIs DEF Continue, Control
<1>2. pc' = step /\ UNCHANGED <<loopVars, cloud>>
  BY DEF Continue
<1>3. Control'
  BY <1>1, <1>2 DEF Control, loopVars
<1>4. LoopInv'
  BY <1>1, <1>2 DEF LoopInv, loopVars
<1> QED
  BY <1>3, <1>4

\* The end of a handler.
LEMMA FinishLoop ==
  ASSUME Control, LoopInv, proc = "up",
         NEW patches, Sendable(patches), Finish(patches)
  PROVE  Control' /\ LoopInv'
<1>1. /\ reported' \in Seq(Range(reported'))
      /\ \A i \in DOMAIN reported' : IsPatch(reported'[i])
  BY SendIs DEF Finish, Control
<1>2. /\ pc' = "idle" /\ connecting' = FALSE /\ auth' = (auth \/ connecting)
      /\ UNCHANGED <<feature, proc, client, tx, waiting, cloud>>
  BY DEF Finish
<1>3. Control'
  BY <1>1, <1>2 DEF Control, LoopInv
<1>4. LoopInv'
  BY <1>1, <1>2 DEF LoopInv
<1> QED
  BY <1>3, <1>4

\* The end of the process.
LEMMA ExitLoop ==
  ASSUME Control, Exit, IsPatch(cloud')
  PROVE  Control' /\ LoopInv'
<1>1. reported' = <<>> /\ <<>> \in Seq(Range(<<>>)) /\ DOMAIN reported' = {}
  BY Ranges DEF Exit
<1>2. Control'
  BY <1>1 DEF Control, Exit
<1>3. LoopInv'
  BY <1>1 DEF LoopInv, Exit
<1> QED
  BY <1>2, <1>3

\* The channel and the twin stay, and with them the rest but client and pc.
LEMMA SameLoop ==
  ASSUME Control, LoopInv, UNCHANGED <<loopVars, pc, reported, cloud>>
  PROVE  Control' /\ LoopInv'
<1>1. UNCHANGED <<feature, proc, client, auth, tx, connecting, waiting>>
  BY DEF loopVars
<1> QED
  BY <1>1 DEF Control, LoopInv

\* A handler that fails.
LEMMA FailLoop ==
  ASSUME Control, LoopInv, proc = "up", NEW lost, Fail(lost)
  PROVE  Control' /\ LoopInv'
<1>1. CASE connecting /\ Exit
  <2>1. IsPatch(cloud')
    BY DEF Fail, Control
  <2> QED
    BY <1>1, <2>1, ExitLoop
<1>2. CASE /\ ~connecting /\ pc' = "idle" /\ UNCHANGED <<loopVars, reported>>
  <2>1. UNCHANGED <<feature, proc, client, auth, tx, connecting, waiting, reported, cloud>>
    BY <1>2 DEF loopVars, Fail
  <2> QED
    BY <1>2, <2>1 DEF Control, LoopInv
<1> QED
  BY <1>1, <1>2 DEF Fail

\* The process starts.
LEMMA NewLoop ==
  ASSUME Control, LoopInv, NEW f, NEW initial, NEW published, NEW kind,
         New(f, initial, published, kind)
  PROVE  Control' /\ LoopInv' /\ ~auth' /\ ~connecting' /\ pc' = "idle"
<1>1. /\ proc = "down" /\ proc' = "up"
      /\ UNCHANGED <<feature, client, auth, tx, pc, connecting, waiting, reported, cloud>>
  BY DEF New
<1>2. ~auth /\ ~connecting /\ pc = "idle"
  BY <1>1 DEF Control
<1> QED
  BY <1>1, <1>2 DEF Control, LoopInv

-----------------------------------------------------------------------------
(* Types of the pieces                                                     *)

\* The patches that the features make.
LEMMA Patches ==
  /\ IsPatch(Nothing)
  /\ \A v \in Values["interfaces"] : IsPatch([interfaces |-> v])
  /\ \A v \in Values["modems"] : IsPatch([modems |-> v])
  /\ \A v \in Values["expires"] : IsPatch([expires |-> v])
  /\ \A v \in Values["general_consent"] : IsPatch([general_consent |-> v])
  /\ \A v \in Values["boot_time"] : IsPatch([boot_time |-> v])
  /\ \A v \in Values["fleet_id"] : IsPatch([fleet_id |-> v])
  /\ \A v \in Values["wait_online_timeout_secs"] :
       IsPatch([wait_online_timeout_secs |-> v])
  /\ \A v \in Values["keys"] : IsPatch([keys |-> v])
  /\ \A v \in Values["keys"], r \in Values["result"] :
       IsPatch([keys |-> v, result |-> r])
  /\ \A v \in Values["ca_pub"] : IsPatch([ca_pub |-> v])
  /\ \A v \in Values["ble_enabled"] : IsPatch([ble_enabled |-> v])
  /\ \A v \in Values["running"] : IsPatch([running |-> v])
  /\ \A v \in Values["running"], i \in Values["interface"] :
       IsPatch([running |-> v, interface |-> i])
<1>1. /\ DOMAIN Nothing = {}
      /\ DOMAIN Values =
           {"interfaces", "running", "interface", "ble_enabled", "modems", "expires",
            "general_consent", "user_consent_request", "user_consent_history",
            "boot_time", "fleet_id", "wait_online_timeout_secs", "keys", "result",
            "ca_pub"}
  BY DEF Values, Nothing
<1> QED
  BY <1>1 DEF IsPatch

\* The values that the properties may have.
LEMMA ValuesAre ==
  /\ Values["interfaces"] = SUBSET [name : Links, online : BOOLEAN]
  /\ Values["running"] = BOOLEAN /\ Values["interface"] = Wlans
  /\ Values["ble_enabled"] = BOOLEAN /\ Values["modems"] = SUBSET Modems
  /\ Values["expires"] = Certificates \cup {"unknown"}
  /\ Values["general_consent"] = Consents
  /\ Values["user_consent_request"] = {"old", "new"}
  /\ Values["user_consent_history"] = {"old", "new"}
  /\ Values["boot_time"] = BOOLEAN /\ Values["fleet_id"] = FleetIds
  /\ Values["wait_online_timeout_secs"] = Timeouts \cup {DefaultTimeout}
  /\ Values["keys"] = SUBSET (Keys \cup {"applications"})
  /\ Values["result"] = 0..MaxResets /\ Values["ca_pub"] = CaWorlds
BY DEF Values

\* The worlds of the features.
LEMMA WorldsAre ==
  /\ Worlds["network"] = NetworkWorlds /\ Worlds["wifi"] = WifiWorlds
  /\ Worlds["modem"] = SUBSET Modems /\ Worlds["provisioning"] = SUBSET Certificates
  /\ Worlds["consent"] = ConsentWorlds /\ Worlds["system_info"] = SystemWorlds
  /\ Worlds["wait_online"] = WaitOnlineWorlds /\ Worlds["factory_reset"] = ResetWorlds
  /\ Worlds["ssh_ca"] = CaWorlds
BY DEF Worlds

\* A bound that is spent stays a number.
LEMMA SpendIs ==
  ASSUME \A k \in DOMAIN budget : budget[k] \in Nat, NEW what,
         UNCHANGED budget \/ Spend(what)
  PROVE  \A k \in DOMAIN budget' : budget'[k] \in Nat
<1>1. CASE UNCHANGED budget
  BY <1>1
<1>2. CASE Spend(what)
  <2>1. budget[what] > 0 /\ budget' = [budget EXCEPT ![what] = budget[what] - 1]
    BY <1>2 DEF Spend
  <2>2. ASSUME NEW k \in DOMAIN budget' PROVE budget'[k] \in Nat
    BY <2>1
  <2> QED
    BY <2>2
<1> QED
  BY <1>1, <1>2

\* What the task of a stream does, and the bus to it.
LEMMA StreamIs ==
  ASSUME StreamTypeOK
  PROVE  /\ UNCHANGED streamVars => StreamTypeOK'
         /\ Signal => StreamTypeOK' /\ source' = source
                      /\ (source = "open" => TickComing') /\ (TickComing => TickComing')
         /\ TakeTick => StreamTypeOK' /\ source' = source
         /\ Resolve \/ Arm \/ Elapse \/ Emit =>
              StreamTypeOK' /\ (source' = "unused" => source = "unused")
              /\ (TickComing => TickComing')
         /\ ResolveFails => StreamTypeOK' /\ (source' = "unused" => source = "unused")
                            /\ (TickComing => TickComing')
         /\ SourceEnds => StreamTypeOK' /\ (source' = "unused" => source = "unused")
                          /\ (TickComing => TickComing' \/ deadline)
         /\ \A kind \in {"unused", "pending", "open", "gone"} :
              Spawned(kind) => StreamTypeOK'
<1> USE DEF StreamTypeOK, TickComing
<1>1. UNCHANGED streamVars => StreamTypeOK'
  BY DEF streamVars
<1>2. Signal => StreamTypeOK' /\ source' = source
                /\ (source = "open" => TickComing') /\ (TickComing => TickComing')
  <2> SUFFICES ASSUME Signal
               PROVE  /\ StreamTypeOK' /\ source' = source
                      /\ (source = "open" => TickComing') /\ (TickComing => TickComing')
    OBVIOUS
  <2>1. signals' = (signals \/ source = "open") /\ UNCHANGED <<source, deadline, emitting, queue>>
    BY DEF Signal
  <2>2. CASE source = "open"
    BY <2>1, <2>2
  <2>3. CASE source # "open"
    BY <2>1, <2>3
  <2> QED
    BY <2>2, <2>3
<1>3. TakeTick => StreamTypeOK' /\ source' = source
  BY DEF TakeTick
<1>4. Resolve \/ Arm \/ Elapse \/ Emit =>
        StreamTypeOK' /\ (source' = "unused" => source = "unused")
        /\ (TickComing => TickComing')
  <2>1. CASE Resolve
    BY <2>1 DEF Resolve
  <2>2. CASE Arm
    BY <2>2 DEF Arm
  <2>3. CASE Elapse
    BY <2>3 DEF Elapse
  <2>4. CASE Emit
    <3>1. queue = 0 /\ queue' = 1 /\ emitting' = FALSE /\ UNCHANGED <<source, signals, deadline>>
      BY <2>4 DEF Emit
    <3>2. queue' \in 0..1 /\ queue' > 0
      BY <3>1
    <3>3. emitting' \in BOOLEAN
      BY <3>1
    <3> QED
      BY <3>1, <3>2, <3>3
  <2> QED
    BY <2>1, <2>2, <2>3, <2>4
<1>5. ResolveFails => StreamTypeOK' /\ (source' = "unused" => source = "unused")
                      /\ (TickComing => TickComing')
  BY DEF ResolveFails
<1>6. SourceEnds => StreamTypeOK' /\ (source' = "unused" => source = "unused")
                    /\ (TickComing => TickComing' \/ deadline)
  BY DEF SourceEnds
<1>7. ASSUME NEW kind \in {"unused", "pending", "open", "gone"}, Spawned(kind)
      PROVE  StreamTypeOK'
  <2>1. source' = kind /\ signals' = FALSE /\ deadline' = FALSE /\ emitting' = FALSE /\ queue' = 0
    BY <1>7 DEF Spawned
  <2>2. source' \in {"unused", "pending", "open", "gone"}
    BY <1>7, <2>1
  <2>3. queue' \in 0..1
    BY <2>1
  <2>4. signals' \in BOOLEAN /\ deadline' \in BOOLEAN /\ emitting' \in BOOLEAN
    BY <2>1
  <2> QED
    BY <2>2, <2>3, <2>4
<1> QED
  BY <1>1, <1>2, <1>3, <1>4, <1>5, <1>6, <1>7

\* The data that a step leaves as they are.
LEMMA DataIs ==
  ASSUME Data, feature' = feature, missed' \in BOOLEAN,
         IsPatch(web'), IsPatch(cache'), IsPatch(seen'), world' \in Worlds[feature],
         events' \subseteq events \cup Watched \cup {"synchronized", "factory-reset.d"},
         NEW what, UNCHANGED budget \/ Spend(what), StreamTypeOK'
  PROVE  Data'
<1>1. \A k \in DOMAIN budget' : budget'[k] \in Nat
  BY SpendIs DEF Data
<1>2. events' \subseteq Watched \cup {"synchronized", "factory-reset.d"}
  BY DEF Data
<1> QED
  BY <1>1, <1>2 DEF Data

\* The end of the process leaves no data but the world.
LEMMA ExitData ==
  ASSUME Data, Exit, world' \in Worlds[feature], NEW what, UNCHANGED budget \/ Spend(what)
  PROVE  Data'
<1>1. StreamTypeOK'
  BY StreamIs DEF Exit, Data
<1>2. IsPatch(web') /\ IsPatch(cache') /\ IsPatch(seen')
  BY Patches DEF Exit
<1>3. feature' = feature /\ missed' \in BOOLEAN /\ events' = {}
  BY DEF Exit
<1> QED
  BY <1>1, <1>2, <1>3, DataIs

\* A handler that fails leaves the data of the feature, or none.
LEMMA FailData ==
  ASSUME Data, NEW lost \in BOOLEAN, Fail(lost), world' = world,
         NEW what, UNCHANGED budget \/ Spend(what)
  PROVE  Data'
<1>1. world' \in Worlds[feature]
  BY DEF Data
<1>2. CASE Exit
  BY <1>1, <1>2, ExitData
<1>3. CASE /\ missed' = (missed \/ lost)
           /\ UNCHANGED <<loopVars, web, cache, seen, events, streamVars>>
  <2>1. StreamTypeOK' /\ missed' \in BOOLEAN
    BY <1>3, StreamIs DEF Data
  <2>2. feature' = feature
    BY <1>3 DEF loopVars
  <2>3. IsPatch(web') /\ IsPatch(cache') /\ IsPatch(seen') /\ events' = events
    BY <1>3 DEF Data
  <2> QED
    BY <1>1, <2>1, <2>2, <2>3, DataIs
<1> QED
  BY <1>2, <1>3 DEF Fail

-----------------------------------------------------------------------------
(* The steps of the loop itself                                            *)

\* A step that leaves the feature alone.
Quiet ==
  /\ UNCHANGED <<feature, proc, pc, connecting, web, world, cache, seen, events>>
  /\ auth' => auth
  /\ auth' \/ connecting' => ShownKept
  /\ missed => missed'
  /\ source' = "unused" => source = "unused"
  /\ TickComing /\ feature \notin Ticking => TickComing' \/ missed'

\* A step that begins its first handler.
Begins ==
  /\ proc = "up" /\ pc = "idle" /\ pc' = FirstStep[feature]
  /\ UNCHANGED <<feature, proc, auth, web, world, cache, seen, events, missed, source>>
  /\ ShownKept

Exits == Exit /\ world' = world

\* What comes first is a step of connect_twin.
LEMMA FirstSteps ==
  ASSUME Control
  PROVE  FirstStep[feature] \in ConnectSteps /\ FirstStep[feature] # "idle"
BY DEF Control, FirstStep, ConnectSteps

\* A step that changes the loop at most in what belongs to the client.
LEMMA QuietStep ==
  ASSUME Control, LoopInv, Data,
         UNCHANGED <<feature, proc, tx, connecting, waiting, pc, web, world, cache, seen,
                     events, missed, streamVars>>,
         NEW what, UNCHANGED budget \/ Spend(what), auth' => auth,
         (client => client' /\ auth' = auth) \/ ~auth',
         auth' \/ connecting => ShownKept
  PROVE  Data' /\ Quiet
<1>1. /\ web' = web /\ world' = world /\ cache' = cache /\ seen' = seen /\ events' = events
      /\ missed' = missed /\ feature' = feature /\ UNCHANGED streamVars
  OBVIOUS
<1>2. StreamTypeOK' /\ source' = source /\ TickComing' = TickComing
  <2>1. UNCHANGED <<source, signals, deadline, emitting, queue>>
    BY <1>1 DEF streamVars
  <2> QED
    BY <1>1, <2>1, StreamIs DEF Data, TickComing
<1>3. IsPatch(web') /\ IsPatch(cache') /\ IsPatch(seen') /\ missed' \in BOOLEAN
      /\ world' \in Worlds[feature]
  BY <1>1 DEF Data
<1>4. Data'
  BY <1>1, <1>2, <1>3, DataIs
<1>5. Quiet
  BY <1>1, <1>2 DEF Quiet
<1> QED
  BY <1>4, <1>5

\* A step that begins a handler.
LEMMA BeginStep ==
  ASSUME Control, LoopInv, Data, Idle,
         pc' = FirstStep[feature], StreamTypeOK', cloud' = cloud, reported' = reported,
         UNCHANGED <<feature, proc, auth, web, world, cache, seen, events, missed, source,
                     budget>>
  PROVE  Data' /\ Begins
<1>1. ShownKept
  BY ShownSame
<1>2. Begins
  BY <1>1 DEF Begins, Idle
<1>3. IsPatch(web') /\ IsPatch(cache') /\ IsPatch(seen') /\ missed' \in BOOLEAN
      /\ world' \in Worlds[feature] /\ events' = events /\ feature' = feature
      /\ budget' = budget
  BY DEF Data
<1>4. Data'
  BY <1>3, DataIs
<1> QED
  BY <1>2, <1>4

\* Every step of the loop.
LEMMA LoopStep ==
  ASSUME Control, LoopInv, Data, LoopActions
  PROVE  Control' /\ LoopInv' /\ Data' /\ (Quiet \/ Begins \/ Exits)
<1>1. CASE Kill
  <2>1. Exit /\ cloud' = cloud /\ world' = world /\ Spend("disruptions")
    BY <1>1 DEF Kill
  <2>2. IsPatch(cloud') /\ world' \in Worlds[feature]
    BY <2>1 DEF Control, Data
  <2> QED
    BY <2>1, <2>2, ExitLoop, ExitData DEF Exits
<1>2. CASE Stop
  <2>1. Exit /\ world' = world /\ Spend("disruptions") /\ cloud' \in {cloud, Shown}
    BY <1>2 DEF Stop
  <2>2. IsPatch(cloud') /\ world' \in Worlds[feature]
    BY <2>1, ShownIsPatch DEF Control, Data
  <2> QED
    BY <2>1, <2>2, ExitLoop, ExitData DEF Exits
<1>3. CASE ConnectClient
  <2>1. /\ Idle /\ client' = TRUE /\ cloud' = cloud /\ reported' = reported
        /\ UNCHANGED <<feature, proc, auth, tx, connecting, waiting, pc, reported, cloud,
                       web, cache, seen, events, missed, world, budget, streamVars>>
    BY <1>3 DEF ConnectClient, worldVars
  <2>2. ShownKept
    BY <2>1, ShownSame
  <2>3. Data' /\ Quiet
    BY <2>1, <2>2, QuietStep
  <2>4. Control' /\ LoopInv'
    BY <2>1 DEF Control, LoopInv, Idle
  <2> QED
    BY <2>3, <2>4
<1>4. CASE Authenticated
  <2>1. /\ Idle /\ client /\ ~auth /\ tx' = TRUE /\ connecting' = TRUE
        /\ pc' = FirstStep[feature] /\ cloud' = cloud /\ reported' = reported
        /\ UNCHANGED <<feature, proc, client, auth, waiting, web, cache, seen, events,
                       missed, world, budget, streamVars>>
    BY <1>4 DEF Authenticated, worldVars
  <2>2. StreamTypeOK' /\ source' = source
    <3>1. UNCHANGED streamVars
      BY <2>1
    <3> QED
      BY <3>1, StreamIs DEF Data, streamVars
  <2>3. Data' /\ Begins
    BY <2>1, <2>2, BeginStep
  <2>4. Control'
    BY <2>1, FirstSteps DEF Control, Idle
  <2>5. LoopInv'
    BY <2>1, FirstSteps DEF LoopInv, Idle
  <2> QED
    BY <2>3, <2>4, <2>5
<1>5. CASE SoftLoss \/ HardLoss
  <2>1. /\ Idle /\ auth' = FALSE /\ Spend("disruptions")
        /\ client' \in {client, FALSE}
        /\ UNCHANGED <<feature, proc, tx, connecting, waiting, pc, reported, cloud,
                       web, world, cache, seen, events, missed, streamVars>>
    BY <1>5 DEF SoftLoss, HardLoss
  <2>2. ~connecting
    BY <2>1 DEF Control, Idle
  <2>3. Data' /\ Quiet
    BY <2>1, <2>2, QuietStep
  <2>4. Control' /\ LoopInv'
    BY <2>1, <2>2 DEF Control, LoopInv, Idle
  <2> QED
    BY <2>3, <2>4
<1>6. CASE Drain
  <2>1. /\ Idle /\ reported # <<>> /\ reported' = Tail(reported)
        /\ (cloud' = Merged(cloud, Head(reported))) \/ (~auth /\ cloud' = cloud)
           \/ (~client /\ cloud' = cloud)
        /\ UNCHANGED <<feature, proc, client, auth, tx, connecting, waiting, pc, web, cache,
                       seen, events, missed, world, budget, streamVars>>
    BY <1>6 DEF Drain, worldVars, loopVars
  <2>2. ~connecting /\ proc = "up"
    BY <2>1 DEF Control, Idle
  <2>3. auth => cloud' = Merged(cloud, Head(reported))
    BY <2>1 DEF Control
  <2>4. auth' => ShownKept
    BY <2>1, <2>3, Delivered
  <2>5. Data' /\ Quiet
    BY <2>1, <2>2, <2>4, QuietStep
  <2>6. reported' \in Seq(Range(reported')) /\ \A i \in DOMAIN reported' : IsPatch(reported'[i])
    <3>1. reported \in Seq(Range(reported)) /\ \A i \in DOMAIN reported : IsPatch(reported[i])
      BY DEF LoopInv, Control
    <3>2. reported' \in Seq(Range(reported'))
      BY <2>1, <3>1, Ranges
    <3>3. /\ Len(reported) \in Nat /\ DOMAIN reported = 1..Len(reported)
          /\ DOMAIN Tail(reported) = 1..(Len(reported) - 1)
          /\ \A i \in 1..(Len(reported) - 1) : Tail(reported)[i] = reported[i + 1]
      BY <2>1, <3>1
    <3>4. ASSUME NEW i \in DOMAIN reported' PROVE IsPatch(reported'[i])
      <4>1. i + 1 \in DOMAIN reported /\ reported'[i] = reported[i + 1]
        BY <2>1, <3>3
      <4> QED
        BY <3>1, <4>1
    <3> QED
      BY <3>2, <3>4
  <2>7. IsPatch(cloud')
    <3>1. IsPatch(cloud) /\ IsPatch(Head(reported))
      <4>1. reported \in Seq(Range(reported)) /\ \A i \in DOMAIN reported : IsPatch(reported[i])
        BY DEF LoopInv, Control
      <4>2. 1 \in DOMAIN reported /\ Head(reported) = reported[1]
        BY <2>1, <4>1
      <4> QED
        BY <4>1, <4>2 DEF Control
    <3> QED
      BY <2>1, <3>1, MergedPatches
  <2>8. Control'
    BY <2>1, <2>2, <2>6, <2>7 DEF Control
  <2>9. LoopInv'
    BY <2>1, <2>2, <2>6 DEF LoopInv
  <2> QED
    BY <2>5, <2>8, <2>9
<1>7. CASE Tick \/ Notified
  <2>1. /\ Idle /\ Continue(FirstStep[feature], <<>>)
        /\ UNCHANGED <<web, cache, seen, events, missed, world, budget>>
        /\ UNCHANGED streamVars \/ TakeTick
    BY <1>7 DEF Tick, Notified, Ready, worldVars
  <2>2. /\ pc' = FirstStep[feature] /\ UNCHANGED <<feature, proc, auth, cloud>> /\ Send(<<>>)
    BY <2>1 DEF Continue, loopVars
  <2>3. reported' = reported
    BY <2>2, SentNothing
  <2>4. StreamTypeOK' /\ source' = source
    BY <2>1, StreamIs DEF Data, streamVars
  <2>5. Data' /\ Begins
    BY <2>1, <2>2, <2>3, <2>4, BeginStep
  <2>6. Sendable(<<>>) /\ proc = "up"
    BY <2>1 DEF Sendable, Idle
  <2>7. Control' /\ LoopInv'
    BY <2>1, <2>6, FirstSteps, ContinueLoop
  <2> QED
    BY <2>5, <2>7
<1>8. CASE StreamWork \/ StreamBreaks \/ UNCHANGED vars
  <2>1. UNCHANGED <<loopVars, pc, reported, cloud, web, world, cache, seen, events>>
    BY <1>8 DEF StreamWork, StreamBreaks, vars, worldVars
  <2>2. UNCHANGED <<feature, proc, auth, connecting, pc, web, world, cache, seen, events>>
    BY <2>1 DEF loopVars
  <2>3. ShownKept
    BY <2>1, ShownSame
  <2>4. UNCHANGED budget \/ Spend("disruptions")
    BY <1>8 DEF StreamWork, StreamBreaks, vars, worldVars
  <2>5. /\ StreamTypeOK' /\ (source' = "unused" => source = "unused")
        /\ missed' \in BOOLEAN /\ (missed => missed')
        /\ TickComing /\ feature \notin Ticking => TickComing' \/ missed'
    <3>1. CASE StreamWork
      <4>1. (Resolve \/ Arm \/ Elapse \/ Emit) /\ missed' = missed
        BY <3>1 DEF StreamWork
      <4> QED
        BY <4>1, StreamIs DEF Data
    <3>2. CASE StreamBreaks /\ ResolveFails /\ UNCHANGED missed
      BY <3>2, StreamIs DEF Data
    <3>3. CASE SourceEnds /\ missed' = (missed \/ (deadline /\ feature \notin Ticking))
      <4>1. missed \in BOOLEAN /\ deadline \in BOOLEAN
        BY DEF Data, StreamTypeOK
      <4>2. StreamTypeOK' /\ (source' = "unused" => source = "unused")
            /\ (TickComing => TickComing' \/ deadline)
        BY <3>3, StreamIs DEF Data
      <4> QED
        BY <3>3, <4>1, <4>2
    <3>4. CASE UNCHANGED vars
      <4>1. UNCHANGED streamVars /\ missed' = missed
        BY <3>4 DEF vars
      <4>2. UNCHANGED <<source, signals, deadline, emitting, queue>>
        BY <4>1 DEF streamVars
      <4> QED
        BY <4>1, <4>2, StreamIs DEF Data, TickComing
    <3> QED
      BY <1>8, <3>1, <3>2, <3>3, <3>4 DEF StreamBreaks
  <2>6. Data'
    <3>1. IsPatch(web') /\ IsPatch(cache') /\ IsPatch(seen') /\ events' = events
          /\ world' \in Worlds[feature] /\ feature' = feature
      BY <2>2 DEF Data
    <3> QED
      BY <2>4, <2>5, <3>1, DataIs
  <2>7. Quiet
    BY <2>2, <2>3, <2>5 DEF Quiet
  <2>8. Control' /\ LoopInv'
    BY <2>1, SameLoop
  <2> QED
    BY <2>6, <2>7, <2>8
<1> QED
  BY <1>1, <1>2, <1>3, <1>4, <1>5, <1>6, <1>7, <1>8 DEF LoopActions

\* The invariants of the features, which hold together.
FeatureInvs ==
  /\ CacheInv /\ NetworkInv /\ ConsentInv /\ SystemInv /\ WaitOnlineInv
  /\ RequestInv /\ ResetInv /\ CaInv

\* The views are of the world.
LEMMA SameViews ==
  ASSUME world' = world
  PROVE  /\ NetworkView' = NetworkView /\ WaitOnlineView' = WaitOnlineView
         /\ CaView' = CaView
         /\ \A file : world'[file] = world[file]
BY DEF NetworkView, Interfaces, WaitOnlineView, Timeout, CaView

\* What is remembered, key by key.
LEMMA CacheIs ==
  /\ CacheInv <=> (auth => \A k \in DOMAIN cache \ {"fleet_id"} :
                             k \in DOMAIN Shown /\ Shown[k] = cache[k])
  /\ CacheInv' <=> (auth' => \A k \in DOMAIN cache' \ {"fleet_id"} :
                               k \in DOMAIN Shown' /\ Shown'[k] = cache'[k])
<1>1. CacheInv <=> (auth => \A k \in DOMAIN cache \ {"fleet_id"} :
                             k \in DOMAIN Shown /\ Shown[k] = cache[k])
  BY DEF CacheInv, Holds
<1>2. CacheInv' <=> (auth' => \A k \in DOMAIN cache' \ {"fleet_id"} :
                               k \in DOMAIN Shown' /\ Shown'[k] = cache'[k])
  BY DEF CacheInv, Holds
<1> QED
  BY <1>1, <1>2

\* It stays true while the twin shows what it showed,
LEMMA CacheKept ==
  ASSUME CacheInv, cache' = cache, auth' => auth /\ ShownKept
  PROVE  CacheInv'
BY CacheIs DEF ShownKept

\* and when what was sent is remembered.
LEMMA CacheSent ==
  ASSUME auth' => ShownPatched(cache')
  PROVE  CacheInv'
BY CacheIs DEF ShownPatched

\* A feature that remembers nothing.
LEMMA CacheEmpty ==
  ASSUME cache' = Nothing
  PROVE  CacheInv'
<1>1. DOMAIN cache' = {}
  BY DEF Nothing
<1> QED
  BY <1>1, CacheIs

\* What was shown of a patch still is.
LEMMA HoldsKept ==
  ASSUME NEW p, Holds(Shown, p), ShownKept
  PROVE  Holds(Shown', p)
BY DEF Holds, ShownKept

\* The steps of the loop preserve the invariants of the features.
LEMMA QuietInvs ==
  ASSUME Control, FeatureInvs, Quiet
  PROVE  FeatureInvs'
<1>1. /\ UNCHANGED <<feature, proc, pc, connecting, web, world, cache, seen, events>>
      /\ auth' => auth
      /\ auth' \/ connecting' => ShownKept
      /\ missed => missed'
      /\ source' = "unused" => source = "unused"
      /\ TickComing /\ feature \notin Ticking => TickComing' \/ missed'
  BY DEF Quiet
<1>2. /\ NetworkView' = NetworkView /\ WaitOnlineView' = WaitOnlineView /\ CaView' = CaView
  BY <1>1, SameViews
<1>3. CacheInv'
  BY <1>1, CacheKept DEF FeatureInvs
<1>4. NetworkInv'
  <2>1. NetworkInv
    BY DEF FeatureInvs
  <2> QED
    BY <1>1, <1>2, <2>1 DEF NetworkInv, Up, Ticking
<1>5. ConsentInv'
  <2>1. ConsentInv
    BY DEF FeatureInvs
  <2>2. \A file : ShownKept /\ ShownFile(file) => ShownFile(file)'
    BY <1>1 DEF ShownFile, ShownKept
  <2>3. \A file : ShownKept /\ FileCurrent(file) => FileCurrent(file)'
    BY <1>1, <2>2 DEF FileCurrent
  <2> SUFFICES ASSUME feature' = "consent" PROVE ConsentInv'
    BY DEF ConsentInv
  <2>4. feature = "consent"
    BY <1>1
  <2> QED
    BY <1>1, <2>1, <2>2, <2>3, <2>4 DEF ConsentInv
<1>6. SystemInv'
  BY <1>1 DEF FeatureInvs, SystemInv, Up
<1>7. WaitOnlineInv'
  <2>1. WaitOnlineInv
    BY DEF FeatureInvs
  <2>2. Holds(Shown, WaitOnlineView) /\ ShownKept => Holds(Shown', WaitOnlineView)
    BY HoldsKept
  <2>3. (Holds(Shown, WaitOnlineView))' <=> Holds(Shown', WaitOnlineView)
    BY <1>2
  <2> QED
    BY <1>1, <1>2, <2>1, <2>2, <2>3 DEF WaitOnlineInv, Up
<1>8. RequestInv'
  BY <1>1 DEF FeatureInvs, RequestInv
<1>9. ResetInv'
  BY <1>1 DEF FeatureInvs, ResetInv, Up, KeysOf, ResetFields
<1>10. CaInv'
  <2>1. CaInv
    BY DEF FeatureInvs
  <2>2. Holds(Shown, CaView) /\ ShownKept => Holds(Shown', CaView)
    BY HoldsKept
  <2>3. (Holds(Shown, CaView))' <=> Holds(Shown', CaView)
    BY <1>2
  <2> QED
    BY <1>1, <1>2, <2>1, <2>2, <2>3 DEF CaInv
<1> QED
  BY <1>3, <1>4, <1>5, <1>6, <1>7, <1>8, <1>9, <1>10 DEF FeatureInvs

\* As does the begin of a handler.
LEMMA BeginInvs ==
  ASSUME Control, FeatureInvs, Begins
  PROVE  FeatureInvs'
<1>1. /\ proc = "up" /\ pc = "idle" /\ pc' = FirstStep[feature]
      /\ UNCHANGED <<feature, proc, auth, web, world, cache, seen, events, missed, source>>
      /\ ShownKept /\ feature \in Features
  BY DEF Begins, Control
<1>2. CacheInv'
  BY <1>1, CacheKept DEF FeatureInvs
<1>3. NetworkInv'
  <2> SUFFICES ASSUME feature = "network" PROVE NetworkInv'
    BY <1>1 DEF NetworkInv
  <2>1. pc' = "describe"
    BY <1>1 DEF FirstStep
  <2>2. NetworkInv
    BY DEF FeatureInvs
  <2> QED
    BY <1>1, <2>1, <2>2 DEF NetworkInv, Up
<1>4. ConsentInv'
  <2>1. ConsentInv
    BY DEF FeatureInvs
  <2>2. \A file : ShownFile(file) => ShownFile(file)'
    BY <1>1 DEF ShownFile, ShownKept
  <2>3. \A file : FileCurrent(file) => FileCurrent(file)'
    BY <1>1, <2>2 DEF FileCurrent
  <2> SUFFICES ASSUME feature = "consent" PROVE ConsentInv'
    BY <1>1 DEF ConsentInv
  <2>4. pc' = "general"
    BY <1>1 DEF FirstStep
  <2> QED
    BY <1>1, <2>1, <2>2, <2>3, <2>4 DEF ConsentInv
<1>5. SystemInv'
  BY <1>1 DEF FeatureInvs, SystemInv, Up
<1>6. WaitOnlineInv'
  <2> SUFFICES ASSUME feature = "wait_online" PROVE WaitOnlineInv'
    BY <1>1 DEF WaitOnlineInv
  <2>1. pc' = "report"
    BY <1>1 DEF FirstStep
  <2> QED
    BY <1>1, <2>1 DEF FeatureInvs, WaitOnlineInv
<1>7. RequestInv'
  BY <1>1 DEF FeatureInvs, RequestInv
<1>8. ResetInv'
  BY <1>1 DEF FeatureInvs, ResetInv, Up, KeysOf, ResetFields
<1>9. CaInv'
  <2> SUFFICES ASSUME feature = "ssh_ca" PROVE CaInv'
    BY <1>1 DEF CaInv
  <2>1. pc' = "report"
    BY <1>1 DEF FirstStep
  <2> QED
    BY <1>1, <2>1 DEF FeatureInvs, CaInv
<1> QED
  BY <1>2, <1>3, <1>4, <1>5, <1>6, <1>7, <1>8, <1>9 DEF FeatureInvs

\* The end of the process leaves nothing that they are about but requests.
LEMMA ExitInvs ==
  ASSUME Exit, RequestInv'
  PROVE  FeatureInvs'
<1>1. /\ proc' = "down" /\ auth' = FALSE /\ pc' = "idle" /\ connecting' = FALSE
      /\ cache' = Nothing /\ events' = {}
  BY DEF Exit
<1>2. ~Up'
  BY <1>1 DEF Up
<1>3. CacheInv'
  BY <1>1, CacheIs
<1>4. NetworkInv'
  BY <1>1, <1>2 DEF NetworkInv
<1>5. ConsentInv'
  BY <1>1 DEF ConsentInv
<1>6. SystemInv'
  BY <1>1, <1>2 DEF SystemInv
<1>7. WaitOnlineInv'
  BY <1>1, <1>2 DEF WaitOnlineInv
<1>8. ResetInv'
  BY <1>2 DEF ResetInv
<1>9. CaInv'
  BY <1>1 DEF CaInv
<1> QED
  BY <1>3, <1>4, <1>5, <1>6, <1>7, <1>8, <1>9 DEF FeatureInvs

-----------------------------------------------------------------------------
(* The steps of the handlers, whatever their feature                       *)

\* A feature is bound by its own invariant only.
LEMMA OwnInv ==
  /\ CacheInv' /\ feature' \in {"wifi", "modem", "provisioning"} => FeatureInvs'
  /\ CacheInv' /\ feature' = "network" /\ NetworkInv' => FeatureInvs'
  /\ CacheInv' /\ feature' = "consent" /\ ConsentInv' => FeatureInvs'
  /\ CacheInv' /\ feature' = "system_info" /\ SystemInv' => FeatureInvs'
  /\ CacheInv' /\ feature' = "wait_online" /\ WaitOnlineInv' => FeatureInvs'
  /\ CacheInv' /\ feature' = "factory_reset" /\ RequestInv' /\ ResetInv' => FeatureInvs'
  /\ CacheInv' /\ feature' = "ssh_ca" /\ CaInv' => FeatureInvs'
BY DEF FeatureInvs, NetworkInv, ConsentInv, SystemInv, WaitOnlineInv, RequestInv,
       ResetInv, CaInv

\* The process starts.
LEMMA NewIs ==
  ASSUME Control, NEW f, NEW initial, NEW published,
         NEW kind \in {"unused", "pending", "open", "gone"},
         New(f, initial, published, kind)
  PROVE  /\ feature = f /\ feature' = feature /\ proc' = "up" /\ pc' = "idle"
         /\ auth' = FALSE /\ connecting' = FALSE /\ cache' = initial /\ web' = published
         /\ source' = kind
         /\ UNCHANGED <<world, budget, seen, events, missed>>
         /\ Data /\ IsPatch(initial) /\ IsPatch(published) => Data'
         /\ CacheInv'
<1>1. /\ feature = f /\ feature' = feature /\ proc = "down" /\ proc' = "up"
      /\ cache' = initial /\ web' = published /\ source' = kind /\ Spawned(kind)
      /\ UNCHANGED <<client, auth, pc, connecting, world, budget, seen, events, missed>>
  BY DEF New, Spawned, worldVars
<1>2. auth = FALSE /\ connecting = FALSE /\ pc = "idle"
  BY <1>1 DEF Control
<1>3. ASSUME Data, IsPatch(initial), IsPatch(published)
      PROVE  Data'
  <2>1. StreamTypeOK'
    BY <1>1, <1>3, StreamIs DEF Data
  <2>2. IsPatch(web') /\ IsPatch(cache') /\ IsPatch(seen') /\ missed' \in BOOLEAN
        /\ world' \in Worlds[feature] /\ events' = events /\ budget' = budget
    BY <1>1, <1>3 DEF Data
  <2> QED
    BY <1>1, <1>3, <2>1, <2>2, DataIs
<1>4. CacheInv'
  BY <1>1, <1>2, CacheIs
<1> QED
  BY <1>1, <1>2, <1>3, <1>4

\* A handler goes on without a report,
LEMMA ContinueIs ==
  ASSUME LoopInv, NEW step, Continue(step, <<>>)
  PROVE  /\ pc' = step /\ ShownKept
         /\ UNCHANGED <<feature, proc, client, auth, tx, connecting, waiting, cloud, reported>>
<1>1. /\ pc' = step /\ Send(<<>>)
      /\ UNCHANGED <<feature, proc, client, auth, tx, connecting, waiting, cloud>>
  BY DEF Continue, loopVars
<1> QED
  BY <1>1, SentNothing

\* or with one,
LEMMA ContinueWithIs ==
  ASSUME Control, LoopInv, NEW step, NEW p, Continue(step, <<p>>)
  PROVE  /\ pc' = step /\ (auth \/ connecting => ShownPatched(p))
         /\ UNCHANGED <<feature, proc, client, auth, tx, connecting, waiting, cloud>>
<1>1. /\ pc' = step /\ Send(<<p>>)
      /\ UNCHANGED <<feature, proc, client, auth, tx, connecting, waiting, cloud>>
  BY DEF Continue, loopVars
<1>2. auth \/ connecting => tx
  BY DEF Control, LoopInv
<1> QED
  BY <1>1, <1>2, SentPatch

\* and ends without one,
LEMMA FinishIs ==
  ASSUME LoopInv, Finish(<<>>)
  PROVE  /\ pc' = "idle" /\ connecting' = FALSE /\ auth' = (auth \/ connecting)
         /\ ShownKept
         /\ UNCHANGED <<feature, proc, client, tx, waiting, cloud, reported>>
<1>1. /\ pc' = "idle" /\ connecting' = FALSE /\ auth' = (auth \/ connecting)
      /\ UNCHANGED <<feature, proc, client, tx, waiting, cloud>> /\ Send(<<>>)
  BY DEF Finish
<1> QED
  BY <1>1, SentNothing

\* or with one.
LEMMA FinishWithIs ==
  ASSUME Control, LoopInv, NEW p, Finish(<<p>>)
  PROVE  /\ pc' = "idle" /\ connecting' = FALSE /\ auth' = (auth \/ connecting)
         /\ auth' => ShownPatched(p)
         /\ UNCHANGED <<feature, proc, client, tx, waiting, cloud>>
<1>1. /\ pc' = "idle" /\ connecting' = FALSE /\ auth' = (auth \/ connecting)
      /\ UNCHANGED <<feature, proc, client, tx, waiting, cloud>> /\ Send(<<p>>)
  BY DEF Finish
<1>2. auth \/ connecting => tx
  BY DEF Control, LoopInv
<1> QED
  BY <1>1, <1>2, SentPatch

\* What may be sent.
LEMMA SendableIs ==
  /\ Sendable(<<>>)
  /\ \A p : IsPatch(p) => Sendable(<<p>>)
BY DEF Sendable

\* Outside connect_twin's steps it is not connect_twin that runs.
LEMMA NotConnecting ==
  ASSUME LoopInv, pc \notin ConnectSteps
  PROVE  ~connecting
BY DEF LoopInv

\* The data after a step of a handler.
LEMMA HandlerData ==
  ASSUME Data, feature' = feature, UNCHANGED <<world, budget, streamVars>>,
         missed' \in BOOLEAN, IsPatch(web'), IsPatch(cache'), IsPatch(seen'),
         events' \subseteq events
  PROVE  Data' /\ TickComing' = TickComing /\ source' = source
<1>1. UNCHANGED streamVars /\ UNCHANGED <<source, signals, deadline, emitting, queue>>
  BY DEF streamVars
<1>2. StreamTypeOK'
  BY <1>1, StreamIs DEF Data
<1>3. world' \in Worlds[feature] /\ budget' = budget
  BY DEF Data
<1>4. Data'
  BY <1>2, <1>3, DataIs
<1> QED
  BY <1>1, <1>4 DEF TickComing

\* A handler that fails, of those features that have one.
LEMMA FailStep ==
  ASSUME Control, LoopInv, Data, FeatureInvs, proc = "up",
         NEW lost \in BOOLEAN, Fail(lost), world' = world,
         NEW what, UNCHANGED budget \/ Spend(what),
         feature \notin {"system_info", "factory_reset"},
         feature \in {"network", "wait_online", "ssh_ca"} => lost,
         feature = "consent" => pc # "saved"
  PROVE  Control' /\ LoopInv' /\ Data' /\ FeatureInvs'
<1>1. Control' /\ LoopInv'
  BY FailLoop
<1>2. Data'
  BY FailData
<1>3. CASE Exit
  <2>1. feature' = feature
    BY <1>3 DEF Exit
  <2>2. RequestInv'
    BY <2>1 DEF RequestInv
  <2> QED
    BY <1>1, <1>2, <1>3, <2>2, ExitInvs
<1>4. CASE /\ ~connecting /\ pc' = "idle" /\ missed' = (missed \/ lost)
           /\ UNCHANGED <<loopVars, reported, web, cache, seen, events, streamVars>>
  <2>1. /\ UNCHANGED <<feature, proc, auth, connecting, reported, cloud, web, cache, seen,
                       events, source>>
    BY <1>4 DEF loopVars, streamVars, Fail
  <2>2. ShownKept
    BY <2>1, ShownSame
  <2>3. CacheInv'
    BY <2>1, <2>2, CacheKept DEF FeatureInvs
  <2>4. CASE feature = "network"
    BY <1>1, <1>2, <1>4, <2>1, <2>3, <2>4, OwnInv DEF FeatureInvs, NetworkInv, Up
  <2>5. CASE feature = "consent"
    <3>1. \A file : ShownFile(file) => ShownFile(file)'
      BY <2>1, <2>2 DEF ShownFile, ShownKept
    <3>2. \A file : FileCurrent(file) => FileCurrent(file)'
      BY <2>1, <3>1 DEF FileCurrent
    <3>3. ConsentInv
      BY DEF FeatureInvs
    <3>4. ConsentInv'
      BY <1>4, <2>1, <2>5, <3>1, <3>2, <3>3 DEF ConsentInv
    <3> QED
      BY <1>1, <1>2, <2>1, <2>3, <2>5, <3>4, OwnInv
  <2>6. CASE feature = "wait_online"
    BY <1>1, <1>2, <1>4, <2>1, <2>3, <2>6, OwnInv DEF FeatureInvs, WaitOnlineInv, Up
  <2>7. CASE feature = "ssh_ca"
    BY <1>1, <1>2, <1>4, <2>1, <2>3, <2>7, OwnInv DEF FeatureInvs, CaInv
  <2>8. CASE feature \in {"wifi", "modem", "provisioning"}
    BY <1>1, <1>2, <2>1, <2>3, <2>8, OwnInv
  <2>9. feature \in DOMAIN FirstStep
    BY DEF Control
  <2> QED
    BY <2>4, <2>5, <2>6, <2>7, <2>8, <2>9 DEF FirstStep
<1> QED
  BY <1>3, <1>4 DEF Fail

Held == Control /\ LoopInv /\ Data /\ FeatureInvs

\* A change of the world, or of what tells of it, leaves the loop and the twin.
LEMMA WorldStep ==
  ASSUME Held, UNCHANGED <<loopVars, pc, reported, cloud, web, cache, seen>>
  PROVE  /\ Control' /\ LoopInv' /\ CacheInv' /\ ShownKept
         /\ UNCHANGED <<feature, proc, client, auth, connecting>>
         /\ IsPatch(web') /\ IsPatch(cache') /\ IsPatch(seen')
<1>1. Control' /\ LoopInv'
  BY SameLoop DEF Held
<1>2. UNCHANGED <<feature, proc, client, auth, connecting>>
  BY DEF loopVars
<1>3. ShownKept
  BY ShownSame
<1>4. CacheInv'
  BY <1>2, <1>3, CacheKept DEF Held, FeatureInvs
<1>5. IsPatch(web') /\ IsPatch(cache') /\ IsPatch(seen')
  BY DEF Held, Data
<1> QED
  BY <1>1, <1>2, <1>3, <1>4, <1>5

-----------------------------------------------------------------------------
(* The features that look at the world again and again                     *)

\* Network status: what it reads is a patch.
LEMMA NetworkViewIs ==
  ASSUME Data, feature = "network"
  PROVE  IsPatch(NetworkView) /\ IsPatch([interfaces |-> {}])
<1>1. world \in [Links -> LinkState]
  BY WorldsAre DEF Data, NetworkWorlds
<1>2. ASSUME NEW i \in Interfaces(world)
      PROVE  i \in [name : Links, online : BOOLEAN]
  <2>1. PICK l \in Links : i = [name |-> l, online |-> world[l] = "online"]
    BY DEF Interfaces
  <2>2. (world[l] = "online") \in BOOLEAN
    OBVIOUS
  <2> QED
    BY <2>1, <2>2
<1> QED
  BY <1>2, Patches, ValuesAre DEF NetworkView

\* The steps of network status.
LEMMA NetworkStep ==
  ASSUME Held, NetworkActions
  PROVE  Held'
<1> USE DEF Held
<1>0. feature = "network" /\ NetworkInv /\ CacheInv
  BY Owners DEF FeatureInvs
<1>1. CASE NetworkNew
  <2>1. New("network", [interfaces |-> {}], Nothing, "pending")
    BY <1>1 DEF NetworkNew
  <2>2. Control' /\ LoopInv'
    BY <2>1, NewLoop
  <2>3. Data' /\ CacheInv' /\ feature' = "network" /\ pc' = "idle" /\ auth' = FALSE
        /\ source' = "pending" /\ web' = Nothing /\ cache' = [interfaces |-> {}]
    BY <1>0, <2>1, NewIs, NetworkViewIs, Patches
  <2>4. NetworkInv'
    BY <2>3 DEF NetworkInv
  <2> QED
    BY <2>2, <2>3, <2>4, OwnInv
<1>2. CASE Describe
  <2>1. /\ proc = "up" /\ seen' = NetworkView /\ missed' = FALSE /\ Continue("report", <<>>)
        /\ UNCHANGED <<web, cache, events, world, budget, streamVars>>
    BY <1>2 DEF Describe, At, worldVars
  <2>2. Control' /\ LoopInv'
    BY <2>1, ContinueLoop, SendableIs DEF ConnectSteps
  <2>3. pc' = "report" /\ ShownKept /\ UNCHANGED <<feature, proc, auth>>
    BY <2>1, ContinueIs
  <2>4. Data' /\ source' = source
    <3>1. IsPatch(web') /\ IsPatch(cache') /\ IsPatch(seen')
      BY <1>0, <2>1, NetworkViewIs DEF Data
    <3> QED
      BY <2>1, <2>3, <3>1, HandlerData
  <2>5. CacheInv'
    BY <1>0, <2>1, <2>3, CacheKept
  <2>6. NetworkView' = NetworkView
    BY <2>1, SameViews
  <2>7. NetworkInv'
    BY <1>0, <2>1, <2>3, <2>4, <2>6 DEF NetworkInv, Up
  <2> QED
    BY <1>0, <2>2, <2>3, <2>4, <2>5, <2>7, OwnInv
<1>3. CASE DescribeFails
  <2>1. proc = "up" /\ Spend("disruptions") /\ Fail(TRUE) /\ world' = world
    BY <1>3 DEF DescribeFails, At
  <2> QED
    BY <1>0, <2>1, FailStep
<1>4. CASE NetworkUnchanged
  <2>1. /\ proc = "up" /\ pc = "report" /\ seen = cache /\ ~connecting /\ seen' = Nothing
        /\ Finish(<<>>) /\ UNCHANGED <<web, cache, events, missed, world, budget, streamVars>>
    BY <1>4 DEF NetworkUnchanged, At, worldVars
  <2>2. Control' /\ LoopInv'
    BY <2>1, FinishLoop, SendableIs
  <2>3. pc' = "idle" /\ ShownKept /\ UNCHANGED <<feature, proc, auth>>
    BY <2>1, FinishIs DEF Control
  <2>4. Data' /\ source' = source /\ TickComing' = TickComing
    <3>1. IsPatch(web') /\ IsPatch(cache') /\ IsPatch(seen') /\ missed' \in BOOLEAN
      BY <2>1, Patches DEF Data
    <3> QED
      BY <2>1, <2>3, <3>1, HandlerData
  <2>5. CacheInv'
    BY <1>0, <2>1, <2>3, CacheKept
  <2>6. NetworkView' = NetworkView
    BY <2>1, SameViews
  <2>7. NetworkInv'
    BY <1>0, <2>1, <2>3, <2>4, <2>6 DEF NetworkInv, Up
  <2> QED
    BY <1>0, <2>2, <2>3, <2>4, <2>5, <2>7, OwnInv
<1>5. CASE NetworkReport
  <2>1. /\ proc = "up" /\ pc = "report" /\ cache' = seen /\ web' = seen /\ seen' = Nothing
        /\ Finish(<<seen>>) /\ UNCHANGED <<events, missed, world, budget, streamVars>>
        /\ IsPatch(seen)
    BY <1>5 DEF NetworkReport, At, worldVars, Data
  <2>2. Control' /\ LoopInv'
    BY <2>1, FinishLoop, SendableIs
  <2>3. pc' = "idle" /\ (auth' => ShownPatched(seen)) /\ UNCHANGED <<feature, proc>>
    BY <2>1, FinishWithIs
  <2>4. Data' /\ source' = source /\ TickComing' = TickComing
    <3>1. IsPatch(web') /\ IsPatch(cache') /\ IsPatch(seen') /\ missed' \in BOOLEAN
      BY <2>1, Patches DEF Data
    <3> QED
      BY <2>1, <2>3, <3>1, HandlerData
  <2>5. CacheInv'
    BY <2>1, <2>3, CacheSent
  <2>6. NetworkView' = NetworkView
    BY <2>1, SameViews
  <2>7. NetworkInv'
    BY <1>0, <2>1, <2>3, <2>4, <2>6 DEF NetworkInv, Up
  <2> QED
    BY <1>0, <2>2, <2>3, <2>4, <2>5, <2>7, OwnInv
<1>6. CASE ReloadNetwork
  <2>1. /\ proc = "up" /\ pc = "idle" /\ Spend("changes") /\ Continue("reload", <<>>)
        /\ UNCHANGED <<web, world, cache, seen, events, missed, streamVars>>
    BY <1>6 DEF ReloadNetwork, Ready, Idle
  <2>2. ~connecting
    BY <2>1 DEF Control
  <2>3. Control' /\ LoopInv'
    BY <2>1, <2>2, ContinueLoop, SendableIs
  <2>4. pc' = "reload" /\ ShownKept /\ UNCHANGED <<feature, proc, auth>>
    BY <2>1, ContinueIs
  <2>5. StreamTypeOK' /\ source' = source /\ TickComing' = TickComing
    BY <2>1, StreamIs DEF Data, streamVars, TickComing
  <2>6. Data'
    <3>1. IsPatch(web') /\ IsPatch(cache') /\ IsPatch(seen') /\ missed' \in BOOLEAN
          /\ world' \in Worlds[feature] /\ events' = events
      BY <2>1 DEF Data
    <3> QED
      BY <2>1, <2>4, <2>5, <3>1, DataIs
  <2>7. CacheInv'
    BY <1>0, <2>1, <2>4, CacheKept
  <2>8. NetworkView' = NetworkView
    BY <2>1, SameViews
  <2>9. NetworkInv'
    BY <1>0, <2>1, <2>4, <2>5, <2>8 DEF NetworkInv, Up
  <2> QED
    BY <1>0, <2>3, <2>4, <2>6, <2>7, <2>9, OwnInv
<1>7. CASE NetworkReloaded
  <2>1. /\ proc = "up" /\ pc = "reload" /\ Signal /\ Finish(<<>>)
        /\ UNCHANGED <<web, cache, seen, events, missed, world, budget>>
    BY <1>7 DEF NetworkReloaded, At, worldVars
  <2>2. Control' /\ LoopInv'
    BY <2>1, FinishLoop, SendableIs
  <2>3. ~connecting
    BY <2>1, NotConnecting DEF ConnectSteps
  <2>4. pc' = "idle" /\ ShownKept /\ UNCHANGED <<feature, proc, auth>>
    BY <2>1, <2>3, FinishIs DEF Control
  <2>5. StreamTypeOK' /\ source' = source /\ (TickComing => TickComing')
    BY <2>1, StreamIs DEF Data
  <2>6. Data'
    <3>1. IsPatch(web') /\ IsPatch(cache') /\ IsPatch(seen') /\ missed' \in BOOLEAN
          /\ world' \in Worlds[feature] /\ events' = events /\ budget' = budget
      BY <2>1 DEF Data
    <3> QED
      BY <2>1, <2>4, <2>5, <3>1, DataIs
  <2>7. CacheInv'
    BY <1>0, <2>1, <2>4, CacheKept
  <2>8. NetworkView' = NetworkView
    BY <2>1, SameViews
  <2>9. NetworkInv'
    BY <1>0, <2>1, <2>4, <2>5, <2>8 DEF NetworkInv, Up
  <2> QED
    BY <1>0, <2>2, <2>4, <2>6, <2>7, <2>9, OwnInv
<1>8. CASE NetworkReloadHangs
  <2>1. Exit /\ cloud' = cloud /\ world' = world /\ Spend("disruptions")
    BY <1>8 DEF NetworkReloadHangs
  <2>2. IsPatch(cloud') /\ world' \in Worlds[feature] /\ feature' = feature
    BY <2>1 DEF Control, Data, Exit
  <2>3. RequestInv'
    BY <1>0, <2>2 DEF RequestInv
  <2> QED
    BY <2>1, <2>2, <2>3, ExitLoop, ExitData, ExitInvs
<1>9. CASE LinkChanges
  <2>1. PICK links \in NetworkWorlds : Changed(links)
    BY <1>9 DEF LinkChanges
  <2>2. /\ Spend("changes") /\ world' = links /\ Signal
        /\ missed' = (missed \/ (source \in {"pending", "gone"} /\ feature \notin Ticking))
        /\ UNCHANGED <<loopVars, pc, reported, cloud, web, cache, seen, events>>
    BY <2>1 DEF Changed
  <2>3. /\ Control' /\ LoopInv' /\ CacheInv' /\ UNCHANGED <<feature, proc, auth, pc>>
        /\ IsPatch(web') /\ IsPatch(cache') /\ IsPatch(seen')
    BY <2>2, WorldStep
  <2>4. StreamTypeOK' /\ source' = source /\ (source = "open" => TickComing')
        /\ (TickComing => TickComing') /\ source \in {"unused", "pending", "open", "gone"}
    BY <2>2, StreamIs DEF Data, StreamTypeOK
  <2>5. Data'
    <3>1. missed' \in BOOLEAN /\ world' \in Worlds[feature] /\ events' = events
      BY <1>0, <2>2, WorldsAre DEF Data
    <3> QED
      BY <2>2, <2>3, <2>4, <3>1, DataIs
  <2>6. NetworkInv'
    <3>1. auth => Up
      BY DEF Control, Up
    <3>2. pc = "report" => Up
      BY DEF Control, Up
    <3>3. Up => source = "open" \/ missed'
      BY <1>0, <2>2, <2>4 DEF NetworkInv, Ticking
    <3>4. UNCHANGED <<web, cache, seen>>
      BY <2>2
    <3> QED
      BY <1>0, <2>3, <2>4, <3>1, <3>2, <3>3, <3>4 DEF NetworkInv, Up
  <2> QED
    BY <1>0, <2>3, <2>5, <2>6, OwnInv
<1> QED
  BY <1>1, <1>2, <1>3, <1>4, <1>5, <1>6, <1>7, <1>8, <1>9 DEF NetworkActions

\* Wifi commissioning: what it reads is a patch.
LEMMA WifiViewIs ==
  ASSUME Data, feature = "wifi"
  PROVE  /\ IsPatch(NotRunning)
         /\ world.iface # None => IsPatch(Running(world.iface))
         /\ IsPatch([ble_enabled |-> world.ble])
<1>1. world \in [iface : Wlans \cup {None}, ble : BOOLEAN, reachable : BOOLEAN]
  BY WorldsAre DEF Data, WifiWorlds
<1>2. world.iface \in Wlans \cup {None} /\ world.ble \in BOOLEAN
  BY <1>1
<1> QED
  BY <1>2, Patches, ValuesAre DEF NotRunning, Running

\* The steps of wifi commissioning.
LEMMA WifiStep ==
  ASSUME Held, WifiActions
  PROVE  Held'
<1> USE DEF Held
<1>0. feature = "wifi" /\ CacheInv
  BY Owners DEF FeatureInvs
<1>1. CASE WifiNew
  <2>1. New("wifi", Nothing, Nothing, "pending")
    BY <1>1 DEF WifiNew
  <2>2. Control' /\ LoopInv'
    BY <2>1, NewLoop
  <2>3. Data' /\ CacheInv' /\ feature' = "wifi"
    BY <1>0, <2>1, NewIs, Patches
  <2> QED
    BY <2>2, <2>3, OwnInv
<1>2. CASE WifiUnits \/ WifiServiceInfo \/ WifiUnreachable
  <2>1. /\ proc = "up"
        /\ UNCHANGED <<web, cache, events, missed, world, budget, streamVars>>
    BY <1>2 DEF WifiUnits, WifiServiceInfo, WifiUnreachable, At, worldVars
  <2>2. IsPatch(seen')
    <3>1. CASE WifiUnits
      BY <1>0, <3>1, WifiViewIs DEF WifiUnits
    <3>2. CASE WifiServiceInfo
      <4>1. seen' = Merged(seen, [ble_enabled |-> world.ble]) /\ IsPatch(seen)
        BY <3>2 DEF WifiServiceInfo, Data
      <4> QED
        BY <1>0, <4>1, WifiViewIs, MergedPatches
    <3>3. CASE WifiUnreachable
      BY <3>3 DEF WifiUnreachable, Data
    <3> QED
      BY <1>2, <3>1, <3>2, <3>3
  <2>3. PICK step \in {"report", "ble"} : Continue(step, <<>>)
    BY <1>2 DEF WifiUnits, WifiServiceInfo, WifiUnreachable
  <2>4. Control' /\ LoopInv'
    BY <2>1, <2>3, ContinueLoop, SendableIs DEF ConnectSteps
  <2>5. ShownKept /\ UNCHANGED <<feature, auth>>
    BY <2>3, ContinueIs
  <2>6. Data'
    <3>1. IsPatch(web') /\ IsPatch(cache') /\ missed' \in BOOLEAN
      BY <2>1 DEF Data
    <3> QED
      BY <2>1, <2>2, <2>5, <3>1, HandlerData
  <2>7. CacheInv'
    BY <1>0, <2>1, <2>5, CacheKept
  <2> QED
    BY <1>0, <2>4, <2>5, <2>6, <2>7, OwnInv
<1>3. CASE WifiUnitsFail
  <2>1. proc = "up" /\ Spend("disruptions") /\ Fail(FALSE) /\ world' = world
    BY <1>3 DEF WifiUnitsFail, At
  <2> QED
    BY <1>0, <2>1, FailStep
<1>4. CASE WifiReport
  <2> DEFINE send == tx /\ (connecting \/ seen # cache)
  <2>1. /\ proc = "up" /\ Finish(IF send THEN <<seen>> ELSE <<>>)
        /\ cache' = (IF send THEN seen ELSE cache) /\ seen' = Nothing
        /\ UNCHANGED <<web, events, missed, world, budget, streamVars>>
        /\ IsPatch(seen) /\ IsPatch(cache)
    BY <1>4 DEF WifiReport, At, worldVars, Data
  <2>2. CASE send
    <3>1. Finish(<<seen>>) /\ cache' = seen
      BY <2>1, <2>2
    <3>2. Control' /\ LoopInv'
      BY <2>1, <3>1, FinishLoop, SendableIs
    <3>3. (auth' => ShownPatched(seen)) /\ feature' = feature
      BY <3>1, FinishWithIs
    <3>4. Data'
      <4>1. IsPatch(web') /\ IsPatch(cache') /\ IsPatch(seen') /\ missed' \in BOOLEAN
        BY <2>1, <3>1, Patches DEF Data
      <4> QED
        BY <2>1, <3>3, <4>1, HandlerData
    <3>5. CacheInv'
      BY <3>1, <3>3, CacheSent
    <3> QED
      BY <1>0, <3>2, <3>3, <3>4, <3>5, OwnInv
  <2>3. CASE ~send
    <3>1. Finish(<<>>) /\ cache' = cache /\ ~connecting
      BY <2>1, <2>3 DEF LoopInv
    <3>2. Control' /\ LoopInv'
      BY <2>1, <3>1, FinishLoop, SendableIs
    <3>3. ShownKept /\ UNCHANGED <<feature, auth>>
      BY <3>1, FinishIs DEF Control
    <3>4. Data'
      <4>1. IsPatch(web') /\ IsPatch(cache') /\ IsPatch(seen') /\ missed' \in BOOLEAN
        BY <2>1, <3>1, Patches DEF Data
      <4> QED
        BY <2>1, <3>3, <4>1, HandlerData
    <3>5. CacheInv'
      BY <1>0, <3>1, <3>3, CacheKept
    <3> QED
      BY <1>0, <3>2, <3>3, <3>4, <3>5, OwnInv
  <2> QED
    BY <2>2, <2>3
<1>5. CASE WifiUnitChanges \/ WifiApiChanges
  <2>1. world \in [iface : Wlans \cup {None}, ble : BOOLEAN, reachable : BOOLEAN]
    BY <1>0, WorldsAre DEF Data, WifiWorlds
  <2>2. /\ Spend("changes")
        /\ UNCHANGED <<loopVars, pc, reported, cloud, web, cache, seen, events>>
        /\ UNCHANGED streamVars \/ Signal
        /\ \/ missed' = missed
           \/ missed' = (missed \/ (source \in {"pending", "gone"} /\ feature \notin Ticking))
        /\ \/ \E iface \in Wlans \cup {None} : world' = [world EXCEPT !.iface = iface]
           \/ \E ble, reachable \in BOOLEAN :
                world' = [world EXCEPT !.ble = ble, !.reachable = reachable]
    BY <1>5 DEF WifiUnitChanges, WifiApiChanges, Changed, WorldBecomes
  <2>3. world' \in Worlds["wifi"] /\ missed' \in BOOLEAN
    <3>1. world' \in WifiWorlds
      BY <2>1, <2>2 DEF WifiWorlds
    <3> QED
      BY <2>2, <3>1, WorldsAre DEF Data
  <2>4. /\ Control' /\ LoopInv' /\ CacheInv' /\ feature' = feature
        /\ IsPatch(web') /\ IsPatch(cache') /\ IsPatch(seen')
    BY <2>2, WorldStep
  <2>5. StreamTypeOK'
    BY <2>2, StreamIs DEF Data
  <2>6. Data'
    <3>1. events' = events
      BY <2>2
    <3> QED
      BY <1>0, <2>2, <2>3, <2>4, <2>5, <3>1, DataIs
  <2> QED
    BY <1>0, <2>4, <2>6, OwnInv
<1> QED
  BY <1>1, <1>2, <1>3, <1>4, <1>5 DEF WifiActions

\* The steps of modem info.
LEMMA ModemStep ==
  ASSUME Held, ModemActions
  PROVE  Held'
<1> USE DEF Held
<1>0. feature = "modem" /\ CacheInv /\ world \in SUBSET Modems
  BY Owners, WorldsAre DEF FeatureInvs, Data
<1>1. CASE ModemNew
  <2>1. New("modem", [modems |-> {}], Nothing, "unused")
    BY <1>1 DEF ModemNew
  <2>2. Control' /\ LoopInv'
    BY <2>1, NewLoop
  <2>3. IsPatch([modems |-> {}])
    BY Patches, ValuesAre
  <2>4. Data' /\ CacheInv' /\ feature' = "modem"
    BY <1>0, <2>1, <2>3, NewIs, Patches
  <2> QED
    BY <2>2, <2>4, OwnInv
<1>2. CASE ModemPaths \/ ModemStatus
  <2>1. /\ proc = "up" /\ seen' \in {seen, ModemView}
        /\ UNCHANGED <<web, cache, events, missed, world, budget, streamVars>>
    BY <1>2 DEF ModemPaths, ModemStatus, At, worldVars
  <2>2. PICK step \in {"status", "report"} : Continue(step, <<>>)
    BY <1>2 DEF ModemPaths, ModemStatus
  <2>3. Control' /\ LoopInv'
    BY <2>1, <2>2, ContinueLoop, SendableIs DEF ConnectSteps
  <2>4. ShownKept /\ UNCHANGED <<feature, auth>>
    BY <2>2, ContinueIs
  <2>5. Data'
    <3>1. IsPatch(ModemView)
      BY <1>0, Patches, ValuesAre DEF ModemView
    <3>2. IsPatch(web') /\ IsPatch(cache') /\ IsPatch(seen') /\ missed' \in BOOLEAN
      BY <2>1, <3>1 DEF Data
    <3> QED
      BY <2>1, <2>4, <3>2, HandlerData
  <2>6. CacheInv'
    BY <1>0, <2>1, <2>4, CacheKept
  <2> QED
    BY <1>0, <2>3, <2>4, <2>5, <2>6, OwnInv
<1>3. CASE ModemVanished \/ ModemQueryFails
  <2>1. /\ proc = "up" /\ Fail(FALSE) /\ world' = world
        /\ UNCHANGED budget \/ Spend("disruptions")
    BY <1>3 DEF ModemVanished, ModemQueryFails, At, worldVars
  <2> QED
    BY <1>0, <2>1, FailStep
<1>4. CASE ModemUnchanged
  <2>1. /\ proc = "up" /\ ~connecting /\ seen' = Nothing /\ Finish(<<>>)
        /\ UNCHANGED <<web, cache, events, missed, world, budget, streamVars>>
    BY <1>4 DEF ModemUnchanged, At, worldVars
  <2>2. Control' /\ LoopInv'
    BY <2>1, FinishLoop, SendableIs
  <2>3. ShownKept /\ UNCHANGED <<feature, auth>>
    BY <2>1, FinishIs DEF Control
  <2>4. Data'
    <3>1. IsPatch(web') /\ IsPatch(cache') /\ IsPatch(seen') /\ missed' \in BOOLEAN
      BY <2>1, Patches DEF Data
    <3> QED
      BY <2>1, <2>3, <3>1, HandlerData
  <2>5. CacheInv'
    BY <1>0, <2>1, <2>3, CacheKept
  <2> QED
    BY <1>0, <2>2, <2>3, <2>4, <2>5, OwnInv
<1>5. CASE ModemReport
  <2>1. /\ proc = "up" /\ cache' = seen /\ seen' = Nothing /\ Finish(<<seen>>)
        /\ UNCHANGED <<web, events, missed, world, budget, streamVars>> /\ IsPatch(seen)
    BY <1>5 DEF ModemReport, At, worldVars, Data
  <2>2. Control' /\ LoopInv'
    BY <2>1, FinishLoop, SendableIs
  <2>3. (auth' => ShownPatched(seen)) /\ feature' = feature
    BY <2>1, FinishWithIs
  <2>4. Data'
    <3>1. IsPatch(web') /\ IsPatch(cache') /\ IsPatch(seen') /\ missed' \in BOOLEAN
      BY <2>1, Patches DEF Data
    <3> QED
      BY <2>1, <2>3, <3>1, HandlerData
  <2>5. CacheInv'
    BY <2>1, <2>3, CacheSent
  <2> QED
    BY <1>0, <2>2, <2>3, <2>4, <2>5, OwnInv
<1>6. CASE ModemChanges
  <2>1. /\ Spend("changes") /\ world' \in SUBSET Modems
        /\ UNCHANGED <<loopVars, pc, reported, cloud, web, cache, seen, events, missed,
                       streamVars>>
    BY <1>6 DEF ModemChanges, WorldBecomes
  <2>2. /\ Control' /\ LoopInv' /\ CacheInv' /\ feature' = feature
        /\ IsPatch(web') /\ IsPatch(cache') /\ IsPatch(seen')
    BY <2>1, WorldStep
  <2>3. Data'
    <3>1. StreamTypeOK' /\ missed' \in BOOLEAN /\ events' = events
      BY <2>1, StreamIs DEF Data
    <3>2. world' \in Worlds[feature]
      BY <1>0, <2>1, WorldsAre
    <3> QED
      BY <2>1, <2>2, <3>1, <3>2, DataIs
  <2> QED
    BY <1>0, <2>2, <2>3, OwnInv
<1> QED
  BY <1>1, <1>2, <1>3, <1>4, <1>5, <1>6 DEF ModemActions

\* Provisioning: an expiry that can be told is one of a certificate.
LEMMA ExpiresIs ==
  ASSUME Data, feature = "provisioning"
  PROVE  IsPatch([expires |-> Expires(world)])
<1>1. world \in SUBSET Certificates
  BY WorldsAre DEF Data
<1>2. Expires(world) \in Certificates \cup {"unknown"}
  BY <1>1 DEF Expires
<1> QED
  BY <1>2, Patches, ValuesAre

\* The steps of the provisioning configuration.
LEMMA ProvisioningStep ==
  ASSUME Held, ProvisioningActions
  PROVE  Held'
<1> USE DEF Held
<1>0. feature = "provisioning" /\ CacheInv /\ world \in SUBSET Certificates
  BY Owners, WorldsAre DEF FeatureInvs, Data
<1>1. CASE ProvisioningNew
  <2>1. New("provisioning", [expires |-> Expires(world)], Nothing, "unused")
    BY <1>1 DEF ProvisioningNew
  <2> DEFINE first == [expires |-> Expires(world)]
  <2>2. PICK initial : initial = first
    OBVIOUS
  <2>3. New("provisioning", initial, Nothing, "unused") /\ IsPatch(initial)
    BY <1>0, <2>1, <2>2, ExpiresIs
  <2>4. Control' /\ LoopInv'
    BY <2>3, NewLoop
  <2>5. Data' /\ CacheInv' /\ feature' = "provisioning"
    BY <1>0, <2>3, NewIs, Patches
  <2> QED
    BY <2>4, <2>5, OwnInv
<1>2. CASE ProvisioningConnect \/ Refresh
  <2>1. /\ proc = "up" /\ IsPatch(cache) /\ IsPatch(cache') /\ Finish(<<cache'>>)
        /\ UNCHANGED <<web, seen, events, missed, world, budget, streamVars>>
    <3>1. CASE ProvisioningConnect
      BY <3>1 DEF ProvisioningConnect, At, worldVars, Data
    <3>2. CASE Refresh
      BY <1>0, <3>2, ExpiresIs DEF Refresh, Ready, Idle, worldVars, Data
    <3> QED
      BY <1>2, <3>1, <3>2
  <2>2. PICK p : p = cache'
    OBVIOUS
  <2>3. Finish(<<p>>) /\ IsPatch(p)
    BY <2>1, <2>2
  <2>4. Control' /\ LoopInv'
    BY <2>1, <2>3, FinishLoop, SendableIs
  <2>5. (auth' => ShownPatched(p)) /\ feature' = feature
    BY <2>3, FinishWithIs
  <2>6. Data'
    <3>1. IsPatch(web') /\ IsPatch(seen') /\ missed' \in BOOLEAN
      BY <2>1 DEF Data
    <3> QED
      BY <2>1, <2>5, <3>1, HandlerData
  <2>7. CacheInv'
    BY <2>2, <2>5, CacheSent
  <2> QED
    BY <1>0, <2>4, <2>5, <2>6, <2>7, OwnInv
<1>3. CASE CertificateWritten \/ CertificateRemoved \/ CertificatesLost
  <2>1. /\ UNCHANGED budget \/ Spend("changes")
        /\ world' \in SUBSET Certificates
        /\ UNCHANGED <<loopVars, pc, reported, cloud, web, cache, seen, events, missed,
                       streamVars>>
    BY <1>0, <1>3 DEF CertificateWritten, CertificateRemoved, CertificatesLost, WorldBecomes
  <2>2. /\ Control' /\ LoopInv' /\ CacheInv' /\ feature' = feature
        /\ IsPatch(web') /\ IsPatch(cache') /\ IsPatch(seen')
    BY <2>1, WorldStep
  <2>3. Data'
    <3>1. StreamTypeOK' /\ missed' \in BOOLEAN /\ events' = events
      BY <2>1, StreamIs DEF Data
    <3>2. world' \in Worlds[feature]
      BY <1>0, <2>1, WorldsAre
    <3> QED
      BY <2>1, <2>2, <3>1, <3>2, DataIs
  <2> QED
    BY <1>0, <2>2, <2>3, OwnInv
<1> QED
  BY <1>1, <1>2, <1>3 DEF ProvisioningActions

-----------------------------------------------------------------------------
(* System information                                                      *)

\* The steps of system information.
LEMMA SystemStep ==
  ASSUME Held, SystemActions
  PROVE  Held'
<1> USE DEF Held
<1>0. feature = "system_info" /\ CacheInv /\ SystemInv /\ world \in BOOLEAN
  BY Owners, WorldsAre DEF FeatureInvs, Data, SystemWorlds
<1>1. CASE SystemNew
  <2>1. PICK initial : initial = SystemView
    OBVIOUS
  <2>2. New("system_info", initial, initial, "unused")
    BY <1>1, <2>1 DEF SystemNew
  <2>3. IsPatch(initial) /\ "boot_time" \in DOMAIN initial /\ initial.boot_time = world
    BY <1>0, <2>1, Patches, ValuesAre DEF SystemView
  <2>4. Control' /\ LoopInv'
    BY <2>2, NewLoop
  <2>5. /\ Data' /\ CacheInv' /\ feature' = "system_info" /\ cache' = initial
        /\ web' = initial /\ world' = world /\ events' = events
    BY <1>0, <2>2, <2>3, NewIs, Patches
  <2>6. SystemInv'
    BY <1>0, <2>3, <2>5 DEF SystemInv
  <2> QED
    BY <2>4, <2>5, <2>6, OwnInv
<1>2. CASE SystemConnect \/ ClockSynchronised
  <2>1. /\ proc = "up" /\ web' = cache' /\ Finish(<<cache'>>)
        /\ UNCHANGED <<seen, missed, world, budget, streamVars>>
        /\ \/ cache' = cache /\ events' = events
           \/ /\ "synchronized" \in events /\ cache' = [cache EXCEPT !.boot_time = TRUE]
              /\ events' = events \ {"synchronized"}
    BY <1>2 DEF SystemConnect, ClockSynchronised, SystemReport, At, Ready, Idle, worldVars
  <2>2. /\ "boot_time" \in DOMAIN cache
        /\ "synchronized" \in events => world
        /\ cache.boot_time = world \/ "synchronized" \in events
    BY <1>0, <2>1 DEF SystemInv, Up
  <2>3. /\ IsPatch(cache') /\ "boot_time" \in DOMAIN cache'
        /\ cache'.boot_time = world \/ "synchronized" \in events'
        /\ "synchronized" \in events' => world
    <3>1. IsPatch(cache)
      BY DEF Data
    <3>2. CASE cache' = cache /\ events' = events
      BY <2>2, <3>1, <3>2
    <3>3. CASE /\ "synchronized" \in events /\ cache' = [cache EXCEPT !.boot_time = TRUE]
               /\ events' = events \ {"synchronized"}
      <4>1. /\ DOMAIN cache' = DOMAIN cache /\ cache'.boot_time = TRUE
            /\ \A k \in DOMAIN cache \ {"boot_time"} : cache'[k] = cache[k]
        BY <2>2, <3>3
      <4>2. IsPatch(cache')
        <5> SUFFICES ASSUME NEW k \in DOMAIN cache'
                     PROVE  k \in DOMAIN Values /\ cache'[k] \in Values[k]
          BY DEF IsPatch
        <5>1. k \in DOMAIN Values /\ cache[k] \in Values[k]
          BY <3>1, <4>1 DEF IsPatch
        <5>2. TRUE \in Values["boot_time"]
          BY ValuesAre
        <5>3. CASE k = "boot_time"
          BY <4>1, <5>1, <5>2, <5>3
        <5>4. CASE k # "boot_time"
          BY <4>1, <5>1, <5>4
        <5> QED
          BY <5>3, <5>4
      <4>3. "synchronized" \notin events' /\ world = TRUE
        BY <1>0, <2>2, <3>3
      <4> QED
        BY <2>2, <4>1, <4>2, <4>3
    <3> QED
      BY <2>1, <3>2, <3>3
  <2>4. PICK p : p = cache'
    OBVIOUS
  <2>5. Finish(<<p>>) /\ IsPatch(p)
    BY <2>1, <2>3, <2>4
  <2>6. Control' /\ LoopInv'
    BY <2>1, <2>5, FinishLoop, SendableIs
  <2>7. (auth' => ShownPatched(p)) /\ feature' = feature
    BY <2>5, FinishWithIs
  <2>8. Data'
    <3>1. IsPatch(web') /\ IsPatch(seen') /\ missed' \in BOOLEAN /\ events' \subseteq events
      BY <2>1, <2>3 DEF Data
    <3> QED
      BY <2>1, <2>3, <2>7, <3>1, HandlerData
  <2>9. CacheInv'
    BY <2>4, <2>7, CacheSent
  <2>10. SystemInv'
    BY <2>1, <2>3 DEF SystemInv
  <2> QED
    BY <1>0, <2>6, <2>7, <2>8, <2>9, <2>10, OwnInv
<1>3. CASE FleetId
  <2>1. /\ proc = "up" /\ pc = "idle" /\ Spend("changes") /\ web' = cache' /\ Finish(<<>>)
        /\ \E id \in FleetIds : cache' = Merged(cache, [fleet_id |-> id])
        /\ UNCHANGED <<world, seen, events, missed, streamVars>>
    BY <1>3 DEF FleetId, Ready, Idle
  <2>2. PICK id \in FleetIds : cache' = Merged(cache, [fleet_id |-> id])
    BY <2>1
  <2>3. /\ DOMAIN cache' = DOMAIN cache \cup {"fleet_id"}
        /\ \A k \in DOMAIN cache \ {"fleet_id"} : cache'[k] = cache[k]
        /\ IsPatch(cache')
    <3>1. DOMAIN [fleet_id |-> id] = {"fleet_id"} /\ IsPatch([fleet_id |-> id]) /\ IsPatch(cache)
      BY Patches, ValuesAre DEF Data
    <3> QED
      BY <2>2, <3>1, MergedPatches
  <2>4. Control' /\ LoopInv'
    BY <2>1, FinishLoop, SendableIs
  <2>5. ShownKept /\ feature' = feature /\ auth' = auth
    BY <2>1, FinishIs DEF Control
  <2>6. Data'
    <3>1. IsPatch(web') /\ IsPatch(seen') /\ missed' \in BOOLEAN /\ events' = events
          /\ StreamTypeOK' /\ world' \in Worlds[feature]
      BY <2>1, <2>3, StreamIs DEF Data
    <3> QED
      BY <2>1, <2>3, <2>5, <3>1, DataIs
  <2>7. CacheInv'
    BY <1>0, <2>3, <2>5, CacheIs DEF ShownKept
  <2>8. SystemInv'
    <3>1. Up /\ proc' = "up"
      BY <2>1 DEF Up, Finish
    <3> QED
      BY <1>0, <2>1, <2>3, <3>1 DEF SystemInv
  <2> QED
    BY <1>0, <2>4, <2>5, <2>6, <2>7, <2>8, OwnInv
<1>4. CASE Synchronises
  <2>1. /\ world' = TRUE /\ budget' = budget
        /\ events' = IF proc = "up" THEN events \cup {"synchronized"} ELSE events
        /\ UNCHANGED <<loopVars, pc, reported, cloud, web, cache, seen, missed, streamVars>>
    BY <1>4 DEF Synchronises, FileChanged
  <2>2. /\ Control' /\ LoopInv' /\ CacheInv' /\ UNCHANGED <<feature, proc>>
        /\ IsPatch(web') /\ IsPatch(cache') /\ IsPatch(seen')
    BY <2>1, WorldStep
  <2>3. Data'
    <3>1. StreamTypeOK' /\ missed' \in BOOLEAN
      BY <2>1, StreamIs DEF Data
    <3>2. world' \in Worlds[feature]
      BY <1>0, <2>1, WorldsAre DEF SystemWorlds
    <3>3. events' \subseteq events \cup {"synchronized"}
      BY <2>1
    <3> QED
      BY <2>1, <2>2, <3>1, <3>2, <3>3, DataIs
  <2>4. SystemInv'
    BY <1>0, <2>1, <2>2 DEF SystemInv, Up
  <2> QED
    BY <1>0, <2>2, <2>3, <2>4, OwnInv
<1> QED
  BY <1>1, <1>2, <1>3, <1>4 DEF SystemActions

-----------------------------------------------------------------------------
(* The features that write what they report                                *)

\* A patch that is shown, the twin holds.
LEMMA HoldsSent ==
  ASSUME NEW p, ShownPatched(p)
  PROVE  Holds(Shown', p)
BY DEF Holds, ShownPatched

\* The timeout in the file is one to report.
LEMMA TimeoutIs ==
  ASSUME Data, feature = "wait_online"
  PROVE  IsPatch(WaitOnlineView)
<1>1. world \in Timeouts \cup {NoEntry}
  BY WorldsAre DEF Data, WaitOnlineWorlds
<1>2. Timeout(world) \in Timeouts \cup {DefaultTimeout}
  BY <1>1 DEF Timeout
<1> QED
  BY <1>2, Patches, ValuesAre DEF WaitOnlineView

\* The steps of the timeout of wait-online.
LEMMA WaitOnlineStep ==
  ASSUME Held, WaitOnlineActions
  PROVE  Held'
<1> USE DEF Held
<1>0. feature = "wait_online" /\ CacheInv /\ WaitOnlineInv /\ cache = Nothing
  BY Owners DEF FeatureInvs, WaitOnlineInv
<1>1. CASE WaitOnlineNew
  <2>1. PICK view : view = WaitOnlineView
    OBVIOUS
  <2>2. New("wait_online", Nothing, view, "unused")
    BY <1>1, <2>1 DEF WaitOnlineNew
  <2>3. IsPatch(view)
    BY <1>0, <2>1, TimeoutIs
  <2>4. Control' /\ LoopInv'
    BY <2>2, NewLoop
  <2>5. /\ Data' /\ CacheInv' /\ feature' = "wait_online" /\ cache' = Nothing
        /\ web' = view /\ world' = world /\ auth' = FALSE /\ pc' = "idle"
    BY <1>0, <2>2, <2>3, NewIs, Patches
  <2>6. WaitOnlineView' = WaitOnlineView
    BY <2>5, SameViews
  <2>7. WaitOnlineInv'
    BY <2>1, <2>5, <2>6 DEF WaitOnlineInv
  <2> QED
    BY <2>4, <2>5, <2>7, OwnInv
<1>2. CASE SetWaitOnlineTimeout
  <2>1. PICK timeout \in Timeouts, step \in {"report", "write"} :
           /\ Continue(step, <<>>)
           /\ \/ step = "report" /\ UNCHANGED <<seen, world>>
              \/ step = "write" /\ seen' = [wait_online_timeout_secs |-> timeout]
                 /\ world' = NoEntry
    BY <1>2 DEF SetWaitOnlineTimeout
  <2>2. /\ proc = "up" /\ pc = "idle" /\ Spend("changes")
        /\ UNCHANGED <<web, cache, events, missed, streamVars>>
    BY <1>2 DEF SetWaitOnlineTimeout, Ready, Idle
  <2>3. ~connecting
    BY <2>2 DEF Control
  <2>4. Control' /\ LoopInv'
    BY <2>1, <2>2, <2>3, ContinueLoop, SendableIs
  <2>5. pc' = step /\ feature' = feature
    BY <2>1, ContinueIs
  <2>6. Data'
    <3>1. IsPatch([wait_online_timeout_secs |-> timeout])
      BY Patches, ValuesAre
    <3>2. IsPatch(web') /\ IsPatch(cache') /\ IsPatch(seen') /\ missed' \in BOOLEAN
          /\ StreamTypeOK' /\ events' = events
      BY <2>1, <2>2, <3>1, StreamIs DEF Data
    <3>3. world' \in Worlds[feature]
      BY <1>0, <2>1, WorldsAre DEF Data, WaitOnlineWorlds
    <3> QED
      BY <2>2, <2>5, <3>2, <3>3, DataIs
  <2>7. cache' = Nothing
    BY <1>0, <2>2
  <2>8. WaitOnlineInv'
    BY <2>1, <2>5, <2>7 DEF WaitOnlineInv
  <2> QED
    BY <1>0, <2>4, <2>5, <2>6, <2>7, <2>8, CacheEmpty, OwnInv
<1>3. CASE WriteTimeout
  <2>1. /\ proc = "up" /\ pc = "write" /\ world' = seen.wait_online_timeout_secs
        /\ seen' = Nothing /\ Continue("report", <<>>)
        /\ UNCHANGED <<web, cache, events, missed, budget, streamVars>>
    BY <1>3 DEF WriteTimeout, At
  <2>2. world' \in Timeouts
    <3>1. PICK timeout \in Timeouts : seen = [wait_online_timeout_secs |-> timeout]
      BY <1>0, <2>1 DEF WaitOnlineInv
    <3> QED
      BY <2>1, <3>1
  <2>3. Control' /\ LoopInv'
    BY <2>1, ContinueLoop, SendableIs DEF ConnectSteps
  <2>4. pc' = "report" /\ feature' = feature
    BY <2>1, ContinueIs
  <2>5. Data'
    <3>1. IsPatch(web') /\ IsPatch(cache') /\ IsPatch(seen') /\ missed' \in BOOLEAN
          /\ StreamTypeOK' /\ events' = events /\ budget' = budget
      BY <2>1, Patches, StreamIs DEF Data
    <3>2. world' \in Worlds[feature]
      BY <1>0, <2>2, WorldsAre DEF WaitOnlineWorlds
    <3> QED
      BY <2>4, <3>1, <3>2, DataIs
  <2>6. cache' = Nothing
    BY <1>0, <2>1
  <2>7. WaitOnlineInv'
    BY <2>4, <2>6 DEF WaitOnlineInv
  <2> QED
    BY <1>0, <2>3, <2>4, <2>5, <2>6, <2>7, CacheEmpty, OwnInv
<1>4. CASE WriteTimeoutFails
  <2>1. proc = "up" /\ Spend("disruptions") /\ Fail(TRUE) /\ world' = world
    BY <1>4 DEF WriteTimeoutFails, At
  <2> QED
    BY <1>0, <2>1, FailStep
<1>5. CASE ReportTimeout
  <2>1. PICK view : view = WaitOnlineView
    OBVIOUS
  <2>2. /\ proc = "up" /\ web' = view /\ Finish(<<view>>) /\ missed' = FALSE
        /\ UNCHANGED <<cache, seen, events, world, budget, streamVars>>
    BY <1>5, <2>1 DEF ReportTimeout, At, worldVars
  <2>3. IsPatch(view)
    BY <1>0, <2>1, TimeoutIs
  <2>4. Control' /\ LoopInv'
    BY <2>2, <2>3, FinishLoop, SendableIs
  <2>5. pc' = "idle" /\ (auth' => ShownPatched(view)) /\ feature' = feature
    BY <2>2, FinishWithIs
  <2>6. Data'
    <3>1. IsPatch(web') /\ IsPatch(cache') /\ IsPatch(seen')
      BY <2>2, <2>3 DEF Data
    <3> QED
      BY <2>2, <2>5, <3>1, HandlerData
  <2>7. WaitOnlineView' = view /\ cache' = Nothing
    BY <1>0, <2>1, <2>2, SameViews
  <2>8. auth' => Holds(Shown', view)
    BY <2>5, HoldsSent
  <2>9. WaitOnlineInv'
    BY <2>2, <2>5, <2>7, <2>8 DEF WaitOnlineInv
  <2> QED
    BY <1>0, <2>4, <2>5, <2>6, <2>7, <2>9, CacheEmpty, OwnInv
<1> QED
  BY <1>1, <1>2, <1>3, <1>4, <1>5 DEF WaitOnlineActions

\* The steps of the CA key.
LEMMA CaStep ==
  ASSUME Held, CaActions
  PROVE  Held'
<1> USE DEF Held
<1>0. feature = "ssh_ca" /\ CacheInv /\ CaInv /\ cache = Nothing
  BY Owners DEF FeatureInvs, CaInv
<1>1. CASE CaNew
  <2>1. New("ssh_ca", Nothing, Nothing, "unused")
    BY <1>1 DEF CaNew
  <2>2. Control' /\ LoopInv'
    BY <2>1, NewLoop
  <2>3. /\ Data' /\ CacheInv' /\ feature' = "ssh_ca" /\ cache' = Nothing
        /\ auth' = FALSE /\ pc' = "idle"
    BY <1>0, <2>1, NewIs, Patches
  <2>4. CaInv'
    BY <2>3 DEF CaInv
  <2> QED
    BY <2>2, <2>3, <2>4, OwnInv
<1>2. CASE UpdateDeviceSshCa
  <2>1. /\ proc = "up" /\ pc = "idle" /\ Spend("changes") /\ world' = Empty
        /\ Continue("tee", <<>>)
        /\ UNCHANGED <<web, cache, events, missed, streamVars>>
    BY <1>2 DEF UpdateDeviceSshCa, Ready, Idle
  <2>2. PICK ca \in Cas : seen' = [ca_pub |-> ca]
    BY <1>2 DEF UpdateDeviceSshCa
  <2>3. ~connecting
    BY <2>1 DEF Control
  <2>4. Control' /\ LoopInv'
    BY <2>1, <2>3, ContinueLoop, SendableIs
  <2>5. pc' = "tee" /\ feature' = feature
    BY <2>1, ContinueIs
  <2>6. Data'
    <3>1. IsPatch([ca_pub |-> ca])
      BY Patches, ValuesAre DEF CaWorlds
    <3>2. IsPatch(web') /\ IsPatch(cache') /\ IsPatch(seen') /\ missed' \in BOOLEAN
          /\ StreamTypeOK' /\ events' = events
      BY <2>1, <2>2, <3>1, StreamIs DEF Data
    <3>3. world' \in Worlds[feature]
      BY <1>0, <2>1, WorldsAre DEF CaWorlds
    <3> QED
      BY <2>1, <2>5, <3>2, <3>3, DataIs
  <2>7. cache' = Nothing
    BY <1>0, <2>1
  <2>8. CaInv'
    BY <2>2, <2>5, <2>7 DEF CaInv
  <2> QED
    BY <1>0, <2>4, <2>5, <2>6, <2>7, <2>8, CacheEmpty, OwnInv
<1>3. CASE TeeExits
  <2>1. /\ proc = "up" /\ pc = "tee" /\ world' = seen.ca_pub
        /\ seen' = Nothing /\ Continue("report", <<>>)
        /\ UNCHANGED <<web, cache, events, missed, budget, streamVars>>
    BY <1>3 DEF TeeExits, At
  <2>2. world' \in Cas
    <3>1. PICK ca \in Cas : seen = [ca_pub |-> ca]
      BY <1>0, <2>1 DEF CaInv
    <3> QED
      BY <2>1, <3>1
  <2>3. Control' /\ LoopInv'
    BY <2>1, ContinueLoop, SendableIs DEF ConnectSteps
  <2>4. pc' = "report" /\ feature' = feature
    BY <2>1, ContinueIs
  <2>5. Data'
    <3>1. IsPatch(web') /\ IsPatch(cache') /\ IsPatch(seen') /\ missed' \in BOOLEAN
          /\ StreamTypeOK' /\ events' = events /\ budget' = budget
      BY <2>1, Patches, StreamIs DEF Data
    <3>2. world' \in Worlds[feature]
      BY <1>0, <2>2, WorldsAre DEF CaWorlds
    <3> QED
      BY <2>4, <3>1, <3>2, DataIs
  <2>6. cache' = Nothing
    BY <1>0, <2>1
  <2>7. CaInv'
    BY <2>4, <2>6 DEF CaInv
  <2> QED
    BY <1>0, <2>3, <2>4, <2>5, <2>6, <2>7, CacheEmpty, OwnInv
<1>4. CASE TeeFails
  <2>1. proc = "up" /\ Spend("disruptions") /\ Fail(TRUE) /\ world' = world
    BY <1>4 DEF TeeFails, At
  <2> QED
    BY <1>0, <2>1, FailStep
<1>5. CASE CaReport
  <2>1. PICK view : view = CaView
    OBVIOUS
  <2>2. /\ proc = "up" /\ Finish(<<view>>) /\ missed' = FALSE
        /\ UNCHANGED <<web, cache, seen, events, world, budget, streamVars>>
    BY <1>5, <2>1 DEF CaReport, At, worldVars
  <2>3. IsPatch(view)
    BY <1>0, <2>1, WorldsAre, Patches, ValuesAre DEF Data, CaView
  <2>4. Control' /\ LoopInv'
    BY <2>2, <2>3, FinishLoop, SendableIs
  <2>5. pc' = "idle" /\ (auth' => ShownPatched(view)) /\ feature' = feature
    BY <2>2, FinishWithIs
  <2>6. Data'
    <3>1. IsPatch(web') /\ IsPatch(cache') /\ IsPatch(seen')
      BY <2>2 DEF Data
    <3> QED
      BY <2>2, <2>5, <3>1, HandlerData
  <2>7. CaView' = view /\ cache' = Nothing
    BY <1>0, <2>1, <2>2, SameViews
  <2>8. auth' => Holds(Shown', view)
    BY <2>5, HoldsSent
  <2>9. CaInv'
    BY <2>5, <2>7, <2>8 DEF CaInv
  <2> QED
    BY <1>0, <2>4, <2>5, <2>6, <2>7, <2>9, CacheEmpty, OwnInv
<1> QED
  BY <1>1, <1>2, <1>3, <1>4, <1>5 DEF CaActions

-----------------------------------------------------------------------------
(* Factory reset                                                           *)

\* The world of factory reset, field by field.
LEMMA ResetWorldIs ==
  ASSUME Data, feature = "factory_reset"
  PROVE  /\ world \in [apps : BOOLEAN, request : 0..MaxResets, result : 0..MaxResets,
                       rebooting : BOOLEAN, asked : 0..MaxResets,
                       refused : SUBSET (1..MaxResets), performed : SUBSET (1..MaxResets)]
         /\ KeysOf(world) \in Values["keys"] /\ world.result \in Values["result"]
         /\ MaxResets \in Nat
<1>1. world \in [apps : BOOLEAN, request : 0..MaxResets, result : 0..MaxResets,
                 rebooting : BOOLEAN, asked : 0..MaxResets,
                 refused : SUBSET (1..MaxResets), performed : SUBSET (1..MaxResets)]
  BY WorldsAre DEF Data, ResetWorlds
<1>2. KeysOf(world) \in Values["keys"]
  BY ValuesAre DEF KeysOf
<1>3. world.result \in Values["result"]
  BY <1>1, ValuesAre
<1> QED
  BY <1>1, <1>2, <1>3

\* The request that a boot finds becomes its result, and is performed.
LEMMA BootIs ==
  ASSUME Data, RequestInv, feature = "factory_reset", feature' = feature,
         world' = Boot(world)
  PROVE  world' \in Worlds[feature] /\ RequestInv'
<1> DEFINE done == world.performed \cup ({world.request} \ {NoReset})
<1>1. /\ world \in [apps : BOOLEAN, request : 0..MaxResets, result : 0..MaxResets,
                    rebooting : BOOLEAN, asked : 0..MaxResets,
                    refused : SUBSET (1..MaxResets), performed : SUBSET (1..MaxResets)]
      /\ MaxResets \in Nat
  BY ResetWorldIs
<1>2. world' = [world EXCEPT !.request = 0, !.result = world.request,
                             !.rebooting = FALSE, !.performed = done]
  BY DEF Boot, NoReset
<1>3. /\ world.refused \cup world.performed \subseteq 1..world.asked
      /\ world.request \in 0..world.asked /\ world.asked \in 0..MaxResets
      /\ world.refused \cap (world.performed \cup {world.request}) = {}
  BY <1>1 DEF RequestInv
<1>4. /\ done \subseteq 1..world.asked /\ world.refused \cap done = {} /\ 0 \notin world.refused
      /\ done \subseteq 1..MaxResets
  BY <1>3 DEF NoReset
<1> HIDE DEF done
<1>5. world' \in ResetWorlds
  <2>1. /\ done \in SUBSET (1..MaxResets) /\ 0 \in 0..MaxResets
        /\ world.request \in 0..MaxResets
    BY <1>1, <1>4
  <2> QED
    BY <1>1, <1>2, <2>1 DEF ResetWorlds
<1>6. /\ world'.request = 0 /\ world'.asked = world.asked /\ world'.refused = world.refused
      /\ world'.performed = done
  BY <1>1, <1>2
<1>7. RequestInv'
  <2>0. world.asked \in Nat
    BY <1>1, <1>3
  <2> DEFINE S == 1..world.asked
  <2>1. 0 \in 0..world.asked
    BY <2>0
  <2>3. world.refused \subseteq S /\ done \subseteq S
    BY <1>3, <1>4
  <2> HIDE DEF S
  <2>4. world.refused \cup done \subseteq S
    BY <2>3
  <2>2. world.refused \cap (done \cup {0}) = {}
    BY <1>4
  <2> QED
    BY <1>6, <2>1, <2>2, <2>4 DEF RequestInv, S
<1> QED
  BY <1>5, <1>7, WorldsAre

\* A reboot that is asked for, whether or not it comes.
LEMMA RebootEndsIs ==
  ASSUME Held, proc = "up", pc \notin ConnectSteps, NEW w, RebootCommandEnds(w)
  PROVE  /\ Control' /\ LoopInv' /\ CacheInv' /\ world' = w
         /\ UNCHANGED <<feature, proc, auth, cloud, reported, web, cache, seen, events, missed,
                        streamVars>>
<1>1. /\ world' = w /\ pc' = "idle" /\ waiting' = TRUE
      /\ UNCHANGED <<feature, proc, client, auth, tx, connecting, reported, cloud, web,
                     cache, seen, events, missed, streamVars>>
  BY DEF RebootCommandEnds
<1>2. ~connecting
  BY NotConnecting DEF Held
<1>3. Control' /\ LoopInv'
  BY <1>1, <1>2 DEF Held, Control, LoopInv
<1>4. CacheInv'
  BY <1>1, ShownSame, CacheKept DEF Held, FeatureInvs
<1> QED
  BY <1>1, <1>3, <1>4

\* A step that leaves what the feature has read and published.
LEMMA ResetKept ==
  ASSUME Held, feature = "factory_reset",
         UNCHANGED <<feature, proc, web, cache, seen, events, missed, streamVars>>,
         NEW what, UNCHANGED budget \/ Spend(what),
         world' \in ResetWorlds, world'.apps = world.apps, world'.result = world.result
  PROVE  Data' /\ ResetInv'
<1>1. IsPatch(web') /\ IsPatch(cache') /\ IsPatch(seen') /\ missed' \in BOOLEAN
      /\ StreamTypeOK' /\ events' = events /\ feature' = feature
  BY StreamIs DEF Held, Data
<1>2. world' \in Worlds[feature]
  BY WorldsAre
<1>3. Data'
  BY <1>1, <1>2, DataIs DEF Held
<1>4. KeysOf(world') = KeysOf(world)
  BY DEF KeysOf
<1>5. (KeysOf(world))' = KeysOf(world')
  OBVIOUS
<1>6. ResetInv'
  BY <1>4, <1>5 DEF Held, FeatureInvs, ResetInv, Up, ResetFields
<1> QED
  BY <1>3, <1>6

\* The steps of factory reset.
LEMMA ResetStep ==
  ASSUME Held, ResetActions
  PROVE  Held'
<1> USE DEF Held
<1>0. feature = "factory_reset" /\ CacheInv /\ ResetInv /\ RequestInv
  BY Owners DEF FeatureInvs
<1>w. /\ world \in [apps : BOOLEAN, request : 0..MaxResets, result : 0..MaxResets,
                    rebooting : BOOLEAN, asked : 0..MaxResets,
                    refused : SUBSET (1..MaxResets), performed : SUBSET (1..MaxResets)]
      /\ KeysOf(world) \in Values["keys"] /\ world.result \in Values["result"]
      /\ MaxResets \in Nat
  BY <1>0, ResetWorldIs
<1>r. /\ world.refused \cup world.performed \subseteq 1..world.asked
      /\ world.request \in 0..world.asked /\ world.asked \in 0..MaxResets
      /\ world.refused \cap (world.performed \cup {world.request}) = {}
  BY <1>0, <1>w DEF RequestInv
<1>1. CASE ResetNew
  <2>1. PICK initial : initial = ResetView
    OBVIOUS
  <2>2. New("factory_reset", initial, initial, "unused")
    BY <1>1, <2>1 DEF ResetNew
  <2>3. /\ DOMAIN initial = ResetFields(world) /\ initial.keys = KeysOf(world)
        /\ "result" \in DOMAIN initial => initial["result"] = world.result
        /\ IsPatch(initial)
    <3>1. CASE world.result = NoReset
      BY <1>w, <2>1, <3>1, Patches DEF ResetView, ResetFields
    <3>2. CASE world.result # NoReset
      BY <1>w, <2>1, <3>2, Patches DEF ResetView, ResetFields
    <3> QED
      BY <3>1, <3>2
  <2>4. Control' /\ LoopInv'
    BY <2>2, NewLoop
  <2>5. /\ Data' /\ CacheInv' /\ feature' = "factory_reset" /\ cache' = initial
        /\ web' = initial /\ world' = world /\ events' = events
    BY <1>0, <2>2, <2>3, NewIs
  <2>6. ResetInv' /\ RequestInv'
    BY <1>0, <2>3, <2>5 DEF ResetInv, RequestInv, KeysOf, ResetFields
  <2> QED
    BY <2>4, <2>5, <2>6, OwnInv
<1>2. CASE ResetConnect
  <2>1. /\ proc = "up" /\ Finish(<<cache>>) /\ IsPatch(cache)
        /\ UNCHANGED <<web, cache, seen, events, missed, world, budget, streamVars>>
    BY <1>2 DEF ResetConnect, At, worldVars, Data
  <2>2. Control' /\ LoopInv'
    BY <2>1, FinishLoop, SendableIs
  <2>3. (auth' => ShownPatched(cache)) /\ UNCHANGED <<feature, proc>>
    BY <2>1, FinishWithIs
  <2>4. Data' /\ ResetInv'
    BY <1>0, <1>w, <2>1, <2>3, ResetKept DEF ResetWorlds
  <2>5. CacheInv'
    BY <2>1, <2>3, CacheSent
  <2>6. RequestInv'
    BY <1>0, <2>1, <2>3 DEF RequestInv
  <2> QED
    BY <1>0, <2>2, <2>3, <2>4, <2>5, <2>6, OwnInv
<1>3. CASE KeysModified
  <2>1. /\ proc = "up" /\ pc = "idle" /\ events' = events \ {"factory-reset.d"}
        /\ UNCHANGED <<seen, world, streamVars>>
    BY <1>3 DEF KeysModified, Ready, Idle
  <2>2. ~connecting
    BY <2>1 DEF Control
  <2>3. /\ web = cache /\ DOMAIN cache = ResetFields(world) /\ IsPatch(cache)
        /\ "result" \in DOMAIN cache => cache["result"] = world.result
    BY <1>0, <2>1 DEF ResetInv, Up, Data
  <2>4. PICK keys \in Values["keys"] : keys = KeysOf(world)
    BY <1>w
  <2>5. /\ KeysOf(world') = keys /\ (KeysOf(world))' = KeysOf(world')
        /\ (ResetFields(world))' = ResetFields(world) /\ ResetFields(world') = ResetFields(world)
        /\ ResetFields(world) \in {{"keys"}, {"keys", "result"}}
    BY <2>1, <2>4 DEF ResetFields
  <2>6. CASE cache' = [cache EXCEPT !.keys = keys] /\ Finish(<<[keys |-> keys]>>)
             /\ web' = cache' /\ missed' = FALSE /\ UNCHANGED budget
    <3>1. PICK p : p = [keys |-> keys]
      OBVIOUS
    <3>2. Finish(<<p>>) /\ IsPatch(p) /\ DOMAIN p = {"keys"} /\ p["keys"] = keys
      BY <2>6, <3>1, Patches
    <3>3. Control' /\ LoopInv'
      BY <2>1, <3>2, FinishLoop, SendableIs
    <3>4. (auth' => ShownPatched(p) /\ auth) /\ UNCHANGED <<feature, proc>>
      BY <2>2, <3>2, FinishWithIs
    <3>5. /\ DOMAIN cache' = DOMAIN cache /\ "keys" \in DOMAIN cache /\ cache'["keys"] = keys
          /\ \A k \in DOMAIN cache \ {"keys"} : cache'[k] = cache[k]
      BY <2>3, <2>5, <2>6
    <3>6. IsPatch(cache')
      <4>1. \A k \in DOMAIN cache : k \in DOMAIN Values /\ cache[k] \in Values[k]
        BY <2>3 DEF IsPatch
      <4> QED
        BY <2>4, <3>5, <4>1 DEF IsPatch
    <3>7. Data'
      <4>1. IsPatch(web') /\ IsPatch(seen') /\ missed' \in BOOLEAN
        BY <2>1, <2>6, <3>6 DEF Data
      <4> QED
        BY <2>1, <2>6, <3>4, <3>6, <4>1, HandlerData
    <3>8. CacheInv'
      <4> SUFFICES ASSUME auth', NEW k \in DOMAIN cache' \ {"fleet_id"}
                   PROVE  k \in DOMAIN Shown' /\ Shown'[k] = cache'[k]
        BY CacheIs
      <4>1. CASE k = "keys"
        BY <3>2, <3>4, <3>5, <4>1 DEF ShownPatched
      <4>2. CASE k # "keys"
        <5>1. k \in DOMAIN Shown /\ Shown[k] = cache[k]
          BY <1>0, <3>4, <3>5, <4>2, CacheIs
        <5> QED
          BY <3>2, <3>4, <3>5, <4>2, <5>1 DEF ShownPatched
      <4> QED
        BY <3>5, <4>1, <4>2
    <3>9. ResetInv' /\ RequestInv'
      <4>1. RequestInv'
        BY <1>0, <2>1, <3>4 DEF RequestInv
      <4>2. ResetInv'
        <5>1. "result" \in DOMAIN cache' => cache'["result"] = world.result
          BY <2>3, <3>5
        <5> QED
          BY <2>1, <2>3, <2>5, <2>6, <3>5, <5>1 DEF ResetInv
      <4> QED
        BY <4>1, <4>2
    <3> QED
      BY <1>0, <3>3, <3>4, <3>7, <3>8, <3>9, OwnInv
  <2>7. CASE /\ (keys = cache.keys /\ missed' = FALSE /\ UNCHANGED budget)
                \/ (missed' = TRUE /\ Spend("disruptions"))
             /\ Finish(<<>>) /\ UNCHANGED <<cache, web>>
    <3>1. Control' /\ LoopInv'
      BY <2>1, <2>7, FinishLoop, SendableIs
    <3>2. ShownKept /\ auth' = auth /\ UNCHANGED <<feature, proc>>
      BY <2>2, <2>7, FinishIs DEF Control
    <3>3. Data'
      <4>1. IsPatch(web') /\ IsPatch(cache') /\ IsPatch(seen') /\ missed' \in BOOLEAN
        BY <2>1, <2>7 DEF Data
      <4>2. UNCHANGED budget \/ Spend("disruptions")
        BY <2>7
      <4>3. world' \in Worlds[feature] /\ StreamTypeOK' /\ events' \subseteq events
        BY <2>1, StreamIs DEF Data
      <4> QED
        BY <3>2, <4>1, <4>2, <4>3, DataIs
    <3>4. CacheInv'
      BY <1>0, <2>7, <3>2, CacheKept
    <3>5. ResetInv'
      BY <2>1, <2>3, <2>5, <2>7 DEF ResetInv
    <3>6. RequestInv'
      BY <1>0, <2>1, <3>2 DEF RequestInv
    <3> QED
      BY <1>0, <3>1, <3>2, <3>3, <3>4, <3>5, <3>6, OwnInv
  <2> QED
    BY <1>3, <2>4, <2>6, <2>7 DEF KeysModified
<1>4. CASE ResetToFactorySettings
  <2> DEFINE id == world.asked + 1
  <2>1. proc = "up" /\ pc = "idle" /\ world.asked < MaxResets
    BY <1>4 DEF ResetToFactorySettings, Ready, Idle
  <2>2. id \in 1..MaxResets /\ id \notin 1..world.asked /\ 1..world.asked \subseteq 1..id
        /\ 0..world.asked \subseteq 0..id
    BY <1>r, <1>w, <2>1
  <2> HIDE DEF id
  <2>3. CASE /\ RebootCommandEnds([world EXCEPT !.asked = id, !.refused = world.refused \cup {id}])
             /\ UNCHANGED budget \/ Spend("disruptions")
    <3>1. PICK w : w = [world EXCEPT !.asked = id, !.refused = world.refused \cup {id}]
      OBVIOUS
    <3>2. /\ w.asked = id /\ w.refused = world.refused \cup {id} /\ w.request = world.request
          /\ w.performed = world.performed /\ w.apps = world.apps /\ w.result = world.result
          /\ w \in ResetWorlds
      <4>1. id \in 0..MaxResets /\ world.refused \cup {id} \in SUBSET (1..MaxResets)
        BY <1>w, <2>2
      <4> QED
        BY <1>w, <3>1, <4>1 DEF ResetWorlds
    <3>3. /\ Control' /\ LoopInv' /\ CacheInv' /\ world' = w
          /\ UNCHANGED <<feature, proc, web, cache, seen, events, missed, streamVars>>
      BY <2>1, <2>3, <3>1, RebootEndsIs DEF ConnectSteps
    <3>4. Data' /\ ResetInv'
      BY <1>0, <2>3, <3>2, <3>3, ResetKept
    <3>5. RequestInv'
      <4>1. /\ w.refused \cup w.performed \subseteq 1..w.asked /\ w.request \in 0..w.asked
        BY <1>r, <2>2, <3>2
      <4>2. id \notin world.performed /\ id # world.request
        BY <1>r, <2>2
      <4>3. w.refused \cap (w.performed \cup {w.request}) = {}
        BY <1>r, <3>2, <4>2
      <4> QED
        BY <3>3, <4>1, <4>3 DEF RequestInv
    <3> QED
      BY <1>0, <3>3, <3>4, <3>5, OwnInv
  <2>4. CASE /\ world' = [world EXCEPT !.asked = id, !.request = id]
             /\ Continue("reboot", <<>>)
             /\ UNCHANGED <<web, cache, seen, events, missed, budget, streamVars>>
    <3>1. /\ world'.asked = id /\ world'.refused = world.refused /\ world'.request = id
          /\ world'.performed = world.performed /\ world'.apps = world.apps
          /\ world'.result = world.result /\ world' \in ResetWorlds
      <4>1. id \in 0..MaxResets
        BY <1>w, <2>2
      <4> QED
        BY <1>w, <2>4, <4>1 DEF ResetWorlds
    <3>2. ~connecting
      BY <2>1 DEF Control
    <3>3. Control' /\ LoopInv'
      BY <2>1, <2>4, <3>2, ContinueLoop, SendableIs
    <3>4. ShownKept /\ UNCHANGED <<feature, proc, auth>>
      BY <2>4, ContinueIs
    <3>5. Data' /\ ResetInv'
      BY <1>0, <2>4, <3>1, <3>4, ResetKept
    <3>6. CacheInv'
      BY <1>0, <2>4, <3>4, CacheKept
    <3>7. RequestInv'
      <4>1. /\ world'.refused \cup world'.performed \subseteq 1..world'.asked
            /\ world'.request \in 0..world'.asked
        BY <1>r, <2>2, <3>1
      <4>2. id \notin world.refused
        BY <1>r, <2>2
      <4>3. world'.refused \cap (world'.performed \cup {world'.request}) = {}
        BY <1>r, <3>1, <4>2
      <4> QED
        BY <4>1, <4>3 DEF RequestInv
    <3> QED
      BY <1>0, <3>3, <3>4, <3>5, <3>6, <3>7, OwnInv
  <2>5. \/ /\ RebootCommandEnds([world EXCEPT !.asked = id, !.refused = world.refused \cup {id}])
           /\ UNCHANGED budget \/ Spend("disruptions")
        \/ /\ world' = [world EXCEPT !.asked = id, !.request = id]
           /\ Continue("reboot", <<>>)
           /\ UNCHANGED <<web, cache, seen, events, missed, budget, streamVars>>
    <3>1. /\ [[world EXCEPT !.asked = id] EXCEPT !.refused = @ \cup {id}]
               = [world EXCEPT !.asked = id, !.refused = world.refused \cup {id}]
          /\ [[world EXCEPT !.asked = id] EXCEPT !.request = id]
               = [world EXCEPT !.asked = id, !.request = id]
      BY <1>w
    <3> QED
      BY <1>4, <3>1 DEF ResetToFactorySettings, id
  <2> QED
    BY <2>3, <2>4, <2>5
<1>5. CASE RebootRequested
  <2>1. /\ proc = "up" /\ pc = "idle" /\ Spend("changes") /\ Continue("reboot", <<>>)
        /\ UNCHANGED <<web, world, cache, seen, events, missed, streamVars>>
    BY <1>5 DEF RebootRequested, Ready, Idle
  <2>2. ~connecting
    BY <2>1 DEF Control
  <2>3. Control' /\ LoopInv'
    BY <2>1, <2>2, ContinueLoop, SendableIs
  <2>4. ShownKept /\ UNCHANGED <<feature, proc, auth>>
    BY <2>1, ContinueIs
  <2>5. Data' /\ ResetInv'
    BY <1>0, <1>w, <2>1, <2>4, ResetKept DEF ResetWorlds
  <2>6. CacheInv'
    BY <1>0, <2>1, <2>4, CacheKept
  <2>7. RequestInv'
    BY <1>0, <2>1, <2>4 DEF RequestInv
  <2> QED
    BY <1>0, <2>3, <2>4, <2>5, <2>6, <2>7, OwnInv
<1>6. CASE Reboot
  <2>1. proc = "up" /\ pc = "reboot"
    BY <1>6 DEF Reboot, At
  <2>2. PICK b \in BOOLEAN :
          /\ RebootCommandEnds([world EXCEPT !.rebooting = b])
          /\ UNCHANGED budget \/ Spend("disruptions")
    <3>1. world = [world EXCEPT !.rebooting = world.rebooting] /\ world.rebooting \in BOOLEAN
      BY <1>w
    <3> QED
      BY <1>6, <3>1 DEF Reboot
  <2>3. PICK w : w = [world EXCEPT !.rebooting = b]
    OBVIOUS
  <2>4. /\ w.asked = world.asked /\ w.refused = world.refused /\ w.request = world.request
        /\ w.performed = world.performed /\ w.apps = world.apps /\ w.result = world.result
        /\ w \in ResetWorlds
    BY <1>w, <2>3 DEF ResetWorlds
  <2>5. /\ Control' /\ LoopInv' /\ CacheInv' /\ world' = w
        /\ UNCHANGED <<feature, proc, web, cache, seen, events, missed, streamVars>>
    BY <2>1, <2>2, <2>3, RebootEndsIs DEF ConnectSteps
  <2>6. Data' /\ ResetInv'
    BY <1>0, <2>2, <2>4, <2>5, ResetKept
  <2>7. RequestInv'
    BY <1>r, <2>4, <2>5 DEF RequestInv
  <2> QED
    BY <1>0, <2>5, <2>6, <2>7, OwnInv
<1>7. CASE RebootTargetFails \/ CustomConfigChanges
  <2>1. PICK w : /\ world' = w
                 /\ \/ /\ w = [world EXCEPT !.rebooting = FALSE]
                       /\ UNCHANGED <<events, missed>>
                    \/ /\ w = [world EXCEPT !.apps = ~world.apps] /\ missed' = missed
                       /\ events' = IF proc = "up" THEN events \cup {"factory-reset.d"}
                                    ELSE events
                    \/ /\ w = [world EXCEPT !.apps = ~world.apps] /\ missed' = TRUE
                       /\ events' = events
    BY <1>7 DEF RebootTargetFails, CustomConfigChanges, WorldBecomes, FileChanged
  <2>2. /\ UNCHANGED <<loopVars, pc, reported, cloud, web, cache, seen, streamVars>>
        /\ UNCHANGED budget \/ Spend("disruptions") \/ Spend("changes")
    BY <1>7 DEF RebootTargetFails, CustomConfigChanges, WorldBecomes, FileChanged
  <2>3. /\ w.asked = world.asked /\ w.refused = world.refused /\ w.request = world.request
        /\ w.performed = world.performed /\ w.result = world.result
        /\ w \in ResetWorlds
    <3>1. (~world.apps) \in BOOLEAN
      BY <1>w
    <3> QED
      BY <1>w, <2>1, <3>1 DEF ResetWorlds
  <2>4. /\ Control' /\ LoopInv' /\ CacheInv' /\ UNCHANGED <<feature, proc, web, cache>>
        /\ IsPatch(web') /\ IsPatch(cache') /\ IsPatch(seen')
    BY <2>2, WorldStep
  <2>5. Data'
    <3>1. StreamTypeOK' /\ missed' \in BOOLEAN
      BY <2>1, <2>2, StreamIs DEF Data
    <3>2. world' \in Worlds[feature]
      BY <1>0, <2>1, <2>3, WorldsAre
    <3>3. events' \subseteq events \cup {"factory-reset.d"}
      BY <2>1
    <3> QED
      BY <2>2, <2>4, <3>1, <3>2, <3>3, DataIs
  <2>6. RequestInv'
    BY <1>r, <2>1, <2>3 DEF RequestInv
  <2>7. ResetInv'
    <3> SUFFICES ASSUME Up' PROVE ResetInv'
      BY DEF ResetInv
    <3>1. proc = "up" /\ web = cache /\ DOMAIN cache = ResetFields(world)
          /\ ("result" \in DOMAIN cache => cache["result"] = world.result)
          /\ (cache.keys = KeysOf(world) \/ "factory-reset.d" \in events \/ missed)
      BY <1>0, <2>4 DEF ResetInv, Up
    <3>2. \/ w.apps = world.apps /\ UNCHANGED <<events, missed>>
          \/ "factory-reset.d" \in events' \/ missed'
      BY <1>w, <2>1, <3>1
    <3>3. /\ (KeysOf(world))' = KeysOf(w)
          /\ (ResetFields(world))' = ResetFields(world)
      BY <2>1, <2>3 DEF ResetFields
    <3>4. w.apps = world.apps => KeysOf(w) = KeysOf(world)
      BY DEF KeysOf
    <3> QED
      BY <2>1, <2>3, <2>4, <3>1, <3>2, <3>3, <3>4 DEF ResetInv
  <2> QED
    BY <1>0, <2>4, <2>5, <2>6, <2>7, OwnInv
<1>8. CASE DeviceReboots \/ PowerCycle
  <2>1. /\ world' = Boot(world) /\ Exit /\ cloud' = cloud
        /\ UNCHANGED budget \/ Spend("disruptions")
    BY <1>8 DEF DeviceReboots, PowerCycle
  <2>2. feature' = feature /\ IsPatch(cloud')
    BY <2>1 DEF Exit, Control
  <2>3. world' \in Worlds[feature] /\ RequestInv'
    BY <1>0, <2>1, <2>2, BootIs
  <2> QED
    BY <2>1, <2>2, <2>3, ExitLoop, ExitData, ExitInvs
<1> QED
  BY <1>1, <1>2, <1>3, <1>4, <1>5, <1>6, <1>7, <1>8 DEF ResetActions

-----------------------------------------------------------------------------
(* Device update consent                                                   *)

\* A file that a step leaves alone stays as current as it was,
LEMMA FileKept ==
  ASSUME NEW file, world'[file] = world[file], file \in events => file \in events',
         file \in DOMAIN Shown => file \in DOMAIN Shown' /\ Shown'[file] = Shown[file]
  PROVE  (ShownFile(file) => ShownFile(file)') /\ (FileCurrent(file) => FileCurrent(file)')
BY DEF ShownFile, FileCurrent

\* and one that is reported is shown, the others as they were.
LEMMA FileSent ==
  ASSUME NEW file, NEW p, DOMAIN p = {file}, p[file] = world[file],
         world'[file] = world[file], ShownPatched(p)
  PROVE  /\ ShownFile(file)' /\ FileCurrent(file)'
         /\ \A g : g # file /\ g \in DOMAIN Shown =>
              g \in DOMAIN Shown' /\ Shown'[g] = Shown[g]
<1>1. ShownFile(file)'
  BY DEF ShownFile, ShownPatched
<1>2. FileCurrent(file)'
  BY <1>1 DEF FileCurrent
<1> QED
  BY <1>1, <1>2 DEF ShownPatched

\* The world of consent, and the patch of each of its files.
LEMMA ConsentWorldIs ==
  ASSUME Data, feature = "consent"
  PROVE  /\ world \in [general_consent : Consents \cup {Torn}, granted : BOOLEAN,
                       user_consent_request : {"old", "new", Torn},
                       user_consent_history : {"old", "new", Torn}]
         /\ \A file \in ConsentFile :
              /\ DOMAIN FileOf(file) = {file} /\ FileOf(file)[file] = world[file]
              /\ world[file] # Torn => IsPatch(FileOf(file))
<1>1. world \in [general_consent : Consents \cup {Torn}, granted : BOOLEAN,
                 user_consent_request : {"old", "new", Torn},
                 user_consent_history : {"old", "new", Torn}]
  BY WorldsAre DEF Data, ConsentWorlds
<1>2. ASSUME NEW file \in ConsentFile
      PROVE  DOMAIN FileOf(file) = {file} /\ FileOf(file)[file] = world[file]
  BY DEF FileOf
<1>3. ASSUME NEW file \in ConsentFile, world[file] # Torn
      PROVE  IsPatch(FileOf(file))
  <2>1. file \in DOMAIN Values
    BY DEF ConsentFile, Watched, Values
  <2>2. CASE file = "general_consent"
    BY <1>1, <1>2, <1>3, <2>1, <2>2, ValuesAre DEF IsPatch
  <2>3. CASE file = "user_consent_request"
    <3>1. world[file] \in {"old", "new", Torn}
      BY <1>1, <2>3
    <3>2. world[file] \in Values[file]
      BY <1>3, <2>3, <3>1, ValuesAre
    <3> QED
      BY <1>2, <2>1, <3>2 DEF IsPatch
  <2>4. CASE file = "user_consent_history"
    <3>1. world[file] \in {"old", "new", Torn}
      BY <1>1, <2>4
    <3>2. world[file] \in Values[file]
      BY <1>3, <2>4, <3>1, ValuesAre
    <3> QED
      BY <1>2, <2>1, <3>2 DEF IsPatch
  <2> QED
    BY <2>2, <2>3, <2>4 DEF ConsentFile, Watched
<1> QED
  BY <1>1, <1>2, <1>3

\* The parts of ConsentInv that are about the files, for a step to show.
LEMMA ConsentFiles ==
  ASSUME feature' = "consent", cache' = Nothing, events' \subseteq Watched,
         pc' = "write" =>
           /\ \E consent \in Consents : seen' = [general_consent |-> consent]
           /\ world'.general_consent = Torn,
         pc' = "saved" => /\ world'.general_consent # Torn
                          /\ seen' = [general_consent |-> world'.general_consent],
         auth' /\ pc' # "saved" =>
           world'.general_consent = Torn \/ ShownFile("general_consent")',
         auth' => FileCurrent("user_consent_request")' /\ FileCurrent("user_consent_history")',
         connecting' /\ pc' \in {"request", "history"} =>
           world'.general_consent = Torn \/ ShownFile("general_consent")',
         connecting' /\ pc' = "history" => FileCurrent("user_consent_request")'
  PROVE  ConsentInv'
BY DEF ConsentInv, Watched

\* The parts of ConsentInv, for a step to use.
LEMMA ConsentParts ==
  ASSUME ConsentInv, feature = "consent"
  PROVE  /\ cache = Nothing /\ events \subseteq Watched
         /\ pc = "write" => /\ \E consent \in Consents : seen = [general_consent |-> consent]
                            /\ world.general_consent = Torn
         /\ pc = "saved" => /\ world.general_consent # Torn
                            /\ seen = [general_consent |-> world.general_consent]
         /\ auth /\ pc # "saved" =>
              world.general_consent = Torn \/ ShownFile("general_consent")
         /\ auth => FileCurrent("user_consent_request") /\ FileCurrent("user_consent_history")
         /\ connecting /\ pc \in {"request", "history"} =>
              world.general_consent = Torn \/ ShownFile("general_consent")
         /\ connecting /\ pc = "history" => FileCurrent("user_consent_request")
BY DEF ConsentInv, Watched

\* A step that leaves what is not the world, nor a file event.
LEMMA ConsentData ==
  ASSUME Data, feature = "consent",
         UNCHANGED <<feature, web, cache, missed, streamVars>>,
         IsPatch(seen'), events' \subseteq events \cup Watched, world' \in ConsentWorlds,
         NEW what, UNCHANGED budget \/ Spend(what)
  PROVE  Data'
<1>1. IsPatch(web') /\ IsPatch(cache') /\ missed' \in BOOLEAN /\ StreamTypeOK'
      /\ feature' = feature
  BY StreamIs DEF Data
<1>2. world' \in Worlds[feature]
  BY WorldsAre
<1>3. events' \subseteq events \cup Watched \cup {"synchronized", "factory-reset.d"}
  OBVIOUS
<1> QED
  BY <1>1, <1>2, <1>3, DataIs

\* The step of connect_twin that reports a file.
LEMMA ConsentReported ==
  ASSUME Held, feature = "consent", proc = "up", NEW file \in ConsentFile,
         world[file] # Torn, NEW p, p = FileOf(file),
         \/ Finish(<<p>>)
         \/ \E step \in {"request", "history"} : Continue(step, <<p>>),
         UNCHANGED <<web, cache, seen, missed, world, budget, streamVars>>,
         events' = events \/ events' = events \ {file}
  PROVE  /\ Control' /\ LoopInv' /\ Data' /\ UNCHANGED <<feature, cache, proc>>
         /\ auth' => auth \/ connecting
         /\ auth \/ connecting =>
              /\ ShownFile(file)' /\ FileCurrent(file)'
              /\ \A g : g # file => /\ ShownFile(g) => ShownFile(g)'
                                    /\ FileCurrent(g) => FileCurrent(g)'
<1> USE DEF Held
<1>1. IsPatch(p) /\ DOMAIN p = {file} /\ p[file] = world[file] /\ world' \in ConsentWorlds
  BY ConsentWorldIs DEF ConsentWorlds
<1>2. /\ Control' /\ LoopInv' /\ UNCHANGED <<feature, proc>>
      /\ auth' => auth \/ connecting
      /\ auth \/ connecting => ShownPatched(p)
  <2>1. CASE Finish(<<p>>)
    BY <1>1, <2>1, FinishLoop, FinishWithIs, SendableIs
  <2>2. CASE \E step \in {"request", "history"} : Continue(step, <<p>>)
    <3>1. PICK step \in {"request", "history"} : Continue(step, <<p>>)
      BY <2>2
    <3>2. Control' /\ LoopInv'
      BY <1>1, <3>1, ContinueLoop, SendableIs DEF ConnectSteps
    <3>3. UNCHANGED <<feature, proc, auth>> /\ (auth \/ connecting => ShownPatched(p))
      BY <3>1, ContinueWithIs
    <3> QED
      BY <3>2, <3>3
  <2> QED
    BY <2>1, <2>2
<1>3. Data'
  <2>1. IsPatch(seen') /\ events' \subseteq events \cup Watched /\ budget' = budget
    BY DEF Data
  <2> QED
    BY <1>1, <1>2, <2>1, ConsentData
<1>4. ASSUME auth \/ connecting
      PROVE  /\ ShownFile(file)' /\ FileCurrent(file)'
             /\ \A g : g # file => /\ ShownFile(g) => ShownFile(g)'
                                   /\ FileCurrent(g) => FileCurrent(g)'
  <2>1. ShownPatched(p) /\ \A g : world'[g] = world[g]
    BY <1>2, <1>4
  <2>2. /\ ShownFile(file)' /\ FileCurrent(file)'
        /\ \A g : g # file /\ g \in DOMAIN Shown =>
             g \in DOMAIN Shown' /\ Shown'[g] = Shown[g]
    BY <1>1, <2>1, FileSent
  <2>3. ASSUME NEW g, g # file
        PROVE  (ShownFile(g) => ShownFile(g)') /\ (FileCurrent(g) => FileCurrent(g)')
    BY <2>1, <2>2, <2>3, FileKept
  <2> QED
    BY <2>2, <2>3
<1> QED
  BY <1>2, <1>3, <1>4

\* The steps of device update consent.
LEMMA ConsentStep ==
  ASSUME Held, ConsentActions
  PROVE  Held'
<1> USE DEF Held
<1>0. feature = "consent" /\ CacheInv /\ ConsentInv
  BY Owners DEF FeatureInvs
<1>p. /\ cache = Nothing /\ events \subseteq Watched
      /\ pc = "write" => /\ \E consent \in Consents : seen = [general_consent |-> consent]
                         /\ world.general_consent = Torn
      /\ pc = "saved" => /\ world.general_consent # Torn
                         /\ seen = [general_consent |-> world.general_consent]
      /\ auth /\ pc # "saved" => world.general_consent = Torn \/ ShownFile("general_consent")
      /\ auth => FileCurrent("user_consent_request") /\ FileCurrent("user_consent_history")
      /\ connecting /\ pc \in {"request", "history"} =>
           world.general_consent = Torn \/ ShownFile("general_consent")
      /\ connecting /\ pc = "history" => FileCurrent("user_consent_request")
  BY <1>0, ConsentParts
<1>w. world \in [general_consent : Consents \cup {Torn}, granted : BOOLEAN,
                 user_consent_request : {"old", "new", Torn},
                 user_consent_history : {"old", "new", Torn}]
  BY <1>0, ConsentWorldIs
<1>1. CASE ConsentNew
  <2>1. New("consent", Nothing, Nothing, "unused")
    BY <1>1 DEF ConsentNew
  <2>2. Control' /\ LoopInv'
    BY <2>1, NewLoop
  <2>3. /\ Data' /\ CacheInv' /\ feature' = "consent" /\ cache' = Nothing
        /\ auth' = FALSE /\ connecting' = FALSE /\ pc' = "idle" /\ events' = events
    BY <1>0, <2>1, NewIs, Patches
  <2>4. ConsentInv'
    BY <1>p, <2>3, ConsentFiles
  <2> QED
    BY <2>2, <2>3, <2>4, OwnInv
<1>2. CASE ConsentConnect
  <2>1. /\ proc = "up"
        /\ UNCHANGED <<web, cache, seen, events, missed, world, budget, streamVars>>
    BY <1>2 DEF ConsentConnect, At, worldVars
  <2>2. CASE /\ pc = "general" /\ world.general_consent # Torn
             /\ Continue("request", <<FileOf("general_consent")>>)
    <3>1. PICK p : p = FileOf("general_consent")
      OBVIOUS
    <3>2. Continue("request", <<p>>) /\ pc' = "request" /\ connecting' = connecting
      BY <2>2, <3>1 DEF Continue, loopVars
    <3>3. /\ Control' /\ LoopInv' /\ Data' /\ UNCHANGED <<feature, cache, proc>>
          /\ auth' => auth \/ connecting
          /\ auth \/ connecting =>
               /\ ShownFile("general_consent")' /\ FileCurrent("general_consent")'
               /\ \A g : g # "general_consent" =>
                    /\ ShownFile(g) => ShownFile(g)'
                    /\ FileCurrent(g) => FileCurrent(g)'
      BY <1>0, <2>1, <2>2, <3>1, <3>2, ConsentReported DEF ConsentFile
    <3>4. auth' = auth /\ events' = events
      BY <2>1, <2>2 DEF Continue, loopVars
    <3>5. ConsentInv'
      BY <1>0, <1>p, <3>2, <3>3, <3>4, ConsentFiles
    <3> QED
      BY <1>0, <1>p, <3>3, <3>5, CacheEmpty, OwnInv
  <2>3. CASE /\ pc = "request" /\ world.user_consent_request # Torn
             /\ Continue("history", <<FileOf("user_consent_request")>>)
    <3>1. PICK p : p = FileOf("user_consent_request")
      OBVIOUS
    <3>2. Continue("history", <<p>>) /\ pc' = "history" /\ connecting' = connecting
      BY <2>3, <3>1 DEF Continue, loopVars
    <3>3. /\ Control' /\ LoopInv' /\ Data' /\ UNCHANGED <<feature, cache, proc>>
          /\ auth' => auth \/ connecting
          /\ auth \/ connecting =>
               /\ ShownFile("user_consent_request")' /\ FileCurrent("user_consent_request")'
               /\ \A g : g # "user_consent_request" =>
                    /\ ShownFile(g) => ShownFile(g)'
                    /\ FileCurrent(g) => FileCurrent(g)'
      BY <1>0, <2>1, <2>3, <3>1, <3>2, ConsentReported DEF ConsentFile, Watched
    <3>4. auth' = auth /\ events' = events /\ world' = world
      BY <2>1, <2>3 DEF Continue, loopVars
    <3>5. ConsentInv'
      BY <1>0, <1>p, <2>3, <3>2, <3>3, <3>4, ConsentFiles
    <3> QED
      BY <1>0, <1>p, <3>3, <3>5, CacheEmpty, OwnInv
  <2>4. CASE /\ pc = "history" /\ world.user_consent_history # Torn
             /\ Finish(<<FileOf("user_consent_history")>>)
    <3>1. PICK p : p = FileOf("user_consent_history")
      OBVIOUS
    <3>2. Finish(<<p>>) /\ pc' = "idle" /\ connecting' = FALSE
      BY <2>4, <3>1 DEF Finish
    <3>3. /\ Control' /\ LoopInv' /\ Data' /\ UNCHANGED <<feature, cache, proc>>
          /\ auth' => auth \/ connecting
          /\ auth \/ connecting =>
               /\ ShownFile("user_consent_history")' /\ FileCurrent("user_consent_history")'
               /\ \A g : g # "user_consent_history" =>
                    /\ ShownFile(g) => ShownFile(g)'
                    /\ FileCurrent(g) => FileCurrent(g)'
      BY <1>0, <2>1, <2>4, <3>1, <3>2, ConsentReported DEF ConsentFile, Watched
    <3>4. events' = events /\ world' = world
      BY <2>1
    <3>5. ConsentInv'
      BY <1>0, <1>p, <2>4, <3>2, <3>3, <3>4, ConsentFiles
    <3> QED
      BY <1>0, <1>p, <3>3, <3>5, CacheEmpty, OwnInv
  <2> QED
    BY <1>2, <2>2, <2>3, <2>4 DEF ConsentConnect, At
<1>3. CASE ConsentUnparsable
  <2>1. proc = "up" /\ pc # "saved" /\ Fail(FALSE) /\ world' = world /\ budget' = budget
    BY <1>3 DEF ConsentUnparsable, At, worldVars
  <2> QED
    BY <1>0, <2>1, FailStep
<1>4. CASE ConsentEvent
  <2>1. PICK file \in events :
          /\ Finish(IF world[file] = Torn THEN <<>> ELSE <<FileOf(file)>>)
          /\ events' = events \ {file}
    BY <1>4 DEF ConsentEvent
  <2>2. /\ proc = "up" /\ pc = "idle"
        /\ UNCHANGED <<web, cache, seen, missed, world, budget, streamVars>>
    BY <1>4 DEF ConsentEvent, Ready, Idle, worldVars
  <2>3. ~connecting /\ file \in Watched /\ file # "general_consent" /\ file \in ConsentFile
    BY <1>p, <2>2 DEF Control, Watched, ConsentFile
  <2>4. pc' = "idle" /\ connecting' = FALSE /\ events' \subseteq Watched
    BY <1>p, <2>1 DEF Finish
  <2>5. CASE world[file] = Torn
    <3>1. Finish(<<>>)
      BY <2>1, <2>5
    <3>2. Control' /\ LoopInv'
      BY <2>2, <3>1, FinishLoop, SendableIs
    <3>3. ShownKept /\ auth' = auth /\ UNCHANGED <<feature, proc>>
      BY <2>3, <3>1, FinishIs DEF Control
    <3>4. Data'
      <4>1. IsPatch(seen') /\ events' \subseteq events \cup Watched /\ budget' = budget
            /\ world' \in ConsentWorlds
        BY <1>w, <2>1, <2>2 DEF Data, ConsentWorlds
      <4> QED
        BY <1>0, <2>2, <3>3, <4>1, ConsentData
    <3>5. ASSUME NEW g
          PROVE  /\ ShownFile(g) => ShownFile(g)'
                 /\ g # file /\ FileCurrent(g) => FileCurrent(g)'
      <4>1. ShownFile(g) => ShownFile(g)'
        BY <2>2, <3>3 DEF ShownKept, ShownFile
      <4>2. g # file /\ FileCurrent(g) => FileCurrent(g)'
        BY <2>1, <2>2, <4>1 DEF FileCurrent
      <4> QED
        BY <4>1, <4>2
    <3>6. FileCurrent(file)'
      BY <2>2, <2>5 DEF FileCurrent
    <3>7. ConsentInv'
      BY <1>0, <1>p, <2>2, <2>4, <3>3, <3>5, <3>6, ConsentFiles
    <3> QED
      BY <1>0, <1>p, <2>2, <3>2, <3>3, <3>4, <3>7, CacheEmpty, OwnInv
  <2>6. CASE world[file] # Torn
    <3>1. PICK p : p = FileOf(file)
      OBVIOUS
    <3>2. Finish(<<p>>)
      BY <2>1, <2>6, <3>1
    <3>3. /\ Control' /\ LoopInv' /\ Data' /\ UNCHANGED <<feature, cache, proc>>
          /\ auth' => auth \/ connecting
          /\ auth \/ connecting =>
               /\ ShownFile(file)' /\ FileCurrent(file)'
               /\ \A g : g # file => /\ ShownFile(g) => ShownFile(g)'
                                     /\ FileCurrent(g) => FileCurrent(g)'
      BY <1>0, <2>1, <2>2, <2>3, <2>6, <3>1, <3>2, ConsentReported
    <3>4. ConsentInv'
      BY <1>0, <1>p, <2>2, <2>3, <2>4, <3>3, ConsentFiles
    <3> QED
      BY <1>0, <1>p, <3>3, <3>4, CacheEmpty, OwnInv
  <2> QED
    BY <2>5, <2>6
<1>5. CASE DesiredGeneralConsent
  <2>1. /\ proc = "up" /\ pc = "idle" /\ Spend("changes")
        /\ world' = [world EXCEPT !.general_consent = Torn] /\ Continue("write", <<>>)
        /\ UNCHANGED <<web, cache, events, missed, streamVars>>
    BY <1>5 DEF DesiredGeneralConsent, Ready, Idle
  <2>2. PICK desired \in Consents : seen' = [general_consent |-> desired]
    BY <1>5 DEF DesiredGeneralConsent
  <2>3. ~connecting
    BY <2>1 DEF Control
  <2>4. Control' /\ LoopInv'
    BY <2>1, <2>3, ContinueLoop, SendableIs
  <2>5. pc' = "write" /\ ShownKept /\ UNCHANGED <<feature, proc, auth, connecting>>
    BY <2>1, ContinueIs
  <2>6. /\ world' \in ConsentWorlds /\ world'.general_consent = Torn
        /\ world'["user_consent_request"] = world["user_consent_request"]
        /\ world'["user_consent_history"] = world["user_consent_history"]
    BY <1>w, <2>1 DEF ConsentWorlds
  <2>7. Data'
    <3>1. IsPatch(seen') /\ events' = events
      BY <2>1, <2>2, Patches, ValuesAre
    <3> QED
      BY <1>0, <2>1, <2>5, <2>6, <3>1, ConsentData
  <2>8. /\ FileCurrent("user_consent_request") => FileCurrent("user_consent_request")'
        /\ FileCurrent("user_consent_history") => FileCurrent("user_consent_history")'
    BY <2>1, <2>5, <2>6, FileKept DEF ShownKept
  <2>9. ConsentInv'
    BY <1>0, <1>p, <2>1, <2>2, <2>3, <2>5, <2>6, <2>8, ConsentFiles
  <2> QED
    BY <1>0, <1>p, <2>1, <2>4, <2>5, <2>7, <2>9, CacheEmpty, OwnInv
<1>6. CASE SaveGeneralConsent
  <2>1. /\ proc = "up" /\ pc = "write" /\ Continue("saved", <<>>)
        /\ world' = [world EXCEPT !.general_consent = seen.general_consent]
        /\ UNCHANGED <<web, cache, seen, events, missed, budget, streamVars>>
    BY <1>6 DEF SaveGeneralConsent, At
  <2>2. PICK consent \in Consents : seen = [general_consent |-> consent]
    BY <1>p, <2>1
  <2>3. ~connecting
    BY <2>1, NotConnecting DEF ConnectSteps
  <2>4. Control' /\ LoopInv'
    BY <2>1, <2>3, ContinueLoop, SendableIs
  <2>5. pc' = "saved" /\ ShownKept /\ UNCHANGED <<feature, proc, auth, connecting>>
    BY <2>1, ContinueIs
  <2>6. /\ world' \in ConsentWorlds /\ world'.general_consent = consent
        /\ world'["user_consent_request"] = world["user_consent_request"]
        /\ world'["user_consent_history"] = world["user_consent_history"]
    BY <1>w, <2>1, <2>2 DEF ConsentWorlds
  <2>7. consent # Torn
    OBVIOUS
  <2>8. Data'
    <3>1. IsPatch(seen') /\ events' = events /\ budget' = budget
      BY <2>1 DEF Data
    <3> QED
      BY <1>0, <2>1, <2>5, <2>6, <3>1, ConsentData
  <2>9. /\ FileCurrent("user_consent_request") => FileCurrent("user_consent_request")'
        /\ FileCurrent("user_consent_history") => FileCurrent("user_consent_history")'
    BY <2>1, <2>5, <2>6, FileKept DEF ShownKept
  <2>10. ConsentInv'
    BY <1>0, <1>p, <2>1, <2>2, <2>3, <2>5, <2>6, <2>7, <2>9, ConsentFiles
  <2> QED
    BY <1>0, <1>p, <2>1, <2>4, <2>5, <2>8, <2>10, CacheEmpty, OwnInv
<1>7. CASE SaveFails
  <2>1. proc = "up" /\ pc = "write" /\ Spend("disruptions") /\ Fail(FALSE) /\ world' = world
    BY <1>7 DEF SaveFails, At
  <2> QED
    BY <1>0, <2>1, FailStep
<1>8. CASE ReportGeneralConsent
  <2>1. /\ proc = "up" /\ pc = "saved" /\ Finish(<<seen>>) /\ seen' = Nothing
        /\ UNCHANGED <<web, cache, events, missed, world, budget, streamVars>>
        /\ IsPatch(seen)
    BY <1>8 DEF ReportGeneralConsent, At, worldVars, Data
  <2>2. ~connecting
    BY <2>1, NotConnecting DEF ConnectSteps
  <2>3. PICK p : p = seen
    OBVIOUS
  <2>4. /\ Finish(<<p>>) /\ IsPatch(p) /\ DOMAIN p = {"general_consent"}
        /\ p["general_consent"] = world["general_consent"]
    BY <1>p, <2>1, <2>3
  <2>5. Control' /\ LoopInv'
    BY <2>1, <2>4, FinishLoop, SendableIs
  <2>6. /\ pc' = "idle" /\ connecting' = FALSE /\ (auth' => ShownPatched(p) /\ auth)
        /\ UNCHANGED <<feature, proc>>
    BY <2>2, <2>4, FinishWithIs
  <2>7. Data'
    <3>1. IsPatch(seen') /\ events' = events /\ budget' = budget /\ world' \in ConsentWorlds
      BY <1>w, <2>1, Patches DEF ConsentWorlds
    <3> QED
      BY <1>0, <2>1, <2>6, <3>1, ConsentData
  <2>8. ASSUME auth'
        PROVE  /\ ShownFile("general_consent")'
               /\ FileCurrent("user_consent_request") => FileCurrent("user_consent_request")'
               /\ FileCurrent("user_consent_history") => FileCurrent("user_consent_history")'
    <3>1. /\ ShownFile("general_consent")'
          /\ \A g : g # "general_consent" /\ g \in DOMAIN Shown =>
               g \in DOMAIN Shown' /\ Shown'[g] = Shown[g]
      BY <2>1, <2>4, <2>6, <2>8, FileSent
    <3>2. FileCurrent("user_consent_request") => FileCurrent("user_consent_request")'
      BY <2>1, <3>1, FileKept
    <3>3. FileCurrent("user_consent_history") => FileCurrent("user_consent_history")'
      BY <2>1, <3>1, FileKept
    <3> QED
      BY <3>1, <3>2, <3>3
  <2>9. ConsentInv'
    BY <1>0, <1>p, <2>1, <2>6, <2>8, ConsentFiles
  <2> QED
    BY <1>0, <1>p, <2>1, <2>5, <2>6, <2>7, <2>9, CacheEmpty, OwnInv
<1>9. CASE UserConsent
  <2>1. /\ proc = "up" /\ pc = "idle" /\ Spend("changes") /\ Finish(<<>>)
        /\ world' = [world EXCEPT !.granted = TRUE]
        /\ UNCHANGED <<web, cache, seen, events, missed, streamVars>>
    BY <1>9 DEF UserConsent, Ready, Idle
  <2>2. ~connecting
    BY <2>1 DEF Control
  <2>3. Control' /\ LoopInv'
    BY <2>1, FinishLoop, SendableIs
  <2>4. /\ pc' = "idle" /\ connecting' = FALSE /\ ShownKept /\ auth' = auth
        /\ UNCHANGED <<feature, proc>>
    BY <2>1, <2>2, FinishIs DEF Control
  <2>5. /\ world' \in ConsentWorlds /\ world'["general_consent"] = world["general_consent"]
        /\ world'["user_consent_request"] = world["user_consent_request"]
        /\ world'["user_consent_history"] = world["user_consent_history"]
    BY <1>w, <2>1 DEF ConsentWorlds
  <2>6. Data'
    <3>1. IsPatch(seen') /\ events' = events
      BY <2>1 DEF Data
    <3> QED
      BY <1>0, <2>1, <2>4, <2>5, <3>1, ConsentData
  <2>7. /\ ShownFile("general_consent") => ShownFile("general_consent")'
        /\ FileCurrent("user_consent_request") => FileCurrent("user_consent_request")'
        /\ FileCurrent("user_consent_history") => FileCurrent("user_consent_history")'
    BY <2>1, <2>4, <2>5, FileKept DEF ShownKept
  <2>8. ConsentInv'
    BY <1>0, <1>p, <2>1, <2>4, <2>5, <2>7, ConsentFiles
  <2> QED
    BY <1>0, <1>p, <2>1, <2>3, <2>4, <2>6, <2>8, CacheEmpty, OwnInv
<1>10. CASE ConsentToolTruncates \/ ConsentToolWrites
  <2>1. PICK file \in Watched, v \in {"new", Torn} :
          FileChanged(file, [world EXCEPT ![file] = v])
    BY <1>10 DEF ConsentToolTruncates, ConsentToolWrites
  <2>2. /\ world' = [world EXCEPT ![file] = v]
        /\ events' = IF proc = "up" THEN events \cup {file} ELSE events
        /\ UNCHANGED <<loopVars, pc, reported, cloud, web, cache, seen, missed, streamVars>>
        /\ UNCHANGED budget \/ Spend("changes")
    BY <1>10, <2>1 DEF FileChanged, ConsentToolTruncates, ConsentToolWrites
  <2>3. /\ Control' /\ LoopInv' /\ CacheInv' /\ ShownKept
        /\ UNCHANGED <<feature, proc, auth, connecting, pc, cache, seen>> /\ IsPatch(seen')
    BY <2>2, WorldStep
  <2>4. /\ world' \in ConsentWorlds /\ world'["general_consent"] = world["general_consent"]
        /\ \A g \in Watched \ {file} : world'[g] = world[g]
    <3>1. CASE file = "user_consent_request"
      BY <1>w, <2>2, <3>1 DEF ConsentWorlds, Watched
    <3>2. CASE file = "user_consent_history"
      BY <1>w, <2>2, <3>2 DEF ConsentWorlds, Watched
    <3> QED
      BY <3>1, <3>2 DEF Watched
  <2>5. Data'
    <3>1. events' \subseteq events \cup Watched
      BY <2>2
    <3> QED
      BY <1>0, <2>2, <2>3, <2>4, <3>1, ConsentData
  <2>6. auth \/ connecting => file \in events'
    <3>1. auth \/ connecting => proc = "up"
      BY DEF Control
    <3> QED
      BY <2>2, <3>1
  <2>7. ShownFile("general_consent") => ShownFile("general_consent")'
    BY <2>2, <2>3, <2>4 DEF ShownFile, ShownKept
  <2>8. ASSUME NEW g \in Watched, auth \/ connecting
        PROVE  FileCurrent(g) => FileCurrent(g)'
    <3>1. CASE g = file
      BY <2>6, <2>8, <3>1 DEF FileCurrent
    <3>2. CASE g # file
      BY <2>2, <2>3, <2>4, <3>2, FileKept DEF ShownKept
    <3> QED
      BY <3>1, <3>2
  <2>9. events' \subseteq Watched
    BY <1>p, <2>2
  <2>10. "user_consent_request" \in Watched /\ "user_consent_history" \in Watched
    BY DEF Watched
  <2>11. ConsentInv'
    BY <1>0, <1>p, <2>3, <2>4, <2>7, <2>8, <2>9, <2>10, ConsentFiles
  <2> QED
    BY <1>0, <2>3, <2>5, <2>11, OwnInv
<1> QED
  BY <1>1, <1>2, <1>3, <1>4, <1>5, <1>6, <1>7, <1>8, <1>9, <1>10 DEF ConsentActions

-----------------------------------------------------------------------------
(* The inductive invariant                                                 *)

\* Held is IInv, part by part.
LEMMA HeldIs == (IInv <=> Held) /\ (IInv' <=> Held')
<1>1. IInv <=> Held
  BY TypeOKIs DEF IInv, Held, FeatureInvs
<1>2. TypeOK' <=> Control' /\ Data'
  BY DEF TypeOK, Control, Data
<1>3. IInv' <=> Held'
  BY <1>2 DEF IInv, Held, FeatureInvs
<1> QED
  BY <1>1, <1>3

\* A first start finds what the features are made for.
LEMMA Start == Init => IInv
<1> SUFFICES ASSUME Init PROVE Held
  BY HeldIs
<1>1. /\ feature \in Features /\ proc = "down" /\ client = FALSE /\ auth = FALSE
      /\ tx = FALSE /\ pc = "idle" /\ connecting = FALSE /\ waiting = FALSE
      /\ reported = <<>> /\ cloud = Nothing /\ web = Nothing /\ world \in FirstWorlds
      /\ cache = Nothing /\ seen = Nothing /\ events = {} /\ missed = FALSE
      /\ budget = [disruptions |-> MaxDisruptions, changes |-> MaxChanges]
      /\ source = "unused" /\ signals = FALSE /\ deadline = FALSE /\ emitting = FALSE
      /\ queue = 0
  BY DEF Init
<1>2. Control
  <2>1. {client, auth, tx, connecting, waiting} \subseteq BOOLEAN
    BY <1>1
  <2>2. IsPatch(cloud) /\ DOMAIN reported = {}
    BY <1>1, Patches
  <2> QED
    BY <1>1, <2>1, <2>2 DEF Control
<1>3. LoopInv
  BY <1>1, Ranges DEF LoopInv
<1>4. /\ world \in Worlds[feature]
      /\ feature = "factory_reset" =>
           world.request = NoReset /\ world.asked = 0 /\ world.refused = {}
           /\ world.performed = {}
  <2>1. CASE feature = "factory_reset"
    <3>1. world \in [apps : {FALSE}, request : {NoReset}, result : {NoReset},
                     rebooting : {FALSE}, asked : {0}, refused : {{}}, performed : {{}}]
      BY <1>1, <2>1 DEF FirstWorlds
    <3>2. NoReset \in 0..MaxResets /\ 0 \in 0..MaxResets /\ FALSE \in BOOLEAN
          /\ {} \in SUBSET (1..MaxResets)
      BY DEF NoReset
    <3>3. world \in ResetWorlds
      BY <3>1, <3>2 DEF ResetWorlds
    <3> QED
      BY <2>1, <3>1, <3>3, WorldsAre
  <2>2. CASE feature = "consent"
    <3>1. world \in [general_consent : Consents, granted : {FALSE},
                     user_consent_request : {"old"}, user_consent_history : {"old"}]
      BY <1>1, <2>2 DEF FirstWorlds
    <3>2. world \in ConsentWorlds
      BY <3>1 DEF ConsentWorlds
    <3> QED
      BY <2>2, <3>2, WorldsAre
  <2>3. CASE feature = "wifi"
    <3>1. world \in WifiWorlds
      BY <1>1, <2>3 DEF FirstWorlds
    <3> QED
      BY <2>3, <3>1, WorldsAre
  <2>4. CASE feature \notin {"factory_reset", "consent", "wifi"}
    BY <1>1, <2>4 DEF FirstWorlds
  <2> QED
    BY <2>1, <2>2, <2>3, <2>4
<1>5. Data
  <2>1. \A k \in DOMAIN budget : budget[k] \in Nat
    BY <1>1
  <2>2. StreamTypeOK
    <3>1. queue \in 0..1
      BY <1>1
    <3>2. signals \in BOOLEAN /\ deadline \in BOOLEAN /\ emitting \in BOOLEAN
      BY <1>1
    <3> QED
      BY <1>1, <3>1, <3>2 DEF StreamTypeOK
  <2> QED
    BY <1>1, <1>4, <2>1, <2>2, Patches DEF Data
<1>6. FeatureInvs
  <2>1. ~Up
    BY <1>1 DEF Up
  <2>2. CacheInv /\ SystemInv /\ WaitOnlineInv /\ ResetInv /\ CaInv
    BY <1>1, <2>1 DEF CacheInv, SystemInv, WaitOnlineInv, ResetInv, CaInv
  <2>3. NetworkInv /\ ConsentInv
    BY <1>1, <2>1 DEF NetworkInv, ConsentInv
  <2>4. RequestInv
    BY <1>4 DEF RequestInv, NoReset
  <2> QED
    BY <2>2, <2>3, <2>4 DEF FeatureInvs
<1> QED
  BY <1>2, <1>3, <1>5, <1>6 DEF Held

\* Every step preserves it.
LEMMA Preserved == IInv /\ [Next]_vars => IInv'
<1> SUFFICES ASSUME Held, [Next]_vars PROVE Held'
  BY HeldIs
<1>1. CASE LoopActions
  <2>1. Control' /\ LoopInv' /\ Data' /\ (Quiet \/ Begins \/ Exits)
    BY <1>1, LoopStep DEF Held
  <2>2. FeatureInvs'
    <3>1. CASE Quiet \/ Begins
      BY <3>1, QuietInvs, BeginInvs DEF Held
    <3>2. CASE Exits
      <4>1. Exit /\ world' = world /\ feature' = feature
        BY <3>2 DEF Exits, Exit
      <4>2. RequestInv'
        BY <4>1 DEF Held, FeatureInvs, RequestInv
      <4> QED
        BY <4>1, <4>2, ExitInvs
    <3> QED
      BY <2>1, <3>1, <3>2
  <2> QED
    BY <2>1, <2>2 DEF Held
<1> QED
  BY <1>1, Steps, NetworkStep, WifiStep, ModemStep, ProvisioningStep, ConsentStep,
     SystemStep, WaitOnlineStep, ResetStep, CaStep

\* IInv is an invariant: it is inductive, and the first state satisfies it.
THEOREM Invariance == Spec => []IInv
BY Start, Preserved, PTL DEF Spec

\* Type correctness: TypeOK, whichever feature a behaviour follows.
THEOREM TypeCorrect == Spec => []TypeOK
<1>1. IInv => TypeOK
  BY DEF IInv
<1> QED
  BY <1>1, Invariance, PTL

\* What a feature remembers as reported is what the authenticated twin shows or
\* is about to: reports that the loop drops do not make the two differ.
THEOREM CacheIsReported == Spec => []CacheReported
<1>1. IInv => CacheReported
  BY DEF IInv, CacheInv, CacheReported
<1> QED
  BY <1>1, Invariance, PTL

\* When the twin does not show the world, something will make the feature look
\* again, or the change came in a way that the code gives up on.
THEOREM TwinIsCurrent == Spec => []TwinCurrent
<1>1. ASSUME IInv PROVE TwinCurrent
  <2> SUFFICES ASSUME auth, Idle, feature \notin Ticking, ~TickComing, events = {}, ~missed
               PROVE  Holds(Shown, View)
    BY DEF TwinCurrent
  <2>1. Control /\ CacheInv /\ Up /\ pc = "idle"
    BY <1>1, TypeOKIs DEF IInv, Up, Idle
  <2>2. \A k \in DOMAIN cache \ {"fleet_id"} : k \in DOMAIN Shown /\ Shown[k] = cache[k]
    BY <2>1, CacheIs
  <2>3. CASE feature = "network"
    <3>1. cache = NetworkView
      BY <1>1, <2>1, <2>3 DEF IInv, NetworkInv
    <3>2. Holds(Shown, NetworkView)
      BY <2>2, <3>1 DEF Holds, NetworkView
    <3> QED
      BY <2>3, <3>2 DEF View
  <2>4. CASE feature = "consent"
    <3>1. /\ world.general_consent = Torn \/ ShownFile("general_consent")
          /\ FileCurrent("user_consent_request") /\ FileCurrent("user_consent_history")
      BY <1>1, <2>1, <2>4, ConsentParts DEF IInv
    <3>2. \A file \in ConsentFile : world[file] = Torn \/ ShownFile(file)
      BY <3>1 DEF ConsentFile, Watched, FileCurrent
    <3>3. Holds(Shown, ConsentView)
      BY <3>2 DEF Holds, ConsentView, ShownFile
    <3> QED
      BY <2>4, <3>3 DEF View
  <2>5. CASE feature = "system_info"
    <3>1. "boot_time" \in DOMAIN cache /\ cache.boot_time = world
      BY <1>1, <2>1, <2>5 DEF IInv, SystemInv
    <3>2. Holds(Shown, SystemView)
      BY <2>2, <3>1 DEF Holds, SystemView
    <3> QED
      BY <2>5, <3>2 DEF View
  <2>6. CASE feature = "wait_online"
    <3>1. Holds(Shown, WaitOnlineView)
      BY <1>1, <2>1, <2>6 DEF IInv, WaitOnlineInv
    <3> QED
      BY <2>6, <3>1 DEF View
  <2>7. CASE feature = "factory_reset"
    <3>1. /\ DOMAIN cache = ResetFields(world) /\ cache.keys = KeysOf(world)
          /\ "result" \in DOMAIN cache => cache["result"] = world.result
      BY <1>1, <2>1, <2>7 DEF IInv, ResetInv
    <3>2. Holds(Shown, ResetView)
      BY <2>2, <3>1 DEF Holds, ResetView, ResetFields
    <3> QED
      BY <2>7, <3>2 DEF View
  <2>8. CASE feature = "ssh_ca"
    <3>1. Holds(Shown, CaView)
      BY <1>1, <2>1, <2>8 DEF IInv, CaInv
    <3> QED
      BY <2>8, <3>1 DEF View
  <2>9. feature \in DOMAIN FirstStep
    BY <2>1 DEF Control
  <2> QED
    BY <2>3, <2>4, <2>5, <2>6, <2>7, <2>8, <2>9 DEF FirstStep, Ticking
<1> QED
  BY <1>1, Invariance, PTL

\* Between handlers the local status is what the feature remembers, connected or
\* not, and for system information, factory reset and wait-online what the world
\* is, an event tells of or was missed.
THEOREM WebIsCurrent == Spec => []WebCurrent
<1>1. ASSUME IInv PROVE WebCurrent
  <2> SUFFICES ASSUME Idle PROVE WebCurrent
    BY DEF WebCurrent
  <2>1. Up /\ pc = "idle"
    BY DEF Up, Idle
  <2>2. feature = "network" => web = cache \/ (web = Nothing /\ cache.interfaces = {})
    BY <1>1, <2>1 DEF IInv, NetworkInv
  <2>3. feature = "system_info" => web = cache /\ (Holds(web, View) \/ events # {} \/ missed)
    <3>1. ASSUME feature = "system_info", events = {}
          PROVE  web = cache /\ "boot_time" \in DOMAIN web /\ web["boot_time"] = world
      BY <1>1, <2>1, <3>1 DEF IInv, SystemInv
    <3> QED
      BY <1>1, <2>1, <3>1 DEF IInv, SystemInv, Holds, View, SystemView
  <2>5. feature = "factory_reset" => web = cache /\ (Holds(web, View) \/ events # {} \/ missed)
    <3>1. ASSUME feature = "factory_reset"
          PROVE  /\ web = cache /\ DOMAIN web = ResetFields(world)
                 /\ "result" \in DOMAIN web => web["result"] = world.result
                 /\ web.keys = KeysOf(world) \/ events # {} \/ missed
      BY <1>1, <2>1, <3>1 DEF IInv, ResetInv
    <3>2. ASSUME feature = "factory_reset", web.keys = KeysOf(world)
          PROVE  Holds(web, ResetView)
      BY <3>1, <3>2 DEF Holds, ResetView, ResetFields
    <3> QED
      BY <3>1, <3>2 DEF View
  <2>4. feature = "wait_online" => web = View \/ missed
    BY <1>1, <2>1 DEF IInv, WaitOnlineInv, View
  <2> QED
    BY <2>2, <2>3, <2>4, <2>5 DEF WebCurrent
<1> QED
  BY <1>1, Invariance, PTL

\* A reset that was refused is performed by no boot.
THEOREM RefusedIsNotPerformed == Spec => []RefusedNotPerformed
<1>1. IInv => RefusedNotPerformed
  BY DEF IInv, RequestInv, RefusedNotPerformed
<1> QED
  BY <1>1, Invariance, PTL

-----------------------------------------------------------------------------
(* What is reported has been saved                                         *)

\* The channel does not grow without a report.
LEMMA GrowsNot ==
  ASSUME LoopInv,
         \/ reported' = reported \/ reported' = <<>> \/ Send(<<>>)
         \/ reported # <<>> /\ reported' = Tail(reported)
  PROVE  ~(Len(reported') > Len(reported))
<1> DEFINE S == Range(reported)
<1>1. reported \in Seq(S)
  BY DEF LoopInv
<1> HIDE DEF S
<1>2. Send(<<>>) => reported' = reported
  BY <1>1 DEF Send
<1>3. Len(reported) \in Nat /\ Len(<<>>) = 0
      /\ (reported # <<>> => Len(Tail(reported)) = Len(reported) - 1)
  BY <1>1
<1> QED
  BY <1>2, <1>3

\* When it does, the report is its last patch.
LEMMA GrowsBy ==
  ASSUME LoopInv, NEW p, Send(<<p>>), Len(reported') > Len(reported)
  PROVE  Last(reported') = p
<1> DEFINE S == Range(reported)
<1>1. reported \in Seq(S)
  BY DEF LoopInv
<1> HIDE DEF S
<1>2. reported' = reported \o <<p>>
  BY GrowsNot DEF Send
<1>3. Len(reported \o <<p>>) = Len(reported) + 1 /\ Len(reported) \in Nat
      /\ (reported \o <<p>>)[Len(reported) + 1] = p
  BY <1>1
<1> QED
  BY <1>2, <1>3 DEF Last

\* Nor does the loop make it grow.
LEMMA LoopReports ==
  ASSUME Held, LoopActions
  PROVE  ~(Len(reported') > Len(reported))
<1>1. \/ reported' = reported \/ reported' = <<>> \/ Send(<<>>)
      \/ reported # <<>> /\ reported' = Tail(reported)
  BY DEF LoopActions, Kill, Stop, Exit, ConnectClient, Authenticated, SoftLoss, HardLoss,
         Drain, Tick, Notified, Continue, StreamWork, StreamBreaks, vars
<1> QED
  BY <1>1, GrowsNot DEF Held

\* A setting is reported once it is in its file: what the twin was shown survives
\* a crash.
THEOREM ReportsAreSaved == Spec => ReportedIsSaved
<1>1. ASSUME IInv, [Next]_vars PROVE ReportsSaved
  <2> SUFFICES ASSUME feature \in {"consent", "wait_online", "ssh_ca"},
                      Len(reported') > Len(reported),
                      NEW k \in DOMAIN Last(reported')
               PROVE  k \in DOMAIN View' /\ Last(reported')[k] = View'[k]
    BY DEF ReportsSaved
  <2>1. Held /\ LoopInv /\ ~LoopActions
    BY <1>1, HeldIs, LoopReports DEF Held
  <2>2. ConsentActions \/ WaitOnlineActions \/ CaActions
    BY <1>1, <2>1, Steps, Owners
  <2>3. \A p : Send(<<p>>) => Last(reported') = p
    BY <2>1, GrowsBy
  <2>4. ~Send(<<>>) /\ reported' # reported /\ reported' # <<>>
    BY <2>1, GrowsNot
  <2>5. CASE ConsentActions
    <3>1. feature = "consent" /\ ConsentInv
      BY <2>1, <2>5, Owners DEF Held, FeatureInvs
    <3>2. ConsentConnect \/ ConsentEvent \/ ReportGeneralConsent
      BY <2>4, <2>5 DEF ConsentActions, ConsentNew, New, ConsentUnparsable, SaveFails, Fail, Exit,
         DesiredGeneralConsent, SaveGeneralConsent, Continue, UserConsent, Finish,
         ConsentToolTruncates, ConsentToolWrites, FileChanged
    <3>3. feature' = "consent" /\ world' = world
      BY <3>1, <3>2 DEF ConsentConnect, ConsentEvent, ReportGeneralConsent, Continue, Finish,
         loopVars, worldVars
    <3>4. View' = [f \in {g \in ConsentFile : world[g] # Torn} |-> world[f]]
      BY <3>3 DEF View, ConsentView
    <3>5. PICK file \in ConsentFile :
            /\ world[file] # Torn /\ DOMAIN Last(reported') = {file}
            /\ Last(reported')[file] = world[file]
      <4>1. CASE ConsentConnect
        <5>1. PICK file \in ConsentFile : world[file] # Torn /\ Send(<<FileOf(file)>>)
          BY <4>1 DEF ConsentConnect, Continue, Finish, ConsentFile, Watched
        <5>2. Last(reported') = FileOf(file)
          BY <2>3, <5>1
        <5> QED
          BY <2>1, <3>1, <5>1, <5>2, ConsentWorldIs DEF Held
      <4>2. CASE ConsentEvent
        <5>1. PICK file \in events :
                Send(IF world[file] = Torn THEN <<>> ELSE <<FileOf(file)>>)
          BY <4>2 DEF ConsentEvent, Finish
        <5>2. world[file] # Torn /\ Send(<<FileOf(file)>>)
          BY <2>4, <5>1
        <5>3. file \in ConsentFile
          BY <3>1 DEF ConsentInv, ConsentFile
        <5>4. Last(reported') = FileOf(file)
          BY <2>3, <5>2
        <5> QED
          BY <2>1, <3>1, <5>2, <5>3, <5>4, ConsentWorldIs DEF Held
      <4>3. CASE ReportGeneralConsent
        <5>1. Send(<<seen>>) /\ pc = "saved"
          BY <4>3 DEF ReportGeneralConsent, Finish, At
        <5>2. Last(reported') = seen
          BY <2>3, <5>1
        <5>3. world.general_consent # Torn /\ seen = [general_consent |-> world.general_consent]
          BY <3>1, <5>1 DEF ConsentInv
        <5>4. "general_consent" \in ConsentFile
          BY DEF ConsentFile
        <5> QED
          BY <5>2, <5>3, <5>4
      <4> QED
        BY <3>2, <4>1, <4>2, <4>3
    <3> QED
      BY <3>4, <3>5
  <2>6. CASE WaitOnlineActions
    <3>1. feature = "wait_online"
      BY <2>6, Owners
    <3>2. ReportTimeout
      BY <2>4, <2>6 DEF WaitOnlineActions, WaitOnlineNew, New, SetWaitOnlineTimeout, WriteTimeout,
         WriteTimeoutFails, Fail, Exit, Continue
    <3>3. feature' = feature /\ world' = world /\ Send(<<WaitOnlineView>>)
      BY <3>2 DEF ReportTimeout, Finish, worldVars
    <3>4. View' = WaitOnlineView'
      BY <3>1, <3>3 DEF View
    <3>5. WaitOnlineView' = WaitOnlineView /\ Last(reported') = WaitOnlineView
      BY <2>3, <3>3, SameViews
    <3> QED
      BY <3>4, <3>5
  <2>7. CASE CaActions
    <3>1. feature = "ssh_ca"
      BY <2>7, Owners
    <3>2. CaReport
      BY <2>4, <2>7 DEF CaActions, CaNew, New, UpdateDeviceSshCa, TeeExits, TeeFails, Fail, Exit,
         Continue
    <3>3. feature' = feature /\ world' = world /\ Send(<<CaView>>)
      BY <3>2 DEF CaReport, Finish, worldVars
    <3>4. View' = CaView'
      BY <3>1, <3>3 DEF View
    <3>5. CaView' = CaView /\ Last(reported') = CaView
      BY <2>3, <3>3, SameViews
    <3> QED
      BY <3>4, <3>5
  <2> QED
    BY <2>2, <2>5, <2>6, <2>7
<1> QED
  BY <1>1, Invariance, PTL DEF Spec, ReportedIsSaved

-----------------------------------------------------------------------------
(* The abstract specification                                              *)

\* What a step sends: nothing, or one patch.
Sends == \E patches : Send(patches) /\ (patches = <<>> \/ \E p : patches = <<p>>)

\* The ways in which the steps of the features move the loop.
Starting ==
  /\ proc = "down" /\ proc' = "up"
  /\ UNCHANGED <<client, auth, tx, pc, connecting, waiting, reported>>
Unmoved == UNCHANGED <<loopVars, pc, reported>>
Continuing == proc = "up" /\ pc' # "idle" /\ Sends /\ UNCHANGED loopVars
Finishing ==
  /\ proc = "up" /\ pc' = "idle" /\ connecting' = FALSE /\ auth' = (auth \/ connecting)
  /\ Sends
  /\ UNCHANGED <<proc, client, tx, waiting>>
Failing == proc = "up" /\ ~connecting /\ pc' = "idle" /\ UNCHANGED <<loopVars, reported>>
Rebooting ==
  /\ proc = "up" /\ ~connecting /\ pc' = "idle" /\ waiting' = TRUE
  /\ UNCHANGED <<proc, client, auth, tx, connecting, reported>>
Moves ==
  Starting \/ Unmoved \/ Continuing \/ Finishing \/ Failing \/ Rebooting \/ Exit

\* The actions that the steps are made of are such moves.
LEMMA MovesAre ==
  /\ \A f, initial, published, kind : New(f, initial, published, kind) => Moves
  /\ \A step, patches :
       /\ proc = "up" /\ step # "idle" /\ Continue(step, patches)
       /\ patches = <<>> \/ \E p : patches = <<p>>
       => Moves
  /\ \A patches :
       proc = "up" /\ Finish(patches) /\ (patches = <<>> \/ \E p : patches = <<p>>) => Moves
  /\ \A lost : proc = "up" /\ Fail(lost) => Moves
  /\ \A w : proc = "up" /\ ~connecting /\ RebootCommandEnds(w) => Moves
  /\ \A w : WorldBecomes(w) \/ Changed(w) => Moves
  /\ \A file, w : FileChanged(file, w) => Moves
<1>1. ASSUME NEW f, NEW initial, NEW published, NEW kind, New(f, initial, published, kind)
      PROVE  Starting
  BY <1>1 DEF New, Starting
<1>2. ASSUME NEW step, NEW patches, proc = "up", step # "idle", Continue(step, patches),
             patches = <<>> \/ \E p : patches = <<p>>
      PROVE  Continuing
  BY <1>2 DEF Continue, Continuing, Sends
<1>3. ASSUME NEW patches, proc = "up", Finish(patches),
             patches = <<>> \/ \E p : patches = <<p>>
      PROVE  Finishing
  <2>1. Sends
    BY <1>3 DEF Finish, Sends
  <2> QED
    BY <1>3, <2>1 DEF Finish, Finishing
<1>4. ASSUME NEW lost, proc = "up", Fail(lost)
      PROVE  Failing \/ Exit
  BY <1>4 DEF Fail, Failing
<1>5. ASSUME NEW w, proc = "up", ~connecting, RebootCommandEnds(w)
      PROVE  Rebooting
  BY <1>5 DEF RebootCommandEnds, Rebooting
<1>6. ASSUME NEW w, WorldBecomes(w) \/ Changed(w)
      PROVE  Unmoved
  BY <1>6 DEF WorldBecomes, Changed, Unmoved
<1>7. ASSUME NEW file, NEW w, FileChanged(file, w)
      PROVE  Unmoved
  BY <1>7 DEF FileChanged, Unmoved
<1> QED
  BY <1>1, <1>2, <1>3, <1>4, <1>5, <1>6, <1>7 DEF Moves

\* Each action of a feature is a move of the loop.
LEMMA ActionsMove ==
  ASSUME Control, LoopInv,
         \/ NetworkActions \/ WifiActions \/ ModemActions \/ ProvisioningActions
         \/ ConsentActions \/ SystemActions \/ WaitOnlineActions \/ ResetActions
         \/ CaActions
  PROVE  Moves
<1> USE MovesAre DEF At, Ready, Idle
<1>1. CASE NetworkActions
  <2>1. NetworkNew \/ Describe \/ DescribeFails \/ NetworkReloadHangs \/ LinkChanges => Moves
    BY DEF NetworkNew, Describe, DescribeFails, NetworkReloadHangs, LinkChanges, Moves
  <2>2. NetworkUnchanged \/ NetworkReport \/ ReloadNetwork \/ NetworkReloaded => Moves
    BY DEF NetworkUnchanged, NetworkReport, ReloadNetwork, NetworkReloaded
  <2> QED
    BY <1>1, <2>1, <2>2 DEF NetworkActions
<1>2. CASE WifiActions
  <2>1. WifiNew \/ WifiUnits \/ WifiUnitsFail \/ WifiServiceInfo \/ WifiUnreachable => Moves
    BY DEF WifiNew, WifiUnits, WifiUnitsFail, WifiServiceInfo, WifiUnreachable
  <2>2. WifiReport => Moves
    <3>1. ASSUME WifiReport
          PROVE  proc = "up" /\ (Finish(<<>>) \/ Finish(<<seen>>))
      BY <3>1 DEF WifiReport
    <3> QED
      BY <3>1
  <2>3. WifiUnitChanges \/ WifiApiChanges => Moves
    BY DEF WifiUnitChanges, WifiApiChanges
  <2> QED
    BY <1>2, <2>1, <2>2, <2>3 DEF WifiActions
<1>3. CASE ModemActions
  <2>1. ModemNew \/ ModemPaths \/ ModemStatus \/ ModemVanished \/ ModemQueryFails => Moves
    BY DEF ModemNew, ModemPaths, ModemStatus, ModemVanished, ModemQueryFails
  <2>2. ModemUnchanged \/ ModemReport \/ ModemChanges => Moves
    BY DEF ModemUnchanged, ModemReport, ModemChanges
  <2> QED
    BY <1>3, <2>1, <2>2 DEF ModemActions
<1>4. CASE ProvisioningActions
  <2>1. ProvisioningNew \/ ProvisioningConnect \/ Refresh => Moves
    BY DEF ProvisioningNew, ProvisioningConnect, Refresh
  <2>2. CertificateWritten \/ CertificateRemoved \/ CertificatesLost => Moves
    BY DEF CertificateWritten, CertificateRemoved, CertificatesLost
  <2> QED
    BY <1>4, <2>1, <2>2 DEF ProvisioningActions
<1>5. CASE ConsentActions
  <2>1. ConsentNew \/ ConsentConnect \/ ConsentUnparsable => Moves
    BY DEF ConsentNew, ConsentConnect, ConsentUnparsable
  <2>2. ConsentEvent => Moves
    <3>1. ASSUME ConsentEvent
          PROVE  proc = "up" /\ \E file : Finish(<<>>) \/ Finish(<<FileOf(file)>>)
      BY <3>1 DEF ConsentEvent
    <3> QED
      BY <3>1
  <2>3. DesiredGeneralConsent \/ SaveGeneralConsent \/ SaveFails => Moves
    BY DEF DesiredGeneralConsent, SaveGeneralConsent, SaveFails
  <2>4. ReportGeneralConsent \/ UserConsent => Moves
    BY DEF ReportGeneralConsent, UserConsent
  <2>5. ConsentToolTruncates \/ ConsentToolWrites => Moves
    BY DEF ConsentToolTruncates, ConsentToolWrites
  <2> QED
    BY <1>5, <2>1, <2>2, <2>3, <2>4, <2>5 DEF ConsentActions
<1>6. CASE SystemActions
  BY <1>6 DEF SystemActions, SystemNew, SystemConnect, SystemReport, ClockSynchronised,
              FleetId, Synchronises
<1>7. CASE WaitOnlineActions
  <2>1. WaitOnlineNew \/ SetWaitOnlineTimeout => Moves
    BY DEF WaitOnlineNew, SetWaitOnlineTimeout
  <2>2. WriteTimeout \/ WriteTimeoutFails \/ ReportTimeout => Moves
    BY DEF WriteTimeout, WriteTimeoutFails, ReportTimeout
  <2> QED
    BY <1>7, <2>1, <2>2 DEF WaitOnlineActions
<1>8. CASE ResetActions
  <2>1. pc = "idle" \/ pc = "reboot" => ~connecting
    BY NotConnecting DEF ConnectSteps
  <2>2. ResetNew \/ ResetConnect \/ KeysModified => Moves
    BY DEF ResetNew, ResetConnect, KeysModified
  <2>3. ResetToFactorySettings => Moves
    <3>1. ASSUME ResetToFactorySettings
          PROVE  /\ proc = "up" /\ ~connecting
                 /\ (\E w : RebootCommandEnds(w)) \/ Continue("reboot", <<>>)
      BY <2>1, <3>1 DEF ResetToFactorySettings
    <3> QED
      BY <3>1
  <2>4. RebootRequested \/ Reboot => Moves
    BY <2>1 DEF RebootRequested, Reboot
  <2>5. RebootTargetFails \/ DeviceReboots \/ PowerCycle => Moves
    BY DEF RebootTargetFails, DeviceReboots, PowerCycle, Moves
  <2>6. CustomConfigChanges => Moves
    <3>1. ASSUME CustomConfigChanges
          PROVE  Unmoved
      BY <3>1 DEF CustomConfigChanges, FileChanged, Unmoved
    <3> QED
      BY <3>1 DEF Moves
  <2> QED
    BY <1>8, <2>2, <2>3, <2>4, <2>5, <2>6 DEF ResetActions
<1>9. CASE CaActions
  BY <1>9 DEF CaActions, CaNew, UpdateDeviceSshCa, TeeExits, TeeFails, CaReport
<1> QED
  BY <1>1, <1>2, <1>3, <1>4, <1>5, <1>6, <1>7, <1>8, <1>9

\* Reports leave behind what waits already.
LEMMA SendsReport == LoopInv /\ Sends => Connection!Reports
<1> SUFFICES ASSUME LoopInv, Sends PROVE Connection!Reports
  OBVIOUS
<1>1. PICK patches : Send(patches) /\ (patches = <<>> \/ \E p : patches = <<p>>)
  BY DEF Sends
<1>2. CASE patches = <<>> \/ ~tx
  BY <1>1, <1>2, Ranges DEF Send, LoopInv, Connection!Reports
<1>3. ASSUME NEW p, patches = <<p>>, tx PROVE Connection!Reports
  <2> DEFINE S == Range(reported)
  <2>1. reported \in Seq(S) /\ reported' = Append(reported, p)
    BY <1>1, <1>3, Ranges DEF Send, LoopInv
  <2> HIDE DEF S
  <2>2. \A i \in DOMAIN reported : i \in DOMAIN reported' /\ reported'[i] = reported[i]
    BY <2>1
  <2> QED
    BY <1>3, <2>2 DEF Connection!Reports
<1> QED
  BY <1>1, <1>2, <1>3

\* Each move of the loop is a step of the connection.
LEMMA MovesImplement ==
  ASSUME Control, LoopInv, Moves
  PROVE  [Connection!Next]_(Connection!vars)
<1>1. CASE Starting
  <2>1. Connection!Start
    BY <1>1 DEF Starting, Connection!Start
  <2> QED
    BY <2>1 DEF Connection!Next
<1>2. CASE Unmoved
  BY <1>2 DEF Unmoved, loopVars, Connection!vars
<1>3. CASE Continuing
  <2>1. UNCHANGED <<proc, client, auth, tx, connecting, waiting>> /\ pc' # "idle"
    BY <1>3 DEF Continuing, loopVars
  <2>2. Connection!Reports
    BY <1>3, SendsReport DEF Continuing
  <2>3. CASE connecting
    <3>1. pc # "idle"
      BY <2>3 DEF Control
    <3>2. Connection!ConnectStep
      BY <2>1, <2>2, <2>3, <3>1 DEF Connection!ConnectStep
    <3> QED
      BY <3>2 DEF Connection!Next
  <2>4. CASE ~connecting
    <3>1. Connection!Handle
      BY <1>3, <2>1, <2>2, <2>4 DEF Continuing, Connection!Handle, Connection!connection
    <3> QED
      BY <3>1 DEF Connection!Next
  <2> QED
    BY <2>3, <2>4
<1>4. CASE Finishing
  <2>1. /\ UNCHANGED <<proc, client, tx, waiting>> /\ proc = "up"
        /\ pc' = "idle" /\ connecting' = FALSE /\ auth' = (auth \/ connecting)
    BY <1>4 DEF Finishing
  <2>2. Connection!Reports
    BY <1>4, SendsReport DEF Finishing
  <2>3. CASE connecting
    <3>1. pc # "idle" /\ auth' = TRUE
      BY <2>1, <2>3 DEF Control
    <3>2. Connection!ConnectStep
      BY <2>1, <2>2, <2>3, <3>1 DEF Connection!ConnectStep
    <3> QED
      BY <3>2 DEF Connection!Next
  <2>4. CASE ~connecting
    <3>1. auth' = auth
      BY <2>1, <2>4 DEF Control
    <3>2. Connection!Handle
      BY <2>1, <2>2, <2>4, <3>1 DEF Connection!Handle, Connection!connection, Connection!Pollable
    <3> QED
      BY <3>2 DEF Connection!Next
  <2> QED
    BY <2>3, <2>4
<1>5. CASE Failing
  <2>1. /\ UNCHANGED <<proc, client, auth, tx, connecting, waiting, reported>>
        /\ proc = "up" /\ pc' = "idle" /\ ~connecting
    BY <1>5 DEF Failing, loopVars
  <2>2. Connection!Handle
    BY <2>1 DEF Connection!Handle, Connection!connection, Connection!Pollable,
                Connection!Reports
  <2> QED
    BY <2>2 DEF Connection!Next
<1>6. CASE Rebooting
  <2>1. /\ UNCHANGED <<proc, client, auth, tx, connecting, reported>>
        /\ proc = "up" /\ pc' = "idle" /\ ~connecting /\ waiting' = TRUE
    BY <1>6 DEF Rebooting
  <2>2. Connection!Handle
    BY <2>1 DEF Connection!Handle, Connection!connection, Connection!Pollable,
                Connection!Reports
  <2> QED
    BY <2>2 DEF Connection!Next
<1>7. CASE Exit
  <2>1. Connection!End
    BY <1>7 DEF Exit, Connection!End, Connection!Fresh
  <2> QED
    BY <2>1 DEF Connection!Next
<1> QED
  BY <1>1, <1>2, <1>3, <1>4, <1>5, <1>6, <1>7 DEF Moves

\* So is each step of the loop itself.
LEMMA LoopImplements ==
  ASSUME Control, LoopInv, LoopActions
  PROVE  [Connection!Next]_(Connection!vars)
<1>1. CASE Kill \/ Stop
  BY <1>1, MovesImplement DEF Kill, Stop, Moves
<1>2. CASE ConnectClient
  <2>1. Connection!Create
    BY <1>2 DEF ConnectClient, Idle, Connection!Create, Connection!Polling
  <2> QED
    BY <2>1 DEF Connection!Next
<1>3. CASE Authenticated
  <2>1. FirstStep[feature] # "idle"
    BY FirstSteps
  <2>2. Connection!Connect
    BY <1>3, <2>1 DEF Authenticated, Idle, Connection!Connect, Connection!Polling
  <2> QED
    BY <2>2 DEF Connection!Next
<1>4. CASE SoftLoss \/ HardLoss
  <2>1. Connection!Lose
    BY <1>4 DEF SoftLoss, HardLoss, Idle, Connection!Lose, Connection!Polling
  <2> QED
    BY <2>1 DEF Connection!Next
<1>5. CASE Drain
  <2>1. UNCHANGED <<proc, client, auth, tx, connecting, waiting, pc>>
    BY <1>5 DEF Drain, loopVars
  <2>2. Connection!Drain
    BY <1>5, <2>1 DEF Drain, Idle, Connection!Drain, Connection!Polling, Connection!connection
  <2> QED
    BY <2>2 DEF Connection!Next
<1>6. CASE Tick \/ Notified
  <2>1. proc = "up" /\ FirstStep[feature] # "idle" /\ Continue(FirstStep[feature], <<>>)
    BY <1>6, FirstSteps DEF Tick, Notified, Ready, Idle
  <2>2. Moves
    BY <2>1, MovesAre
  <2> QED
    BY <2>2, MovesImplement
<1>7. CASE StreamWork \/ StreamBreaks \/ UNCHANGED vars
  <2>1. Unmoved
    BY <1>7 DEF StreamWork, StreamBreaks, vars, Unmoved
  <2> QED
    BY <2>1, MovesImplement DEF Moves
<1> QED
  BY <1>1, <1>2, <1>3, <1>4, <1>5, <1>6, <1>7 DEF LoopActions

\* Whichever feature a behaviour follows, through failing handlers, lost reports
\* and reboots: the loop it runs on is that of TwinConnection.
THEOREM Refinement == Spec => ImplementsConnection
<1>1. Init => Connection!Init
  BY DEF Init, Connection!Init, Connection!Fresh, Nothing
<1>2. IInv /\ [Next]_vars => [Connection!Next]_(Connection!vars)
  <2> SUFFICES ASSUME Held, [Next]_vars PROVE [Connection!Next]_(Connection!vars)
    BY HeldIs
  <2>1. CASE LoopActions
    BY <2>1, LoopImplements DEF Held
  <2>2. CASE ~LoopActions
    <3>1. Moves
      BY <2>2, Steps, ActionsMove DEF Held
    <3> QED
      BY <3>1, MovesImplement DEF Held
  <2> QED
    BY <2>1, <2>2
<1> QED
  BY Invariance, <1>1, <1>2, PTL DEF Spec, ImplementsConnection, Connection!Spec
=============================================================================
