------------------------------ MODULE Features ------------------------------
(***************************************************************************)
(* The reporting features of Twin, each on the loop of Reporting: a        *)
(* behaviour chooses one and follows it through starts, connections,       *)
(* losses, failing calls, commands and changes of what it reports.         *)
(***************************************************************************)
EXTENDS NetworkStatus, WifiCommissioning, ModemInfo, ProvisioningConfig,
        DeviceUpdateConsent, SystemInfo, WaitOnline, FactoryReset, SshTunnelCa

Worlds ==
  [network |-> NetworkWorlds, wifi |-> WifiWorlds, modem |-> SUBSET Modems,
   provisioning |-> SUBSET Certificates, consent |-> ConsentWorlds,
   system_info |-> SystemWorlds, wait_online |-> WaitOnlineWorlds,
   factory_reset |-> ResetWorlds, ssh_ca |-> CaWorlds]

\* What the twin should show of the world as it is.
View ==
  CASE feature = "network" -> NetworkView
    [] feature = "wifi" -> WifiView
    [] feature = "modem" -> ModemView
    [] feature = "provisioning" -> ProvisioningView
    [] feature = "consent" -> ConsentView
    [] feature = "system_info" -> SystemView
    [] feature = "wait_online" -> WaitOnlineView
    [] feature = "factory_reset" -> ResetView
    [] feature = "ssh_ca" -> CaView

\* The worlds a first start may find.
FirstWorlds ==
  CASE feature = "wifi" -> {w \in WifiWorlds : w.ble /\ w.reachable}
    [] feature = "consent" ->
         [general_consent : Consents, granted : {FALSE},
          user_consent_request : {"old"}, user_consent_history : {"old"}]
    [] feature = "factory_reset" ->
         [apps : {FALSE}, request : {NoReset}, result : {NoReset}, rebooting : {FALSE},
          asked : {0}, refused : {{}}, performed : {{}}]
    [] OTHER -> Worlds[feature]

Init ==
  /\ feature \in Features
  /\ proc = "down" /\ client = FALSE /\ auth = FALSE /\ tx = FALSE
  /\ pc = "idle" /\ connecting = FALSE /\ waiting = FALSE
  /\ reported = <<>> /\ cloud = Nothing /\ web = Nothing
  /\ world \in FirstWorlds
  /\ cache = Nothing /\ seen = Nothing /\ events = {} /\ missed = FALSE
  /\ budget = [disruptions |-> MaxDisruptions, changes |-> MaxChanges]
  /\ source = "unused" /\ signals = FALSE /\ deadline = FALSE /\ emitting = FALSE
  /\ queue = 0

Starts ==
  NetworkNew \/ WifiNew \/ ModemNew \/ ProvisioningNew \/ ConsentNew \/ SystemNew
  \/ WaitOnlineNew \/ ResetNew \/ CaNew

\* The steps a running handler goes on with, whatever else happens.
HandlerSteps ==
  \/ Describe \/ NetworkUnchanged \/ NetworkReport \/ NetworkReloaded
  \/ WifiUnits \/ WifiServiceInfo \/ WifiUnreachable \/ WifiReport
  \/ ModemPaths \/ ModemStatus \/ ModemVanished \/ ModemUnchanged \/ ModemReport
  \/ ProvisioningConnect
  \/ ConsentConnect \/ ConsentUnparsable \/ SaveGeneralConsent \/ ReportGeneralConsent
  \/ SystemConnect
  \/ WriteTimeout \/ ReportTimeout
  \/ ResetConnect \/ Reboot
  \/ TeeExits \/ CaReport

\* Commands that a stream or the watcher has for the loop.
Commands == Notified \/ Refresh \/ ConsentEvent \/ ClockSynchronised \/ KeysModified

\* Commands of the cloud, the portal and the web service.
Requests ==
  \/ ReloadNetwork \/ DesiredGeneralConsent \/ UserConsent \/ FleetId
  \/ SetWaitOnlineTimeout \/ ResetToFactorySettings \/ RebootRequested
  \/ UpdateDeviceSshCa

Failures ==
  \/ DescribeFails \/ NetworkReloadHangs \/ WifiUnitsFail \/ ModemQueryFails
  \/ SaveFails \/ WriteTimeoutFails \/ TeeFails \/ RebootTargetFails

World ==
  \/ LinkChanges \/ WifiUnitChanges \/ WifiApiChanges \/ ModemChanges
  \/ CertificateWritten \/ CertificateRemoved \/ CertificatesLost
  \/ ConsentToolTruncates \/ ConsentToolWrites \/ Synchronises \/ CustomConfigChanges
  \/ DeviceReboots \/ PowerCycle

Next ==
  \/ Starts \/ Kill \/ Stop
  \/ ConnectClient \/ Authenticated \/ SoftLoss \/ HardLoss \/ Drain
  \/ Tick \/ StreamWork \/ StreamBreaks
  \/ HandlerSteps \/ Commands \/ Requests \/ Failures \/ World

Spec == Init /\ [][Next]_vars

(***************************************************************************)
(* Fairness: systemd starts the service, the client is created and         *)
(* authenticates in the end, the task of the stream and the running        *)
(* handler go on.  What waits for the loop is not always ready to go, the  *)
(* loop may be in a handler, but gets its turn: Ticks are at least a       *)
(* minute apart.  A writer of a consent file completes it, and certd a     *)
(* replacement.                                                            *)
(***************************************************************************)
Fairness ==
  /\ WF_vars(Starts) /\ SF_vars(ConnectClient \/ Authenticated)
  /\ WF_vars(StreamWork)
  /\ WF_vars(HandlerSteps)
  /\ SF_vars(Commands) /\ SF_vars(Drain) /\ SF_vars(Tick)
  /\ WF_vars(ConsentToolWrites) /\ WF_vars(CertificateRemoved)

FairSpec == Spec /\ Fairness

-----------------------------------------------------------------------------
(* Properties                                                              *)

Connection ==
  INSTANCE TwinConnection WITH
    created <- IF client THEN "done" ELSE "pending",
    handler <- IF pc = "idle" THEN "none" ELSE IF connecting THEN "connect" ELSE "other"

\* Whichever feature is followed, with its failing handlers and reboots: the
\* loop it runs on is one of TwinConnection, as that of TwinLoop is.
ImplementsConnection == Connection!Spec

Values ==
  [interfaces |-> SUBSET [name : Links, online : BOOLEAN],
   running |-> BOOLEAN, interface |-> Wlans, ble_enabled |-> BOOLEAN,
   modems |-> SUBSET Modems, expires |-> Certificates \cup {"unknown"},
   general_consent |-> Consents,
   user_consent_request |-> {"old", "new"}, user_consent_history |-> {"old", "new"},
   boot_time |-> BOOLEAN, fleet_id |-> FleetIds,
   wait_online_timeout_secs |-> Timeouts \cup {DefaultTimeout},
   keys |-> SUBSET (Keys \cup {"applications"}), result |-> 0..MaxResets,
   ca_pub |-> CaWorlds]

IsPatch(p) == \A k \in DOMAIN p : k \in DOMAIN Values /\ p[k] \in Values[k]

TypeOK ==
  /\ feature \in Features
  /\ proc \in {"up", "down"}
  /\ {client, auth, tx, connecting, waiting, missed} \subseteq BOOLEAN
  /\ proc = "down" => pc = "idle" /\ ~client /\ reported = <<>>
  /\ auth => client /\ tx
  /\ connecting => pc # "idle"
  /\ \A i \in DOMAIN reported : IsPatch(reported[i])
  /\ IsPatch(cloud) /\ IsPatch(web) /\ IsPatch(cache) /\ IsPatch(seen)
  /\ world \in Worlds[feature]
  /\ events \subseteq Watched \cup {"synchronized", "factory-reset.d"}
  /\ \A k \in DOMAIN budget : budget[k] \in Nat
  /\ StreamTypeOK

\* What a feature remembers as reported, and so does not report again, is what
\* the authenticated twin shows or is about to: a report the loop dropped is
\* made up for by connect_twin.  The fleet id is the cloud's own; of what the
\* report leaves out, a factory reset's missing result, it says nothing.
CacheReported ==
  auth /\ Idle => Holds(Shown, [k \in DOMAIN cache \ {"fleet_id"} |-> cache[k]])

\* When the twin does not show the world as it is, a signal, a timer, a Tick or
\* a file event is still under way that makes the feature look again, or the
\* change came in one of the ways that the code gives up on: before the stream
\* was subscribed, after it ended, with the call that failed, or by a write the
\* watch does not see.  A property the view leaves out may show anything: the
\* result of a factory reset stays in the twin after the boot it belongs to.
TwinCurrent ==
  auth /\ Idle /\ feature \notin Ticking
    => Holds(Shown, View) \/ TickComing \/ events # {} \/ missed

\* Between handlers the local status is what the feature remembers; and where no
\* connection is needed to read the world, it shows the world as it is unless a
\* file event is under way or the change was missed.  Network status is first
\* read at a signal or a connection, and its local status may be empty before.
WebCurrent ==
  Idle =>
    /\ feature = "network" => web = cache \/ (web = Nothing /\ cache.interfaces = {})
    /\ feature \in {"system_info", "factory_reset"} =>
         web = cache /\ (Holds(web, View) \/ events # {} \/ missed)
    /\ feature = "wait_online" => web = View \/ missed

\* A reset that was refused, for an unknown topic or because it could not be
\* stored, is performed by no later boot.
RefusedNotPerformed ==
  feature = "factory_reset" => world.refused \cap world.performed = {}

\* A setting is reported only once it is in its file: what the twin was shown
\* survives a crash of the process.  Nothing is synced to the disk.
ReportsSaved ==
  feature \in {"consent", "wait_online", "ssh_ca"} /\ Len(reported') > Len(reported)
    => LET patch == Last(reported')
       IN \A k \in DOMAIN patch : k \in DOMAIN View' /\ patch[k] = View'[k]

ReportedIsSaved == [][ReportsSaved]_vars

\* Losses, failures and ends of the process over, the twin is connected and
\* shows what the feature reports of the world as it is, for ever: unless a
\* change was missed, the loop waits for a reboot, or the file of general consent
\* was left torn.
Impaired ==
  missed \/ waiting \/ (feature = "consent" /\ world.general_consent = Torn)

Settles == <>[](Impaired \/ (auth /\ Holds(cloud, View)))

=============================================================================
