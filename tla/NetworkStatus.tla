--------------------------- MODULE NetworkStatus ---------------------------
(***************************************************************************)
(* The feature network_status: on a Tick of its debounced stream it asks   *)
(* networkd for its links and reports the managed ones, on a change or     *)
(* when it is connected.  No interval makes it look again.                 *)
(***************************************************************************)
EXTENDS Reporting

CONSTANT Links

\* partial: the description lacks a field that parse_interfaces needs.
LinkState == {"unmanaged", "partial", "offline", "online"}
NetworkWorlds == [Links -> LinkState]

\* parse_interfaces: sorted by name, so a set.
Interfaces(links) ==
  {[name |-> l, online |-> links[l] = "online"] :
    l \in {k \in Links : links[k] \notin {"unmanaged", "partial"}}}

NetworkView == [interfaces |-> Interfaces(world)]

NetworkNew == New("network", [interfaces |-> {}], Nothing, "pending")

Describe ==
  /\ At("network", "describe")
  /\ seen' = NetworkView /\ missed' = FALSE
  /\ Continue("report", <<>>)
  /\ UNCHANGED <<web, cache, events, worldVars, streamVars>>

\* The call or its parsing fails; nothing repeats it.
DescribeFails ==
  /\ At("network", "describe") /\ Spend("disruptions")
  /\ Fail(TRUE)
  /\ UNCHANGED world

NetworkUnchanged ==
  /\ At("network", "report") /\ seen = cache /\ ~connecting
  /\ seen' = Nothing
  /\ Finish(<<>>)
  /\ UNCHANGED <<web, cache, events, missed, worldVars, streamVars>>

\* Mutant: only a change is reported, also when the twin is connected.
NetworkReportMutant ==
  /\ At("network", "report") /\ (seen # cache \/ connecting)
  /\ cache' = seen /\ web' = seen /\ seen' = Nothing
  /\ Finish(IF seen = cache THEN <<>> ELSE <<seen>>)
  /\ UNCHANGED <<events, missed, worldVars, streamVars>>

NetworkReport ==
  /\ At("network", "report") /\ (seen # cache \/ connecting)
  /\ cache' = seen /\ web' = seen /\ seen' = Nothing
  /\ Finish(<<seen>>)
  /\ UNCHANGED <<events, missed, worldVars, streamVars>>

\* The command waits for the job's success; a job that ends otherwise is
\* waited for until the watchdog kills the service.
ReloadNetwork ==
  /\ Ready("network") /\ Spend("changes")
  /\ Continue("reload", <<>>)
  /\ UNCHANGED <<web, world, cache, seen, events, missed, streamVars>>

NetworkReloaded ==
  /\ At("network", "reload")
  /\ Signal
  /\ Finish(<<>>)
  /\ UNCHANGED <<web, cache, seen, events, missed, worldVars>>

NetworkReloadHangs ==
  /\ At("network", "reload") /\ Spend("disruptions")
  /\ Exit
  /\ UNCHANGED <<cloud, world>>

LinkChanges ==
  /\ feature = "network"
  /\ \E links \in NetworkWorlds \ {world} : Changed(links)

=============================================================================
