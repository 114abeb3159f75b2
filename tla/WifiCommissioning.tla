------------------------- MODULE WifiCommissioning -------------------------
(***************************************************************************)
(* The feature wifi_commissioning: which instance of the service runs, and *)
(* whether BLE is enabled, which only the instance's own API tells.  What  *)
(* was reported is remembered only after it was sent.                      *)
(***************************************************************************)
EXTENDS Reporting

CONSTANT Wlans

None == "none"

\* iface: the active instance; ble and reachable: what its API would answer.
WifiWorlds == [iface : Wlans \cup {None}, ble : BOOLEAN, reachable : BOOLEAN]

NotRunning == [running |-> FALSE]
Running(iface) == [running |-> TRUE, interface |-> iface]

\* A field that is not known is left out of the patch.
WifiView ==
  IF world.iface = None THEN NotRunning
  ELSE IF world.reachable THEN Merged(Running(world.iface), [ble_enabled |-> world.ble])
  ELSE Running(world.iface)

WifiNew == New("wifi", Nothing, Nothing, "pending")

\* active_iface.
WifiUnits ==
  /\ At("wifi", "units")
  /\ \/ world.iface = None /\ seen' = NotRunning /\ Continue("report", <<>>)
     \/ world.iface # None /\ seen' = Running(world.iface) /\ Continue("ble", <<>>)
  /\ UNCHANGED <<web, cache, events, missed, worldVars, streamVars>>

WifiUnitsFail ==
  /\ At("wifi", "units") /\ Spend("disruptions")
  /\ Fail(FALSE)
  /\ UNCHANGED world

WifiServiceInfo ==
  /\ At("wifi", "ble") /\ world.reachable /\ world.iface = seen.interface
  /\ seen' = Merged(seen, [ble_enabled |-> world.ble])
  /\ Continue("report", <<>>)
  /\ UNCHANGED <<web, cache, events, missed, worldVars, streamVars>>

\* The retries end at the budget of 5 s: running, BLE unknown.
WifiUnreachable ==
  /\ At("wifi", "ble") /\ ~(world.reachable /\ world.iface = seen.interface)
  /\ Continue("report", <<>>)
  /\ UNCHANGED <<web, cache, seen, events, missed, worldVars, streamVars>>

WifiReport ==
  /\ At("wifi", "report")
  /\ LET send == tx /\ (connecting \/ seen # cache)
     IN /\ Finish(IF send THEN <<seen>> ELSE <<>>)
        /\ cache' = IF send THEN seen ELSE cache
  /\ seen' = Nothing
  /\ UNCHANGED <<web, events, missed, worldVars, streamVars>>

\* Only jobs of the unit are signalled, not what its API answers.
WifiUnitChanges ==
  /\ feature = "wifi"
  /\ \E iface \in (Wlans \cup {None}) \ {world.iface} :
       Changed([world EXCEPT !.iface = iface])

WifiApiChanges ==
  /\ feature = "wifi" /\ world.iface # None /\ Spend("changes")
  /\ \E ble, reachable \in BOOLEAN :
       WorldBecomes([world EXCEPT !.ble = ble, !.reachable = reachable])

=============================================================================
