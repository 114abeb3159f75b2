----------------------------- MODULE SystemInfo -----------------------------
(***************************************************************************)
(* The feature system_info: the boot time, known once the clock has been   *)
(* synchronised, and the fleet id the cloud desires, which is published    *)
(* locally but not reported by itself.  Its Ticks send metrics, which      *)
(* nothing here depends on.                                                *)
(***************************************************************************)
EXTENDS Reporting

CONSTANT FleetIds

\* Whether systemd-timesyncd has synchronised the clock.
SystemWorlds == BOOLEAN

SystemView == [boot_time |-> world]

SystemNew == New("system_info", SystemView, SystemView, "unused")

\* Mutant: published only when there is a sender for the twin.
SystemReportMutant(info) ==
  /\ web' = IF tx THEN info ELSE web
  /\ Finish(<<info>>)

SystemReport(info) ==
  /\ web' = info
  /\ Finish(<<info>>)

SystemConnect ==
  /\ At("system_info", "report")
  /\ SystemReport(cache)
  /\ UNCHANGED <<cache, seen, events, missed, worldVars, streamVars>>

\* The event of the oneshot watch on the file of timesyncd.
ClockSynchronised ==
  /\ Ready("system_info") /\ "synchronized" \in events
  /\ cache' = [cache EXCEPT !.boot_time = TRUE]
  /\ SystemReport(cache')
  /\ events' = events \ {"synchronized"}
  /\ UNCHANGED <<seen, missed, worldVars, streamVars>>

FleetId ==
  /\ Ready("system_info") /\ client /\ Spend("changes")
  /\ \E id \in FleetIds : cache' = Merged(cache, [fleet_id |-> id])
  /\ web' = cache'
  /\ Finish(<<>>)
  /\ UNCHANGED <<world, seen, events, missed, streamVars>>

Synchronises ==
  /\ feature = "system_info" /\ ~world
  /\ FileChanged("synchronized", TRUE)
  /\ UNCHANGED budget

=============================================================================
