----------------------------- MODULE WaitOnline -----------------------------
(***************************************************************************)
(* The timeout of systemd-networkd-wait-online, which the feature reboot   *)
(* sets in the environment file of that service and reports to the twin    *)
(* and, unlike the other features, to the web service after it.            *)
(***************************************************************************)
EXTENDS Reporting

CONSTANT Timeouts   \* in seconds; 0 waits without end

TimeoutsAssumption == Timeouts \subseteq Nat
ASSUME TimeoutsAssumption

DefaultTimeout == 300
NoEntry == DefaultTimeout + 1   \* no file, or an empty one
ASSUME NoEntryAssumption == NoEntry \notin Timeouts

WaitOnlineWorlds == Timeouts \cup {NoEntry}

\* networkd_wait_online_timeout; 0 here is its None.
Timeout(file) == IF file = NoEntry THEN DefaultTimeout ELSE file
WaitOnlineView == [wait_online_timeout_secs |-> Timeout(world)]

WaitOnlineNew == New("wait_online", Nothing, WaitOnlineView, "unused")

\* set_networkd_wait_online_timeout; a write begins with a truncation.
SetWaitOnlineTimeout ==
  /\ Ready("wait_online") /\ Spend("changes")
  /\ \E timeout \in Timeouts :
       \/ /\ timeout = Timeout(world)
          /\ Continue("report", <<>>)
          /\ UNCHANGED <<seen, world>>
       \/ /\ timeout # Timeout(world)
          /\ seen' = [wait_online_timeout_secs |-> timeout] /\ world' = NoEntry
          /\ Continue("write", <<>>)
  /\ UNCHANGED <<web, cache, events, missed, streamVars>>

WriteTimeout ==
  /\ At("wait_online", "write")
  /\ world' = seen.wait_online_timeout_secs /\ seen' = Nothing
  /\ Continue("report", <<>>)
  /\ UNCHANGED <<web, cache, events, missed, budget, streamVars>>

\* The file stays empty and nothing is reported.
WriteTimeoutFails ==
  /\ At("wait_online", "write") /\ Spend("disruptions")
  /\ Fail(TRUE)
  /\ UNCHANGED world

\* report_wait_online_timeout reads the file again.
ReportTimeout ==
  /\ At("wait_online", "report")
  /\ web' = WaitOnlineView
  /\ Finish(<<WaitOnlineView>>)
  /\ missed' = FALSE
  /\ UNCHANGED <<cache, seen, events, worldVars, streamVars>>

=============================================================================
