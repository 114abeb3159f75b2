----------------------------- MODULE ModemInfo -----------------------------
(***************************************************************************)
(* The feature modem_info: at its interval it lists the modems and then    *)
(* queries each; one that fails, or has gone meanwhile, fails them all.    *)
(***************************************************************************)
EXTENDS Reporting

CONSTANT Modems

ModemView == [modems |-> world]

ModemNew == New("modem", [modems |-> {}], Nothing, "unused")

\* Without a ModemManager on the bus there are no modems.
ModemPaths ==
  /\ At("modem", "paths")
  /\ seen' = ModemView
  /\ Continue("status", <<>>)
  /\ UNCHANGED <<web, cache, events, missed, worldVars, streamVars>>

ModemStatus ==
  /\ At("modem", "status") /\ seen.modems \subseteq world
  /\ Continue("report", <<>>)
  /\ UNCHANGED <<web, cache, seen, events, missed, worldVars, streamVars>>

ModemVanished ==
  /\ At("modem", "status") /\ ~(seen.modems \subseteq world)
  /\ Fail(FALSE)
  /\ UNCHANGED worldVars

ModemQueryFails ==
  /\ pc \in {"paths", "status"} /\ At("modem", pc) /\ Spend("disruptions")
  /\ Fail(FALSE)
  /\ UNCHANGED world

\* The list has no order of its own: two modems may look changed when they are not.
ModemUnchanged ==
  /\ At("modem", "report") /\ seen = cache /\ ~connecting
  /\ Finish(<<>>)
  /\ seen' = Nothing
  /\ UNCHANGED <<web, cache, events, missed, worldVars, streamVars>>

ModemReport ==
  /\ At("modem", "report")
  /\ seen # cache \/ connecting \/ \E m, n \in seen.modems : m # n
  /\ cache' = seen /\ seen' = Nothing
  /\ Finish(<<seen>>)
  /\ UNCHANGED <<web, events, missed, worldVars, streamVars>>

ModemChanges ==
  /\ feature = "modem" /\ Spend("changes")
  /\ \E modems \in (SUBSET Modems) \ {world} : WorldBecomes(modems)

=============================================================================
