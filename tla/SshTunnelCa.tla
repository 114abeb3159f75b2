------------------------------ MODULE SshTunnelCa ------------------------------
(***************************************************************************)
(* The CA key of the feature ssh_tunnel: the cloud desires it, a tee under *)
(* another user writes it, and the report reads the file again, whatever   *)
(* is in it.  The tunnels themselves are in SshTunnel.                     *)
(***************************************************************************)
EXTENDS Reporting

CONSTANT Cas

Empty == "empty"      \* the file is truncated
Missing == "missing"  \* there is no file: reported as null

CaWorlds == Cas \cup {Empty, Missing}

CaView == [ca_pub |-> world]

CaNew == New("ssh_ca", Nothing, Nothing, "unused")

\* update_device_ssh_ca: tee truncates the file when it is started ...
UpdateDeviceSshCa ==
  /\ Ready("ssh_ca") /\ client /\ Spend("changes")
  /\ \E ca \in Cas : seen' = [ca_pub |-> ca]
  /\ world' = Empty
  /\ Continue("tee", <<>>)
  /\ UNCHANGED <<web, cache, events, missed, streamVars>>

\* ... and writes what it reads.
TeeExits ==
  /\ At("ssh_ca", "tee")
  /\ world' = seen.ca_pub /\ seen' = Nothing
  /\ Continue("report", <<>>)
  /\ UNCHANGED <<web, cache, events, missed, budget, streamVars>>

\* tee fails, with the file as it was left: the twin is not told.
TeeFails ==
  /\ At("ssh_ca", "tee") /\ Spend("disruptions")
  /\ Fail(TRUE)
  /\ UNCHANGED world

CaReport ==
  /\ At("ssh_ca", "report")
  /\ Finish(<<CaView>>)
  /\ missed' = FALSE
  /\ UNCHANGED <<web, cache, seen, events, worldVars, streamVars>>

=============================================================================
