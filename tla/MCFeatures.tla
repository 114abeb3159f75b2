----------------------------- MODULE MCFeatures -----------------------------
(***************************************************************************)
(* An instance of Features for TLC: every feature with the smallest sets   *)
(* in which its cases occur.                                               *)
(***************************************************************************)
EXTENDS Features

MCFeatureSet ==
  {"network", "wifi", "modem", "provisioning", "consent", "system_info",
   "wait_online", "factory_reset", "ssh_ca"}

MCConsents == {"none", "SwUpdate"}
MCLowercase == [c \in MCConsents |-> IF c = "SwUpdate" THEN "swupdate" ELSE c]
MCTimeouts == {0, 60, 300}

=============================================================================
