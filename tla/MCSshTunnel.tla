---------------------------- MODULE MCSshTunnel ----------------------------
(***************************************************************************)
(* An instance of SshTunnel for TLC: two tunnels at a time of two ids, and *)
(* a third ssh process for one that nobody waits for any more.             *)
(***************************************************************************)
EXTENDS SshTunnel

MCSlot == 1..(MaxTunnels + 1)
=============================================================================
