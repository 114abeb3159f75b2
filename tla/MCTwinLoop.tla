----------------------------- MODULE MCTwinLoop -----------------------------
(***************************************************************************)
(* An instance of TwinLoop for TLC: channels of two slots, which one       *)
(* caller, the file watcher and the loop itself fill.                      *)
(***************************************************************************)
EXTENDS TwinLoop

=============================================================================
