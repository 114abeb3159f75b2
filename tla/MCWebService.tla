---------------------------- MODULE MCWebService ----------------------------
(***************************************************************************)
(* An instance of WebService for TLC: two requests at a time for two       *)
(* endpoints, and two who publish, the loop and the update validation.     *)
(***************************************************************************)
EXTENDS WebService

NoneHanging == {}
=============================================================================
