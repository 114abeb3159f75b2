------------------------- MODULE MCUpdateValidation -------------------------
(***************************************************************************)
(* Instances of UpdateValidation for TLC.  The device allows ten starts    *)
(* and reboots at the ninth restart; a threshold of two restarts and three *)
(* starts keeps that distance.  Two faults let a crash meet another crash, *)
(* a power loss or a failing call, and are fewer than the starts, as ten   *)
(* clean stops within the limit's interval are not what a device does.     *)
(***************************************************************************)
EXTENDS UpdateValidation

\* "if the goal state for a valid update wasn't reached, a reboot is triggered
\* which boots to the old root partition" (update_validation.md:3): the reboot
\* of a failed validation leaves the root it was asked from.
FailedTrialBootsOld ==
  [][going = "failed" /\ going' = "none" => booted' # booted]_vars

\* Nothing but the awaited system state can end the wait: no timer fires.
PatientNext ==
  \/ Boot \/ Start \/ Progress \/ AduStarted \/ SystemStateChanges
  \/ \E authenticated \in BOOLEAN : SetAuthenticated(authenticated)

PatientSpec ==
  /\ Init /\ [][PatientNext]_vars
  /\ WF_vars(Boot) /\ WF_vars(Start) /\ WF_vars(Progress) /\ WF_vars(AduStarted)

\* wait_for_system_running returns once the system is and stays running, the
\* criterion of update_validation.md:14.
WaitEnds == <>[]sysRunning => []<>(pc # "await_signal")
=============================================================================
