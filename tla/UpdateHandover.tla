----------------------------- MODULE UpdateHandover -----------------------------
(***************************************************************************)
(* UpdateHandover: FirmwareUpdate and UpdateValidation meet in the boot    *)
(* environment and the configuration file, across a reboot.  What the one  *)
(* leaves has to be what the other starts from: UpdateValidation is        *)
(* instantiated with the state of FirmwareUpdate, whose sets of arguments  *)
(* are mapped to the three values UpdateValidation tells apart.            *)
(***************************************************************************)
EXTENDS FirmwareUpdate

extraArgsSeen == IF extraArgs = {} THEN "unset" ELSE "old"
validateArgsSeen ==
  IF validateArgs = {} THEN "unset" ELSE IF validateArgs = {{}} THEN "noargs" ELSE "new"

\* The device goes down for the update; /run is empty after it.
Validation ==
  INSTANCE UpdateValidation WITH
    MaxRestartCount <- 9, StartLimitBurst <- 10, MaxFaults <- 0,
    extraArgs <- extraArgsSeen, validateArgs <- validateArgsSeen,
    bootedArgs <- extraArgsSeen, unfit <- FALSE,
    validateFile <- FALSE, failedFile <- FALSE,
    barrier <- "absent", restartCount <- 0, overdue <- FALSE,
    svc <- "down", starts <- 0, status <- "none", cancel <- "none",
    localUpdate <- FALSE, pc <- "idle", evidence <- {},
    sysRunning <- FALSE, observer <- "off", going <- "swupdate",
    rebootLost <- FALSE, argsSkipped <- FALSE, faults <- 0

\* Once a run on a settled device has named a root for its trial, whatever
\* follows (the reboot, one that fails, a kill, a load), the next boot starts
\* the validation in one of the states UpdateValidation is checked from.
HandsOver == clean /\ validatePart # None => Validation!Init
=============================================================================
