-------------------------- MODULE UpdateValidation --------------------------
(***************************************************************************)
(* The validation of a freshly flashed root: FirmwareUpdate's              *)
(* UpdateValidation, the task it spawns, the ExecStopPost script and the   *)
(* observer timer that watch over it, and the bootloader they all steer.   *)
(* One behaviour follows one update from the reboot that ends              *)
(* FirmwareUpdate::run until the trial is committed or rolled back.        *)
(***************************************************************************)
EXTENDS Naturals

CONSTANTS
  MaxRestartCount,  \* max_restart_count of the ExecStopPost script
  StartLimitBurst,  \* starts systemd allows before it gives the service up
  MaxFaults         \* bound: kills, stops, power losses and failing calls

ASSUME BoundsAssumption ==
  /\ MaxRestartCount \in Nat
  /\ StartLimitBurst \in Nat \ {0}
  /\ MaxFaults \in Nat

VARIABLES
  \* bootloader environment (survives everything), what was booted from it, and
  \* whether the service there fails before it gets to its update validation
  bootpart, validatePart, validateUpdate, extraArgs, validateArgs,
  booted, bootedArgs, unfit,
  \* files: /run is lost with the boot, conf is kept in /var/lib
  validateFile, barrier, restartCount, overdue, failedFile, conf,
  \* the service process and the task spawned by start_timeout
  svc, starts, status, cancel, localUpdate, pc, evidence,
  \* systemd and the rest of the device
  sysRunning, observer, going,
  \* history: a reboot was asked for and lost, boot arguments could not be
  \* read, and the faults so far
  rebootLost, argsSkipped, faults

envVars  == <<bootpart, validatePart, validateUpdate, extraArgs, validateArgs>>
bootVars == <<booted, bootedArgs, unfit>>
barrierVars == <<barrier, restartCount, overdue>>
fileVars == <<validateFile, barrierVars, failedFile, conf>>
procVars == <<svc, starts, status, cancel, localUpdate>>
sysVars  == <<sysRunning, observer, going>>
history  == <<rebootLost, argsSkipped>>
vars == <<envVars, bootVars, fileVars, procVars, pc, evidence, sysVars, history,
          faults>>

Part == {"A", "B"}
None == "none"

\* Where the spawned task is; it can be dropped by its timer only at an await.
Awaiting == {"await_cancel", "await_running", "await_signal", "start_adu",
             "set_status", "publish"}
EnvSteps == {"set_bootpart", "finalize_args", "unset_args", "unset_update",
             "unset_part"}
TaskPc == Awaiting \cup EnvSteps \cup
          {"idle", "remove_file", "remove_barrier", "remove_conf", "failed",
           "delay", "done"}

EnvTypeOK ==
  /\ bootpart \in Part /\ booted \in Part
  /\ validatePart \in Part \cup {None}
  /\ validateUpdate \in BOOLEAN
  /\ extraArgs \in {"unset", "old", "new"} /\ bootedArgs \in {"unset", "old", "new"}
  /\ validateArgs \in {"unset", "noargs", "new"}
  /\ unfit \in BOOLEAN

FileTypeOK ==
  /\ validateFile \in BOOLEAN /\ failedFile \in BOOLEAN /\ overdue \in BOOLEAN
  /\ barrier \in {"absent", "torn", "ok"}
  /\ restartCount \in Nat
  /\ conf \in {"absent", "torn", "local", "remote"}

ProcTypeOK ==
  /\ svc \in {"down", "writing", "up", "dead"}
  /\ starts \in Nat
  /\ status \in {"none", "NoUpdate", "ValidatingTrial", "Recovered", "Succeeded"}
  /\ cancel \in {"none", "armed", "sent"}
  /\ localUpdate \in BOOLEAN
  /\ pc \in TaskPc
  /\ evidence \in SUBSET {"running", "auth", "adu"}

SysTypeOK ==
  /\ sysRunning \in BOOLEAN
  /\ observer \in {"off", "armed"}
  /\ going \in {"none", "swupdate", "failed"}
  /\ rebootLost \in BOOLEAN /\ argsSkipped \in BOOLEAN
  /\ faults \in 0..MaxFaults

\* Every variable has its type.
TypeOK == EnvTypeOK /\ FileTypeOK /\ ProcTypeOK /\ SysTypeOK

\* Mutant: the sentinel for no arguments is taken for arguments.
ArgsOfMutant(args, current) == IF args = "unset" THEN current ELSE args

\* The kernel arguments a set of validate arguments stands for.
ArgsOf(args, current) ==
  IF args = "noargs" THEN "unset" ELSE IF args = "unset" THEN current ELSE args

(***************************************************************************)
(* The reboot that ends FirmwareUpdate::run is under way: the new root is  *)
(* written and named in the environment.  The configuration is that of a   *)
(* local update, absent for an update by the device update agent, or torn  *)
(* by a write the reboot interrupted.                                      *)
(***************************************************************************)
Init ==
  /\ booted \in Part
  /\ bootpart = booted
  /\ validatePart \in Part \ {booted}
  /\ validateUpdate = FALSE
  /\ extraArgs \in {"unset", "old"}
  /\ validateArgs \in {"unset", "new"} \cup (IF extraArgs = "old" THEN {"noargs"} ELSE {})
  /\ bootedArgs = extraArgs /\ unfit = FALSE
  /\ validateFile = FALSE /\ failedFile = FALSE
  /\ barrier = "absent" /\ restartCount = 0 /\ overdue = FALSE
  /\ conf \in {"absent", "torn", "local", "remote"}
  /\ svc = "down" /\ starts = 0 /\ status = "none" /\ cancel = "none"
  /\ localUpdate = FALSE
  /\ pc = "idle" /\ evidence = {}
  /\ sysRunning = FALSE /\ observer = "off" /\ going = "swupdate"
  /\ rebootLost = FALSE /\ argsSkipped = FALSE
  /\ faults = 0

Fault == faults < MaxFaults /\ faults' = faults + 1

-----------------------------------------------------------------------------
(* Bootloader and initramfs: external, as the environment keys and the     *)
(* files the service reads imply.                                          *)

BootFresh ==
  /\ validatePart # None /\ ~validateUpdate
  /\ booted' = validatePart
  /\ bootedArgs' = ArgsOf(validateArgs, extraArgs)
  /\ validateUpdate' = TRUE
  /\ validateFile' = TRUE /\ failedFile' = FALSE
  /\ observer' = "armed"
  /\ UNCHANGED <<validatePart, validateArgs>>

BootAfterFailure ==
  /\ validatePart # None /\ validateUpdate
  /\ booted' = bootpart
  /\ bootedArgs' = extraArgs
  /\ validateUpdate' = FALSE /\ validatePart' = None /\ validateArgs' = "unset"
  /\ validateFile' = FALSE /\ failedFile' = TRUE
  /\ observer' = "off"

BootNormal ==
  /\ validatePart = None
  /\ booted' = bootpart
  /\ bootedArgs' = extraArgs
  /\ validateFile' = FALSE /\ failedFile' = FALSE
  /\ observer' = "off"
  /\ UNCHANGED <<validateUpdate, validatePart, validateArgs>>

\* What keeps the service from starting may be gone with the root that is left.
PowerCycle ==
  /\ BootFresh \/ BootAfterFailure \/ BootNormal
  /\ unfit' \in {unfit, FALSE}
  /\ barrier' = "absent" /\ restartCount' = 0 /\ overdue' = FALSE
  /\ svc' = "down" /\ starts' = 0 /\ status' = "none" /\ cancel' = "none"
  /\ localUpdate' = FALSE
  /\ pc' = "idle" /\ evidence' = {}
  /\ sysRunning' = FALSE /\ going' = "none"
  /\ rebootLost' = FALSE
  /\ UNCHANGED <<bootpart, extraArgs, conf, argsSkipped>>

Boot == going # "none" /\ PowerCycle /\ UNCHANGED faults

PowerLoss == going = "none" /\ PowerCycle /\ Fault

-----------------------------------------------------------------------------
(* Start and end of the service process.                                   *)

\* Mutant: one restart too many.
StopPostRebootsMutant(ok, b) ==
  \/ b = "ok" /\ ~ok /\ restartCount > MaxRestartCount
  \/ b = "absent" /\ validateFile

\* The ExecStopPost script reboots when the service keeps failing during a
\* trial, or never got as far as creating the barrier file.
StopPostReboots(ok, b) ==
  \/ b = "ok" /\ ~ok /\ restartCount >= MaxRestartCount
  \/ b = "absent" /\ validateFile

\* The process ends; b is the barrier file as it leaves it.
End(ok, b) ==
  /\ svc' = "down" /\ status' = "none" /\ cancel' = "none"
  /\ localUpdate' = FALSE /\ pc' = "idle" /\ evidence' = {}
  /\ going' = IF going = "none" /\ StopPostReboots(ok, b) THEN "failed" ELSE going

\* systemd starts the service (again), unless it was started too often.
CanStart == svc = "down" /\ going = "none" /\ starts < StartLimitBurst

\* Too many starts: the unit stays failed ...
StartRefused ==
  /\ svc = "down" /\ going = "none" /\ starts = StartLimitBurst
  /\ svc' = "dead"
  /\ UNCHANGED <<envVars, bootVars, fileVars, starts, status, cancel, localUpdate,
                 pc, evidence, sysVars, history, faults>>

\* ... until omnect-device-service.timer starts it again, ten minutes later, when
\* the starts of the limit's two minutes are forgotten.
TimerStarts ==
  /\ svc = "dead" /\ going = "none"
  /\ svc' = "down" /\ starts' = 0
  /\ UNCHANGED <<envVars, bootVars, fileVars, status, cancel, localUpdate, pc,
                 evidence, sysVars, history, faults>>

\* Twin::new fails before UpdateValidation::new: a file with the registered
\* endpoints that cannot be parsed, no inotify, a feature that cannot be set up.
\* It may do so once, or at every start from now on; no restart is counted.
StartFails ==
  /\ CanStart
  /\ \/ unfit /\ UNCHANGED <<unfit, faults>>
     \/ ~unfit /\ Fault /\ unfit' \in BOOLEAN
  /\ starts' = starts + 1
  /\ End(FALSE, barrier)
  /\ UNCHANGED <<envVars, booted, bootedArgs, fileVars, sysRunning, observer, history>>

\* The start gets as far as UpdateValidation::new.
Begins == CanStart /\ ~unfit

\* new: no trial is going on.
StartIdle ==
  /\ Begins
  /\ barrier = "absent" /\ ~validateFile
  /\ svc' = "up" /\ starts' = starts + 1
  /\ status' = IF failedFile THEN "Recovered" ELSE "NoUpdate"
  /\ UNCHANGED <<envVars, bootVars, fileVars, cancel, localUpdate, pc, evidence,
                 sysVars, history, faults>>

\* start_validation(true): the first start sets the deadline and creates the
\* barrier file, which is empty until it is written.
StartTrial ==
  /\ Begins
  /\ barrier = "absent" /\ validateFile
  /\ svc' = "writing" /\ starts' = starts + 1
  /\ barrier' = "torn" /\ restartCount' = 0 /\ overdue' = FALSE
  /\ UNCHANGED <<envVars, bootVars, validateFile, failedFile, conf, status, cancel,
                 localUpdate, pc, evidence, sysVars, history, faults>>

\* start_validation(false): a later start counts itself and rewrites the file.
ResumeTrial ==
  /\ Begins
  /\ barrier = "ok"
  /\ svc' = "writing" /\ starts' = starts + 1
  /\ barrier' = "torn" /\ restartCount' = restartCount + 1
  /\ UNCHANGED <<envVars, bootVars, validateFile, overdue, failedFile, conf, status,
                 cancel, localUpdate, pc, evidence, sysVars, history, faults>>

\* The barrier file cannot be parsed: new fails and main exits with 1.
StartUnreadable ==
  /\ Begins
  /\ barrier = "torn"
  /\ starts' = starts + 1
  /\ End(FALSE, barrier)
  /\ UNCHANGED <<envVars, bootVars, fileVars, sysRunning, observer, history, faults>>

\* The barrier file is written.  A configuration that cannot be parsed or a
\* deadline in the past ends the process; else the validation task is spawned.
BarrierWritten ==
  /\ svc = "writing"
  /\ barrier' = "ok"
  /\ IF conf = "torn" \/ overdue
     THEN End(FALSE, "ok")
     ELSE /\ svc' = "up" /\ status' = "ValidatingTrial" /\ cancel' = "armed"
          /\ localUpdate' = (conf = "local")
          /\ pc' = "await_cancel" /\ evidence' = {}
          /\ UNCHANGED going
  /\ UNCHANGED <<envVars, bootVars, validateFile, restartCount, overdue, failedFile,
                 conf, starts, sysRunning, observer, history, faults>>

\* A crash, a watchdog kill or a stop; the task dies wherever it is.
Exit(ok) ==
  /\ svc \in {"writing", "up"}
  /\ ok => svc = "up"
  /\ Fault
  /\ End(ok, barrier)
  /\ UNCHANGED <<envVars, bootVars, fileVars, starts, sysRunning, observer, history>>

-----------------------------------------------------------------------------
(* The Twin's side: a ValidateUpdate command after each connection status. *)

\* Mutant: any connection status counts.
SetAuthenticatedMutant(authenticated) ==
  /\ svc = "up" /\ status = "ValidatingTrial" /\ cancel = "armed"
  /\ cancel' = IF pc = "await_cancel" THEN "sent" ELSE "none"
  /\ evidence' = IF authenticated THEN evidence \cup {"auth"} ELSE evidence
  /\ UNCHANGED <<envVars, bootVars, fileVars, svc, starts, status, localUpdate, pc,
                 sysVars, history, faults>>

SetAuthenticated(authenticated) ==
  /\ svc = "up" /\ status = "ValidatingTrial" /\ cancel = "armed"
  /\ localUpdate \/ authenticated
  /\ cancel' = IF pc = "await_cancel" THEN "sent" ELSE "none"
  /\ evidence' = IF authenticated THEN evidence \cup {"auth"} ELSE evidence
  /\ UNCHANGED <<envVars, bootVars, fileVars, svc, starts, status, localUpdate, pc,
                 sysVars, history, faults>>

-----------------------------------------------------------------------------
(* The task spawned by start_timeout: observe_update, that is validate and *)
(* finalize, under a timer, then the reboot if it failed.                  *)

Cancelled ==
  /\ pc = "await_cancel" /\ cancel = "sent"
  /\ pc' = "await_running" /\ cancel' = "none"
  /\ UNCHANGED <<envVars, bootVars, fileVars, svc, starts, status, localUpdate,
                 evidence, sysVars, history, faults>>

\* wait_for_system_running reads the state once; a system that is not running
\* yet is waited for by a signal filter that looks for the property's name.
CheckRunning ==
  /\ pc = "await_running"
  /\ IF sysRunning
     THEN pc' = "remove_file" /\ evidence' = evidence \cup {"running"}
     ELSE pc' = "await_signal" /\ UNCHANGED evidence
  /\ UNCHANGED <<envVars, bootVars, fileVars, procVars, sysVars, history, faults>>

RemoveValidateFile ==
  /\ pc = "remove_file"
  /\ validateFile' = FALSE
  /\ pc' = IF ~validateFile THEN "failed"
           ELSE IF localUpdate THEN "set_bootpart" ELSE "start_adu"
  /\ UNCHANGED <<envVars, bootVars, barrierVars, failedFile, conf, procVars, evidence,
                 sysVars, history, faults>>

\* unit_action returns when the start job is removed as "done".
AduStarted ==
  /\ pc = "start_adu"
  /\ pc' = "set_bootpart" /\ evidence' = evidence \cup {"adu"}
  /\ UNCHANGED <<envVars, bootVars, fileVars, procVars, sysVars, history, faults>>

SetBootpart ==
  /\ pc = "set_bootpart"
  /\ IF validatePart = None
     THEN pc' = "failed" /\ UNCHANGED bootpart
     ELSE pc' = "finalize_args" /\ bootpart' = validatePart
  /\ UNCHANGED <<validatePart, validateUpdate, extraArgs, validateArgs, bootVars,
                 fileVars, procVars, evidence, sysVars, history, faults>>

\* Mutant: the old arguments survive the update that drops them.
SetExtraArgsMutant ==
  /\ pc = "finalize_args"
  /\ extraArgs' = IF validateArgs = "noargs" THEN extraArgs
                  ELSE ArgsOf(validateArgs, extraArgs)
  /\ pc' = IF validateArgs = "unset" THEN "unset_update" ELSE "unset_args"
  /\ UNCHANGED <<bootpart, validatePart, validateUpdate, validateArgs, bootVars,
                 fileVars, procVars, evidence, sysVars, history, faults>>

\* finalize_bootargs, first write.
SetExtraArgs ==
  /\ pc = "finalize_args"
  /\ extraArgs' = ArgsOf(validateArgs, extraArgs)
  /\ pc' = IF validateArgs = "unset" THEN "unset_update" ELSE "unset_args"
  /\ UNCHANGED <<bootpart, validatePart, validateUpdate, validateArgs, bootVars,
                 fileVars, procVars, evidence, sysVars, history, faults>>

\* A failing read counts as empty arguments (unwrap_or_default).
ReadArgsFails ==
  /\ pc = "finalize_args"
  /\ Fault
  /\ pc' = "unset_update" /\ argsSkipped' = TRUE
  /\ UNCHANGED <<envVars, bootVars, fileVars, procVars, evidence, sysVars, rebootLost>>

UnsetValidateArgs ==
  /\ pc = "unset_args"
  /\ validateArgs' = "unset" /\ pc' = "unset_update"
  /\ UNCHANGED <<bootpart, validatePart, validateUpdate, extraArgs, bootVars, fileVars,
                 procVars, evidence, sysVars, history, faults>>

UnsetValidateUpdate ==
  /\ pc = "unset_update"
  /\ validateUpdate' = FALSE /\ pc' = "unset_part"
  /\ UNCHANGED <<bootpart, validatePart, extraArgs, validateArgs, bootVars, fileVars,
                 procVars, evidence, sysVars, history, faults>>

\* Mutant: the candidate is left in the environment.
UnsetValidatePartMutant ==
  /\ pc = "unset_part"
  /\ pc' = "remove_barrier"
  /\ UNCHANGED <<envVars, bootVars, fileVars, procVars, evidence, sysVars, history, faults>>

UnsetValidatePart ==
  /\ pc = "unset_part"
  /\ validatePart' = None /\ pc' = "remove_barrier"
  /\ UNCHANGED <<bootpart, validateUpdate, extraArgs, validateArgs, bootVars, fileVars,
                 procVars, evidence, sysVars, history, faults>>

RemoveBarrier ==
  /\ pc = "remove_barrier"
  /\ barrier' = "absent" /\ pc' = "remove_conf"
  /\ UNCHANGED <<envVars, bootVars, validateFile, restartCount, overdue, failedFile,
                 conf, procVars, evidence, sysVars, history, faults>>

RemoveConf ==
  /\ pc = "remove_conf"
  /\ conf' = "absent" /\ pc' = "set_status"
  /\ UNCHANGED <<envVars, bootVars, validateFile, barrierVars, failedFile, procVars,
                 evidence, sysVars, history, faults>>

SetStatus ==
  /\ pc = "set_status"
  /\ status' = "Succeeded" /\ pc' = "publish"
  /\ UNCHANGED <<envVars, bootVars, fileVars, svc, starts, cancel, localUpdate,
                 evidence, sysVars, history, faults>>

Published ==
  /\ pc = "publish"
  /\ pc' = "done"
  /\ UNCHANGED <<envVars, bootVars, fileVars, procVars, evidence, sysVars, history,
                 faults>>

\* An error of D-Bus, of the bootloader environment tools or of a removal that
\* is not ignored.
StepFails ==
  /\ pc \in EnvSteps \cup {"await_running", "start_adu", "remove_file", "remove_barrier"}
  /\ Fault
  /\ pc' = "failed"
  /\ UNCHANGED <<envVars, bootVars, fileVars, procVars, evidence, sysVars, history>>

\* timeout(remaining_time, observe_update) elapses at any await of the task.
Timeout ==
  /\ pc \in Awaiting
  /\ pc' = "failed"
  /\ UNCHANGED <<envVars, bootVars, fileVars, procVars, evidence, sysVars, history,
                 faults>>

\* systemd::reboot records the reason and spawns the delayed reboot ...
RequestReboot ==
  /\ pc = "failed"
  /\ pc' = "delay"
  /\ UNCHANGED <<envVars, bootVars, fileVars, procVars, evidence, sysVars, history,
                 faults>>

\* ... or returns early, which start_timeout only logs; the spawned task only
\* logs that reboot.target cannot be started, too.
RebootFails ==
  /\ pc \in {"failed", "delay"}
  /\ Fault
  /\ pc' = "done" /\ rebootLost' = TRUE
  /\ UNCHANGED <<envVars, bootVars, fileVars, procVars, evidence, sysVars, argsSkipped>>

TriggerReboot ==
  /\ pc = "delay"
  /\ pc' = "done"
  /\ going' = IF going = "none" THEN "failed" ELSE going
  /\ UNCHANGED <<envVars, bootVars, fileVars, procVars, evidence, sysRunning, observer,
                 history, faults>>

-----------------------------------------------------------------------------
(* The observer timer, ten minutes after boot, and the rest of the device. *)

ObserverFires ==
  /\ observer = "armed"
  /\ observer' = "off"
  /\ going' = IF validateFile /\ going = "none" THEN "failed" ELSE going
  /\ UNCHANGED <<envVars, bootVars, fileVars, procVars, pc, evidence, sysRunning,
                 history, faults>>

SystemStateChanges ==
  /\ sysRunning' = ~sysRunning
  /\ UNCHANGED <<envVars, bootVars, fileVars, procVars, pc, evidence, observer, going,
                 history, faults>>

\* The wall clock passes the deadline, by time or by a time synchronisation.
DeadlinePasses ==
  /\ barrier # "absent" /\ ~overdue
  /\ overdue' = TRUE
  /\ UNCHANGED <<envVars, bootVars, validateFile, barrier, restartCount, failedFile, conf,
                 procVars, pc, evidence, sysVars, history, faults>>

-----------------------------------------------------------------------------
Start == StartRefused \/ TimerStarts \/ StartFails \/ StartIdle \/ StartTrial
         \/ ResumeTrial \/ StartUnreadable \/ BarrierWritten

Progress ==
  Cancelled \/ CheckRunning \/ RemoveValidateFile \/ SetBootpart \/ SetExtraArgs
  \/ UnsetValidateArgs \/ UnsetValidateUpdate \/ UnsetValidatePart
  \/ RemoveBarrier \/ RemoveConf \/ SetStatus \/ Published
  \/ RequestReboot \/ TriggerReboot

Task == Progress \/ Timeout

TaskFails == ReadArgsFails \/ StepFails \/ RebootFails

Next ==
  \/ Boot \/ PowerLoss
  \/ Start \/ \E ok \in BOOLEAN : Exit(ok)
  \/ \E authenticated \in BOOLEAN : SetAuthenticated(authenticated)
  \/ Task \/ AduStarted \/ TaskFails
  \/ ObserverFires \/ SystemStateChanges \/ DeadlinePasses

Spec == Init /\ [][Next]_vars

\* systemd restarts the service and boots, the executor polls the task, and
\* timers fire; cloud, agent and system state owe nothing.
FairSpec ==
  /\ Spec
  /\ WF_vars(Boot) /\ WF_vars(Start) /\ WF_vars(Task) /\ WF_vars(Timeout)
  /\ WF_vars(ObserverFires)

-----------------------------------------------------------------------------
(* Properties                                                              *)

Trial == INSTANCE UpdateTrial WITH
  root <- booted, default <- bootpart, candidate <- validatePart,
  tried <- validateUpdate, local <- localUpdate, evidence <- evidence

\* The promise of the update validation, kept by every step of the service,
\* its scripts and the bootloader, crashes and power losses included: the
\* default root moves only to the running root and only once this process saw
\* the system running and, unless local, the cloud and the agent.
ImplementsTrial == Trial!Spec

\* finalize() clears omnect_validate_update only after both the default root
\* and the boot arguments are those of the running root, so that no power loss
\* leaves a device that drops the trial and boots something never tried.
MarkerLast ==
  barrier # "absent" /\ ~validateUpdate =>
    /\ bootpart = booted
    /\ extraArgs = bootedArgs \/ argsSkipped

\* What the service publishes as Succeeded is durable: nothing in the boot
\* environment or in /run can still send the device back to the old root.
SucceededIsDurable ==
  status = "Succeeded" =>
    /\ bootpart = booted /\ validatePart = None /\ ~validateUpdate
    /\ extraArgs = bootedArgs \/ argsSkipped
    /\ barrier = "absent" /\ ~validateFile

Undecided == booted = validatePart /\ validateUpdate

\* No start succeeds any more and, the validate file being removed, neither
\* script has a reason to reboot: a crash tore the barrier file, or Twin::new
\* fails before the restarts are counted and there were too few of them.
StartsInVain ==
  /\ svc \in {"down", "dead"} /\ ~validateFile
  /\ barrier = "torn" \/ (unfit /\ restartCount < MaxRestartCount)

\* The ways a trial is left undecided until somebody power cycles the device:
\* the service starts in vain for ever, or its reboot was lost, since
\* systemd::reboot could not record the reason or start reboot.target, which
\* is only logged.
Abandoned == rebootLost \/ StartsInVain

\* Every other trial is committed or rolled back, however often the service
\* fails on the way, also before it gets to its validation: by its timer, the
\* ExecStopPost script or the observer.
TrialDecided == Undecided ~> ~Undecided \/ Abandoned
=============================================================================
