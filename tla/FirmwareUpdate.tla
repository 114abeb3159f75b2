--------------------------- MODULE FirmwareUpdate ---------------------------
(***************************************************************************)
(* FirmwareUpdate: loading an update, running it, and what the guards of   *)
(* both undo.  The guards restore the watchdog interval, the boot          *)
(* arguments and the device update agent in spawned tasks, which race with *)
(* the next command; the process may be killed at any step.  Behaviours    *)
(* end with the reboot (or power cut) UpdateValidation starts from.        *)
(***************************************************************************)
EXTENDS Naturals, FiniteSets, UpdateArchive

CONSTANTS
  Image,      \* the images there are
  ArgsOfImage(_), \* the set of kernel arguments an image brings
  VersionOf(_),   \* the version an image has
  Archives,       \* the archives that may be loaded
  Damaged,        \* images that are not what a manifest describes
  Installed,  \* the image the device runs at first
  CustomArgs, \* the sets of arguments the custom file may hold
  MaxLoads, MaxFaults, MaxKills  \* bounds

\* What a root holds while it is being written.
Torn == "torn"

ASSUME ImageAssumption ==
  /\ Damaged \subseteq Image /\ Installed \in Image \ Damaged
  /\ {None, NoHash, Torn} \cap Image = {}
  /\ \A i \in Image : VersionOf(i) \in OmnectOsVersion
\* A manifest that goes with its checksum describes no damaged image, and tells
\* the version of the image it describes.
ASSUME ArchiveAssumption ==
  \A archive \in Archives :
    Described(archive) =>
      /\ LastEntry(archive, "swu").content \in Image
      /\ LET manifest == LastEntry(archive, "manifest").content
         IN  \A name \in DOMAIN manifest.files :
               manifest.files[name] # NoHash =>
                 /\ manifest.files[name] \notin Damaged
                 /\ manifest.version = VersionOf(manifest.files[name])
ASSUME BoundsAssumption == MaxLoads \in Nat /\ MaxFaults \in Nat /\ MaxKills \in Nat

VARIABLES
  \* the roots and the bootloader environment
  root, booted, bootpart, validatePart, validateUpdate, extraArgs, validateArgs,
  bootloaderUpdated,
  \* files: the image's arguments, their backup, the custom ones, the
  \* configuration of the validation
  argsFile, backup, custom, conf,
  \* the process: the loaded image, the running handler, waiting_for_reboot
  loaded, pc, request, waiting,
  \* RunUpdateGuard (and its rollback task) and the tasks of LoadUpdateGuards
  guard, rollback, restores,
  \* systemd: watchdog interval, the update agent's units, the reboot
  wdt, saved, aduTimer, aduService, going,
  \* history: the rollback of the last run did not get to the agent's timer
  aduLost,
  \* history: how the current run found the device, and the bounded events
  clean, before, loads, faults, kills

envVars == <<booted, bootpart, validatePart, validateUpdate, extraArgs, validateArgs,
             bootloaderUpdated>>
fileVars == <<argsFile, backup, custom, conf>>
cmdVars == <<loaded, request, waiting>>
aduVars == <<aduTimer, aduService, aduLost>>
runHistory == <<clean, before>>
counters == <<loads, faults, kills>>
vars == <<root, envVars, fileVars, cmdVars, pc, guard, rollback, restores, wdt, saved,
          aduVars, going, runHistory, counters>>

Part == {"A", "B"}
Token == (UNION {ArgsOfImage(i) : i \in Image}) \cup (UNION CustomArgs)
Interval == {"base", "load", "run"}
Guarded == {"root", "root_written", "bootloader", "backup", "kernelargs", "apply",
            "conf", "conf_written", "mark", "name"}

\* An environment variable holds {} when unset, {{}} for NOARGS_SENTINEL, and
\* {args} for arguments; so does a backup file.
Optional(S) == {{}} \cup {{s} : s \in S}

EnvTypeOK ==
  /\ root \in [Part -> Image \cup {Torn}]
  /\ booted \in Part /\ bootpart \in Part /\ validatePart \in Part \cup {None}
  /\ validateUpdate \in BOOLEAN /\ bootloaderUpdated \in BOOLEAN
  /\ extraArgs \subseteq Token /\ validateArgs \in Optional(SUBSET Token)

FileTypeOK ==
  /\ argsFile \subseteq Token /\ custom \subseteq Token
  /\ backup \in Optional(SUBSET Token)
  /\ conf \in {"absent", "torn", "local", "remote"}

ProcTypeOK ==
  /\ loaded \in Image \cup {None}
  /\ pc \in Guarded \cup {"idle", "load", "stop_timer", "stop_service", "reboot"}
  /\ request \in {"local", "remote"} /\ waiting \in BOOLEAN
  /\ guard \in [bootloader : BOOLEAN, backup : BOOLEAN]
  /\ rollback \in {"none", "files", "wdt", "service", "timer", "hung"}
  /\ restores \in SUBSET [load : 1..MaxLoads, wdt : Interval]

SysTypeOK ==
  /\ wdt \in Interval /\ saved \in Interval
  /\ aduTimer \in BOOLEAN /\ aduService \in BOOLEAN /\ going \in BOOLEAN
  /\ clean \in BOOLEAN /\ aduLost \in BOOLEAN
  /\ loads \in 0..MaxLoads /\ faults \in 0..MaxFaults /\ kills \in 0..MaxKills

TypeOK == EnvTypeOK /\ FileTypeOK /\ ProcTypeOK /\ SysTypeOK

\* Mutant: the running root for its counterpart.
OtherMutant(part) == part

Other(part) == IF part = "A" THEN "B" ELSE "A"

target == Other(booted)

\* The arguments of the image in place, merged with the custom ones.
mergedArgs == argsFile \cup custom

\* A settled device.  The custom arguments may have changed since they were
\* last merged.
Init ==
  /\ booted = "A" /\ bootpart = "A" /\ validatePart = None /\ validateUpdate = FALSE
  /\ root = [part \in Part |-> Installed]
  /\ argsFile = ArgsOfImage(Installed) /\ backup = {} /\ custom \in CustomArgs
  /\ extraArgs \in {argsFile \cup c : c \in CustomArgs}
  /\ validateArgs = {} /\ bootloaderUpdated = FALSE /\ conf = "absent"
  /\ loaded = None /\ pc = "idle" /\ request = "local" /\ waiting = FALSE
  /\ guard = [bootloader |-> FALSE, backup |-> FALSE]
  /\ rollback = "none" /\ restores = {}
  /\ wdt = "base" /\ saved = "base" /\ aduTimer = TRUE /\ aduService = TRUE
  /\ going = FALSE /\ aduLost = FALSE
  /\ clean = TRUE /\ before = <<extraArgs, argsFile>>
  /\ loads = 0 /\ faults = 0 /\ kills = 0

Fault == faults < MaxFaults /\ faults' = faults + 1 /\ UNCHANGED <<loads, kills>>

\* The loop takes a command: not while another runs, nor after one that
\* triggers a reboot.
TakesCommand == pc = "idle" /\ ~waiting /\ ~going

-----------------------------------------------------------------------------
(* load                                                                    *)

\* The archive is checked under a LoadUpdateGuard, which lengthens the
\* watchdog interval and keeps the old one.
LoadStart ==
  /\ TakesCommand /\ loads < MaxLoads
  /\ loads' = loads + 1
  /\ loaded' = None
  /\ saved' = wdt /\ wdt' = "load"
  /\ pc' = "load"
  /\ UNCHANGED <<root, envVars, fileVars, request, waiting, guard, rollback, restores,
                 aduVars, going, runHistory, faults, kills>>

\* Dropping the guard spawns the task that restores the interval.
LoadEnd ==
  /\ pc = "load"
  /\ pc' = "idle"
  /\ \E archive \in Archives : loaded' = Loaded(archive, VersionOf(root[booted]))
  /\ restores' = restores \cup {[load |-> loads, wdt |-> saved]}
  /\ UNCHANGED <<root, envVars, fileVars, request, waiting, guard, rollback, wdt, saved,
                 aduVars, going, runHistory, counters>>

LoadRestore ==
  \E task \in restores :
    /\ wdt' = task.wdt
    /\ restores' = restores \ {task}
    /\ UNCHANGED <<root, envVars, fileVars, cmdVars, pc, guard, rollback, saved,
                   aduVars, going, runHistory, counters>>

-----------------------------------------------------------------------------
(* run                                                                     *)

\* Nothing is loaded: the command fails, and the loop waits for a reboot.
RunRejected ==
  /\ TakesCommand /\ loaded = None
  /\ waiting' = TRUE
  /\ UNCHANGED <<root, envVars, fileVars, loaded, request, pc, guard, rollback, restores,
                 wdt, saved, aduVars, going, runHistory, counters>>

\* RunUpdateGuard::new lengthens the interval, then stops timer and service.
RunStart ==
  /\ TakesCommand /\ loaded # None
  /\ request' \in {"local", "remote"}
  /\ saved' = wdt /\ wdt' = "run"
  /\ pc' = "stop_timer"
  /\ guard' = [bootloader |-> FALSE, backup |-> FALSE]
  /\ clean' = (validatePart = None /\ bootpart = booted /\ validateArgs = {}
               /\ conf = "absent")
  /\ before' = <<extraArgs, argsFile>> /\ aduLost' = FALSE
  /\ UNCHANGED <<root, envVars, fileVars, loaded, waiting, rollback, restores, aduTimer,
                 aduService, going, counters>>

StopTimer ==
  /\ pc = "stop_timer"
  /\ aduTimer' = FALSE /\ pc' = "stop_service"
  /\ UNCHANGED <<root, envVars, fileVars, cmdVars, guard, rollback, restores, wdt, saved,
                 aduService, aduLost, going, runHistory, counters>>

StopService ==
  /\ pc = "stop_service"
  /\ aduService' = FALSE /\ pc' = "root"
  /\ UNCHANGED <<root, envVars, fileVars, cmdVars, guard, rollback, restores, wdt, saved,
                 aduTimer, aduLost, going, runHistory, counters>>

\* There is no guard yet: nothing is undone.
GuardFails ==
  /\ pc \in {"stop_timer", "stop_service"} /\ Fault
  /\ pc' = "idle" /\ waiting' = TRUE
  /\ UNCHANGED <<root, envVars, fileVars, loaded, request, guard, rollback, restores, wdt,
                 saved, aduVars, going, runHistory>>

WriteRoot ==
  /\ pc = "root"
  /\ root' = [root EXCEPT ![target] = Torn] /\ pc' = "root_written"
  /\ UNCHANGED <<envVars, fileVars, cmdVars, guard, rollback, restores, wdt, saved,
                 aduVars, going, runHistory, counters>>

RootWritten ==
  /\ pc = "root_written"
  /\ root' = [root EXCEPT ![target] = loaded] /\ pc' = "bootloader"
  /\ UNCHANGED <<envVars, fileVars, cmdVars, guard, rollback, restores, wdt, saved,
                 aduVars, going, runHistory, counters>>

\* An image may bring a bootloader; installing it fails for one that does not.
UpdateBootloader ==
  /\ pc = "bootloader"
  /\ \E updated \in BOOLEAN : guard' = [guard EXCEPT !.bootloader = updated]
  /\ pc' = "backup"
  /\ UNCHANGED <<root, envVars, fileVars, cmdVars, rollback, restores, wdt, saved,
                 aduVars, going, runHistory, counters>>

BackupArgs ==
  /\ pc = "backup"
  /\ backup' = {argsFile} /\ guard' = [guard EXCEPT !.backup = TRUE]
  /\ pc' = "kernelargs"
  /\ UNCHANGED <<root, envVars, argsFile, custom, conf, cmdVars, rollback, restores, wdt,
                 saved, aduVars, going, runHistory, counters>>

UpdateKernelargs ==
  /\ pc = "kernelargs"
  /\ argsFile' = ArgsOfImage(loaded)
  /\ pc' = "apply"
  /\ UNCHANGED <<root, envVars, backup, custom, conf, cmdVars, guard, rollback, restores,
                 wdt, saved, aduVars, going, runHistory, counters>>

\* Mutant: no arguments are taken for no change of arguments.
ApplyBootargsMutant ==
  /\ pc = "apply"
  /\ IF guard.bootloader
     THEN extraArgs' = mergedArgs /\ UNCHANGED validateArgs
     ELSE /\ UNCHANGED extraArgs
          /\ validateArgs' = IF mergedArgs \in {{}, extraArgs} THEN validateArgs
                             ELSE {mergedArgs}
  /\ pc' = "conf"
  /\ UNCHANGED <<root, booted, bootpart, validatePart, validateUpdate,
                 bootloaderUpdated, fileVars, cmdVars, guard, rollback, restores, wdt,
                 saved, aduVars, going, runHistory, counters>>

\* Mutant: arguments are put up for validation though they are in place.
ApplyBootargsAgainMutant ==
  /\ pc = "apply"
  /\ IF guard.bootloader
     THEN extraArgs' = mergedArgs /\ UNCHANGED validateArgs
     ELSE UNCHANGED extraArgs /\ validateArgs' = {mergedArgs}
  /\ pc' = "conf"
  /\ UNCHANGED <<root, booted, bootpart, validatePart, validateUpdate,
                 bootloaderUpdated, fileVars, cmdVars, guard, rollback, restores, wdt,
                 saved, aduVars, going, runHistory, counters>>

\* apply_bootargs: validated with the update, except with a new bootloader.
ApplyBootargs ==
  /\ pc = "apply"
  /\ IF guard.bootloader
     THEN extraArgs' = mergedArgs /\ UNCHANGED validateArgs
     ELSE /\ UNCHANGED extraArgs
          /\ validateArgs' = IF mergedArgs = extraArgs THEN validateArgs ELSE {mergedArgs}
  /\ pc' = "conf"
  /\ UNCHANGED <<root, booted, bootpart, validatePart, validateUpdate,
                 bootloaderUpdated, fileVars, cmdVars, guard, rollback, restores, wdt,
                 saved, aduVars, going, runHistory, counters>>

\* to_json_file truncates the file, then writes it.
WriteConf ==
  /\ pc = "conf"
  /\ conf' = "torn" /\ pc' = "conf_written"
  /\ UNCHANGED <<root, envVars, argsFile, backup, custom, cmdVars, guard, rollback,
                 restores, wdt, saved, aduVars, going, runHistory, counters>>

ConfWritten ==
  /\ pc = "conf_written"
  /\ conf' = request /\ pc' = IF guard.bootloader THEN "mark" ELSE "name"
  /\ UNCHANGED <<root, envVars, argsFile, backup, custom, cmdVars, guard, rollback,
                 restores, wdt, saved, aduVars, going, runHistory, counters>>

\* A new bootloader is marked first.
MarkBootloader ==
  /\ pc = "mark"
  /\ bootloaderUpdated' = TRUE /\ pc' = "name"
  /\ UNCHANGED <<root, booted, bootpart, validatePart, validateUpdate, extraArgs,
                 validateArgs, fileVars, cmdVars, guard, rollback, restores, wdt, saved,
                 aduVars, going, runHistory, counters>>

\* The new root is named: for a trial, or with a new bootloader for good.  The
\* guard is finalized.
NameRoot ==
  /\ pc = "name"
  /\ IF guard.bootloader
     THEN bootpart' = target /\ UNCHANGED validatePart
     ELSE validatePart' = target /\ UNCHANGED bootpart
  /\ pc' = "reboot"
  /\ UNCHANGED <<root, booted, validateUpdate, extraArgs, validateArgs,
                 bootloaderUpdated, fileVars, cmdVars, guard, rollback, restores, wdt,
                 saved, aduVars, going, runHistory, counters>>

Reboot ==
  /\ pc = "reboot"
  /\ going' = TRUE /\ pc' = "idle" /\ waiting' = TRUE
  /\ UNCHANGED <<root, envVars, fileVars, loaded, request, guard, rollback, restores, wdt,
                 saved, aduVars, runHistory, counters>>

RebootFails ==
  /\ pc = "reboot" /\ Fault
  /\ pc' = "idle" /\ waiting' = TRUE
  /\ UNCHANGED <<root, envVars, fileVars, loaded, request, guard, rollback, restores, wdt,
                 saved, aduVars, going, runHistory>>

\* A step fails, the guard is dropped and spawns the rollback; a failing
\* swupdate may or may not have replaced the arguments file.
RunFails ==
  /\ pc \in Guarded /\ Fault
  /\ pc' = "idle" /\ waiting' = TRUE
  /\ rollback' = "files"
  /\ argsFile' \in {argsFile} \cup (IF pc = "kernelargs" THEN {ArgsOfImage(loaded)} ELSE {})
  /\ UNCHANGED <<root, envVars, backup, custom, conf, loaded, request, guard, restores,
                 wdt, saved, aduVars, going, runHistory>>

-----------------------------------------------------------------------------
(* The rollback task.                                                      *)

\* Mutant: the arguments of the failed update stay up for validation.
DoRollbackMutant(done) ==
  /\ UNCHANGED validateArgs
  /\ argsFile' = IF "file" \in done /\ guard.backup THEN UNION backup ELSE argsFile
  /\ extraArgs' = IF {"file", "env"} \subseteq done /\ guard.backup
                  THEN argsFile' \cup custom ELSE extraArgs
  /\ backup' = IF guard.backup THEN {} ELSE backup
  /\ conf' = IF "conf" \in done THEN "absent" ELSE conf

\* do_rollback goes on after errors; done are the steps that succeed.
DoRollback(done) ==
  /\ validateArgs' = IF "args" \in done THEN {} ELSE validateArgs
  /\ argsFile' = IF "file" \in done /\ guard.backup THEN UNION backup ELSE argsFile
  /\ extraArgs' = IF {"file", "env"} \subseteq done /\ guard.backup
                  THEN argsFile' \cup custom ELSE extraArgs
  /\ backup' = IF guard.backup THEN {} ELSE backup
  /\ conf' = IF "conf" \in done THEN "absent" ELSE conf

RollbackStep == {"args", "file", "env", "conf"}

Rollback ==
  /\ rollback = "files"
  /\ IF guard.bootloader
     THEN UNCHANGED <<envVars, fileVars, faults>>
     ELSE /\ \/ DoRollback(RollbackStep) /\ UNCHANGED faults
             \/ \E step \in RollbackStep :
                  /\ faults < MaxFaults /\ faults' = faults + 1
                  /\ DoRollback(RollbackStep \ {step})
          /\ UNCHANGED <<booted, bootpart, validatePart, validateUpdate,
                         bootloaderUpdated, custom>>
  /\ rollback' = "wdt"
  /\ UNCHANGED <<root, cmdVars, pc, guard, restores, wdt, saved, aduVars, going,
                 runHistory, loads, kills>>

\* Mutant: the interval to go back to was lost.
RestoreWdtMutant ==
  /\ rollback = "wdt"
  /\ wdt' = None /\ rollback' = "service"
  /\ UNCHANGED <<root, envVars, fileVars, cmdVars, pc, guard, restores, saved, aduVars,
                 going, runHistory, counters>>

RestoreWdt ==
  /\ rollback = "wdt"
  /\ wdt' = saved /\ rollback' = "service"
  /\ UNCHANGED <<root, envVars, fileVars, cmdVars, pc, guard, restores, saved, aduVars,
                 going, runHistory, counters>>

\* Mutant: the timer is forgotten.
StartServiceMutant ==
  /\ rollback = "service"
  /\ aduService' = TRUE /\ rollback' = "none"
  /\ UNCHANGED <<root, envVars, fileVars, cmdVars, pc, guard, restores, wdt, saved,
                 aduTimer, aduLost, going, runHistory, counters>>

StartService ==
  /\ rollback = "service"
  /\ aduService' = TRUE /\ rollback' = "timer"
  /\ UNCHANGED <<root, envVars, fileVars, cmdVars, pc, guard, restores, wdt, saved,
                 aduTimer, aduLost, going, runHistory, counters>>

\* A call that returns an error is logged, and the timer is tried.
StartServiceFails ==
  /\ rollback = "service" /\ Fault
  /\ rollback' = "timer"
  /\ UNCHANGED <<root, envVars, fileVars, cmdVars, pc, guard, restores, wdt, saved,
                 aduVars, going, runHistory>>

StartTimer ==
  /\ rollback = "timer"
  /\ aduTimer' = TRUE /\ rollback' = "none"
  /\ UNCHANGED <<root, envVars, fileVars, cmdVars, pc, guard, restores, wdt, saved,
                 aduService, aduLost, going, runHistory, counters>>

\* The same for the timer, which nobody starts then.
StartTimerFails ==
  /\ rollback = "timer" /\ Fault
  /\ rollback' = "none" /\ aduLost' = TRUE
  /\ UNCHANGED <<root, envVars, fileVars, cmdVars, pc, guard, restores, wdt, saved,
                 aduTimer, aduService, going, runHistory>>

\* unit_action waits for a job that is "done": one that fails is waited for
\* without end.
StartHangs ==
  /\ rollback \in {"service", "timer"} /\ Fault
  /\ rollback' = "hung" /\ aduLost' = TRUE
  /\ UNCHANGED <<root, envVars, fileVars, cmdVars, pc, guard, restores, wdt, saved,
                 aduTimer, aduService, going, runHistory>>

-----------------------------------------------------------------------------
\* The process ends without running its guards, and a new one starts.
Restart ==
  /\ loaded' = None /\ pc' = "idle" /\ waiting' = FALSE
  /\ rollback' = "none" /\ restores' = {}
  /\ wdt' = "base"
  /\ aduLost' = (aduLost \/ rollback # "none")
  /\ UNCHANGED <<root, envVars, fileVars, request, guard, saved, aduTimer, aduService,
                 going, runHistory, loads, faults>>

Kill ==
  /\ ~going /\ kills < MaxKills
  /\ kills' = kills + 1
  /\ Restart

\* A panic of the loop ends the process with it.
LoadPanics ==
  /\ pc = "load"
  /\ \E archive \in Archives : Panics(archive)
  /\ UNCHANGED kills
  /\ Restart

Load == LoadPanics \/ LoadStart \/ LoadEnd \/ LoadRestore

RunStep == StopTimer \/ StopService \/ WriteRoot \/ RootWritten \/ UpdateBootloader
           \/ BackupArgs \/ UpdateKernelargs \/ ApplyBootargs \/ WriteConf
           \/ ConfWritten \/ MarkBootloader \/ NameRoot \/ Reboot

RollbackTask == Rollback \/ RestoreWdt \/ StartService \/ StartTimer

Fails == GuardFails \/ RunFails \/ RebootFails \/ StartServiceFails \/ StartTimerFails
         \/ StartHangs

Next == Load \/ RunRejected \/ RunStart \/ RunStep \/ RollbackTask \/ Fails \/ Kill

Spec == Init /\ [][Next]_vars

\* The executor polls the handler and the spawned tasks.
FairSpec == Spec /\ WF_vars(RunStep) /\ WF_vars(RollbackTask) /\ WF_vars(LoadRestore)

-----------------------------------------------------------------------------
(* Properties                                                              *)

\* What a reset of the device boots next.
bootsNext == IF validatePart # None /\ ~validateUpdate THEN validatePart ELSE bootpart

\* An update of a settled device may lose its power or its process at any step:
\* the device boots a complete image, never the root that is being written.
PowerCutSafe == clean => root[bootsNext] # Torn

\* A settled device never turns to an older system than the one that runs,
\* neither for a trial nor for good nor after a power cut in the middle of a run.
NoDowngrade ==
  clean /\ root[bootsNext] # Torn
    => ~Lexicographic(VersionOf(root[bootsNext]), VersionOf(root[booted]))

\* An image that was damaged, or mixed up with another one of its archive, is
\* never written to a root, whatever else is in the archive and in what order.
OnlyDescribedFlashed == \A part \in Part : root[part] \notin Damaged

\* When a run has named its root, the state is the one UpdateValidation starts
\* from: image, configuration and arguments are those of the update, and the
\* old root stays the default; or, with a bootloader, all is final.
EstablishesTrial ==
  clean /\ (pc = "reboot" \/ going) =>
    /\ root[target] = loaded
    /\ conf = request
    /\ IF guard.bootloader
       THEN /\ bootpart = target /\ validatePart = None /\ extraArgs = mergedArgs
            /\ bootloaderUpdated
       ELSE /\ bootpart = booted /\ validatePart = target /\ ~validateUpdate
            /\ (IF validateArgs = {} THEN extraArgs ELSE UNION validateArgs) = mergedArgs

\* A failed run leaves nothing behind that steers a later boot or update: once
\* its rollback is through without an error of its own, the environment and
\* the files are those of before, with the custom arguments merged.
RollbackRestores ==
  clean /\ rollback \in {"wdt", "service", "timer"} /\ ~guard.bootloader /\ faults = 1 =>
    /\ validatePart = None /\ validateArgs = {} /\ conf = "absent"
    /\ argsFile = before[2]
    /\ extraArgs = IF guard.backup THEN mergedArgs ELSE before[1]

\* A rollback brings the device update agent's timer back, whichever of its other
\* steps fail; unless the start of the timer itself fails, a start job does, or
\* the process ends before.
AduRestored == rollback # "none" ~> aduTimer \/ aduLost

\* RUN_UPDATE_WDT_INTERVAL_SECS holds while swupdate blocks the loop:
\* "changed wdt to {RUN_UPDATE_WDT_INTERVAL_SECS}s" (firmware_update/mod.rs:85).
WatchdogHeld ==
  pc \in {"root_written", "bootloader", "kernelargs"} => wdt = "run"

\* "Otherwise ... a reboot is triggered which boots to the old root partition"
\* (update_validation.md:3): the old root is not written during its trial.
FallbackIntact == pc = "root_written" => target # bootpart
=============================================================================
