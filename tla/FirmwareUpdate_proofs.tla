------------------------ MODULE FirmwareUpdate_proofs ------------------------
(***************************************************************************)
(* Proofs about FirmwareUpdate, for every set of images and archives, all  *)
(* kernel arguments and all bounds: type correctness, that only described  *)
(* images are flashed, that a power cut boots a complete root, that        *)
(* nothing leads a settled device to an older image, and that a run        *)
(* establishes its trial or is rolled back.  First, that the order of the  *)
(* versions that load compares is a total one.                             *)
(***************************************************************************)
EXTENDS FirmwareUpdate, TLAPS

-----------------------------------------------------------------------------
(* The order of the versions: the hand-written order of OmnectOsVersion is *)
(* total, lexicographic, and agrees with the derived equality.             *)

\* The fields are the version.
LEMMA Extensional ==
  ASSUME NEW v \in OmnectOsVersion, NEW w \in OmnectOsVersion,
         v.major = w.major, v.minor = w.minor, v.patch = w.patch, v.build = w.build
  PROVE  v = w
BY DEF OmnectOsVersion

\* The numbers of a version.
LEMMA Fields ==
  ASSUME NEW v \in OmnectOsVersion
  PROVE  v.major \in Nat /\ v.minor \in Nat /\ v.patch \in Nat /\ v.build \in Nat
BY DEF OmnectOsVersion

\* The chain of comparisons is the lexicographic order.
THEOREM OlderIsLexicographic ==
  ASSUME NEW v \in OmnectOsVersion, NEW w \in OmnectOsVersion
  PROVE  Older(v, w) <=> Lexicographic(v, w)
<1>1. /\ v.major \in Nat /\ v.minor \in Nat /\ v.patch \in Nat /\ v.build \in Nat
      /\ w.major \in Nat /\ w.minor \in Nat /\ w.patch \in Nat /\ w.build \in Nat
  BY Fields
<1> QED
  BY <1>1 DEF Older, Lexicographic, PartialCmp, Then, cmp

\* The contract of PartialOrd: "Equal" exactly for what the derived equality
\* calls equal.  Both refusals of load rest on it.
THEOREM EqualIsEqual ==
  ASSUME NEW v \in OmnectOsVersion, NEW w \in OmnectOsVersion
  PROVE  PartialCmp(v, w) = "Equal" <=> v = w
<1>1. /\ v.major \in Nat /\ v.minor \in Nat /\ v.patch \in Nat /\ v.build \in Nat
      /\ w.major \in Nat /\ w.minor \in Nat /\ w.patch \in Nat /\ w.build \in Nat
  BY Fields
<1>2. ASSUME PartialCmp(v, w) = "Equal" PROVE v = w
  <2>1. /\ v.major = w.major /\ v.minor = w.minor
        /\ v.patch = w.patch /\ v.build = w.build
    BY <1>1, <1>2 DEF PartialCmp, Then, cmp
  <2> QED
    BY <2>1, Extensional
<1>3. ASSUME v = w PROVE PartialCmp(v, w) = "Equal"
  BY <1>1, <1>3 DEF PartialCmp, Then, cmp
<1> QED
  BY <1>2, <1>3

\* Of two different versions one is older, and never both: what load accepts is
\* newer, and a device cannot go around in a circle of updates.
THEOREM StrictTotalOrder ==
  ASSUME NEW u \in OmnectOsVersion, NEW v \in OmnectOsVersion, NEW w \in OmnectOsVersion
  PROVE  /\ ~Older(v, v)
         /\ Older(u, v) /\ Older(v, w) => Older(u, w)
         /\ v # w => (Older(v, w) <=> ~Older(w, v))
         /\ PartialCmp(v, w) = "Greater" <=> Older(w, v)
<1>1. /\ u.major \in Nat /\ u.minor \in Nat /\ u.patch \in Nat /\ u.build \in Nat
      /\ v.major \in Nat /\ v.minor \in Nat /\ v.patch \in Nat /\ v.build \in Nat
      /\ w.major \in Nat /\ w.minor \in Nat /\ w.patch \in Nat /\ w.build \in Nat
  BY Fields
<1>2. ~Older(v, v)
  BY <1>1, OlderIsLexicographic DEF Lexicographic
<1>3. Older(u, v) /\ Older(v, w) => Older(u, w)
  BY <1>1, OlderIsLexicographic DEF Lexicographic
<1>4. PartialCmp(v, w) = "Greater" <=> Older(w, v)
  BY <1>1 DEF Older, PartialCmp, Then, cmp
<1>5. v # w => (Older(v, w) <=> ~Older(w, v))
  <2>1. PartialCmp(v, w) \in Ordering
    BY DEF PartialCmp, Then, cmp, Ordering
  <2> QED
    BY <1>4, <2>1, EqualIsEqual DEF Older, Ordering
<1> QED
  BY <1>2, <1>3, <1>4, <1>5

-----------------------------------------------------------------------------
(* The invariants                                                          *)

\* The steps of a run from its start, and from the complete new root, up to the
\* one that names that root.
FromWritten == {"bootloader", "backup", "kernelargs", "apply", "conf", "conf_written",
                "mark", "name"}
Running == FromWritten \cup {"stop_timer", "stop_service", "root", "root_written"}

\* An image a root may hold: described, and no older than the one that runs.
Fit(image) ==
  image \in Image \ Damaged
    /\ ~Lexicographic(VersionOf(image), VersionOf(root[booted]))

\* What is loaded passed the checks of load.
LoadedInv == loaded # None => Fit(loaded)

\* The running root is never written.
RootInv ==
  /\ root[booted] \in Image \ Damaged
  /\ root[target] # Torn => root[target] \in Image \ Damaged

\* Where a run is, and what it has written.
RunInv ==
  /\ pc = "load" => loads > 0
  /\ pc \in Running \cup {"reboot"} => loaded # None
  /\ pc \in FromWritten => root[target] = loaded

\* Before the new root is named the device boots the running one; afterwards,
\* or if an earlier run named one, a complete and fitting one.
NamedInv ==
  clean =>
    /\ pc \in Running => validatePart = None /\ bootpart = booted
    /\ Fit(root[bootsNext])

IInv == TypeOK /\ LoadedInv /\ RootInv /\ RunInv /\ NamedInv

\* Commands and rollbacks exclude each other, and nothing follows the reboot.
IdleInv ==
  /\ ~validateUpdate
  /\ rollback # "none" => pc = "idle" /\ waiting /\ faults > 0
  /\ going => pc = "idle" /\ waiting /\ rollback = "none"

\* The steps of a run before it installs a bootloader, up to the one that applies
\* the arguments, and after that.
BeforeBootloader == {"stop_timer", "stop_service", "root", "root_written", "bootloader"}
BeforeApply == BeforeBootloader \cup {"backup", "kernelargs", "apply"}
FromApply == {"conf", "conf_written", "mark", "name", "reboot"}

\* The arguments that are up for validation, or with a bootloader in place, are
\* those of the image and the custom file.
ArgsApplied ==
  \/ validateArgs = {} /\ extraArgs = mergedArgs
  \/ ~guard.bootloader /\ validateArgs = {mergedArgs}

\* What a run has prepared for the validation when it is at pc.
TrialInv ==
  clean =>
    /\ pc \in BeforeApply => validateArgs = {}
    /\ pc \in FromApply \/ going => ArgsApplied
    /\ pc \in {"mark", "name", "reboot"} \/ going => conf = request
    /\ guard.bootloader /\ (pc \in {"name", "reboot"} \/ going) => bootloaderUpdated
    /\ pc = "reboot" \/ going =>
         /\ root[target] = loaded
         /\ IF guard.bootloader THEN bootpart = target /\ validatePart = None
            ELSE bootpart = booted /\ validatePart = target

\* The arguments of before can be told from the files and the guard.
Undoable ==
  /\ guard.backup => backup = {before[2]}
  /\ ~guard.backup => argsFile = before[2]
  /\ ~guard.bootloader => extraArgs = before[1]

\* What a rollback starts from, and has undone.
UndoInv ==
  /\ pc \in BeforeBootloader => ~guard.bootloader /\ ~guard.backup
  /\ pc = "backup" => ~guard.backup
  /\ pc \in {"kernelargs", "apply", "conf", "conf_written", "mark", "name"} => guard.backup
  /\ clean /\ (pc \in Running \/ rollback = "files") => Undoable
  /\ clean /\ rollback # "none" => validatePart = None
  /\ RollbackRestores

TInv == IInv /\ IdleInv /\ TrialInv /\ UndoInv

-----------------------------------------------------------------------------
\* What every proof below unfolds.
USE DEF envVars, fileVars, cmdVars, aduVars, runHistory, counters

\* Arguments of an image or a custom file are tokens.
LEMMA Tokens ==
  /\ \A i \in Image : ArgsOfImage(i) \subseteq Token
  /\ \A args \in CustomArgs : args \subseteq Token
BY DEF Token

\* A list of at most one set of arguments.
LEMMA OptionalArgs ==
  ASSUME NEW args \in Optional(SUBSET Token)
  PROVE  UNION args \subseteq Token
BY DEF Optional

\* The values such a list has.
LEMMA OptionalValues ==
  /\ {} \in Optional(SUBSET Token)
  /\ \A args \in SUBSET Token : {args} \in Optional(SUBSET Token)
BY DEF Optional

\* load keeps an image only if the manifest of its archive describes it and its
\* version is not older than the running one.
LEMMA LoadedFits ==
  ASSUME RootInv, NEW archive \in Archives,
         Loaded(archive, VersionOf(root[booted])) # None
  PROVE  Fit(Loaded(archive, VersionOf(root[booted])))
<1> DEFINE swu == LastEntry(archive, "swu")
           manifest == LastEntry(archive, "manifest").content
           current == VersionOf(root[booted])
<1>1. Accepted(archive, current) /\ Loaded(archive, current) = swu.content
  BY DEF Loaded
<1>2. /\ Described(archive)
      /\ manifest.files[swu.name] = swu.content
      /\ PartialCmp(current, manifest.version) # "Greater"
  BY <1>1 DEF Accepted
<1>3. swu.content \in Image /\ swu.name \in DOMAIN manifest.files
  BY <1>2, ArchiveAssumption DEF Described
<1>4. swu.content # NoHash
  BY <1>3, ImageAssumption
<1>5. swu.content \notin Damaged /\ manifest.version = VersionOf(swu.content)
  BY <1>2, <1>3, <1>4, ArchiveAssumption
<1>6. VersionOf(swu.content) \in OmnectOsVersion /\ current \in OmnectOsVersion
  BY <1>3, ImageAssumption DEF RootInv
<1>7. ~Older(VersionOf(swu.content), current)
  BY <1>2, <1>5, <1>6, StrictTotalOrder
<1> QED
  BY <1>1, <1>3, <1>5, <1>6, <1>7, OlderIsLexicographic DEF Fit

\* A running image fits itself.
LEMMA RunningFits ==
  ASSUME RootInv
  PROVE  Fit(root[booted])
<1>1. root[booted] \in Image \ Damaged /\ VersionOf(root[booted]) \in OmnectOsVersion
  BY ImageAssumption DEF RootInv
<1>2. ~Lexicographic(VersionOf(root[booted]), VersionOf(root[booted]))
  BY <1>1, StrictTotalOrder, OlderIsLexicographic
<1> QED
  BY <1>1, <1>2 DEF Fit

-----------------------------------------------------------------------------
(* Types                                                                   *)

\* The initial states have the types.
LEMMA TypeOKInit == ASSUME Init PROVE TypeOK
<1>1. extraArgs \subseteq Token /\ argsFile \subseteq Token /\ custom \subseteq Token
  <2>1. argsFile \subseteq Token /\ custom \subseteq Token
    BY Tokens, ImageAssumption DEF Init
  <2> QED
    BY <2>1, Tokens DEF Init
<1>2. root \in [Part -> Image \cup {Torn}]
  BY ImageAssumption DEF Init
<1>3. loads \in 0..MaxLoads /\ faults \in 0..MaxFaults /\ kills \in 0..MaxKills
  BY BoundsAssumption DEF Init
<1>4. validateArgs \in Optional(SUBSET Token) /\ backup \in Optional(SUBSET Token)
  BY OptionalValues DEF Init
<1>5. EnvTypeOK
  BY <1>1, <1>2, <1>4 DEF Init, EnvTypeOK, Part
<1>6. FileTypeOK
  BY <1>1, <1>4 DEF Init, FileTypeOK
<1>7. ProcTypeOK
  BY DEF Init, ProcTypeOK
<1>8. SysTypeOK
  BY <1>3 DEF Init, SysTypeOK, Interval
<1> QED
  BY <1>5, <1>6, <1>7, <1>8 DEF TypeOK

\* What the rollback writes, whichever of its steps succeed.
LEMMA RollbackTypes ==
  ASSUME TypeOK, custom' = custom, NEW done, DoRollback(done)
  PROVE  /\ extraArgs' \subseteq Token /\ argsFile' \subseteq Token
         /\ validateArgs' \in Optional(SUBSET Token)
         /\ backup' \in Optional(SUBSET Token)
         /\ conf' \in {"absent", "torn", "local", "remote"}
BY OptionalArgs, OptionalValues DEF DoRollback, TypeOK, EnvTypeOK, FileTypeOK

\* The roots and the boot environment keep their types.
LEMMA EnvTypeOKStep ==
  ASSUME TypeOK, LoadedInv, RootInv, RunInv, [Next]_vars
  PROVE  EnvTypeOK'
<1> USE DEF TypeOK, EnvTypeOK, FromWritten
<1>0. pc \in FromWritten \cup {"root_written"} => loaded \in Image
  BY DEF RunInv, Running, ProcTypeOK
<1>1. CASE LoadPanics
  BY <1>1 DEF LoadPanics, Restart
<1>2. CASE LoadStart
  BY <1>2 DEF LoadStart
<1>3. CASE LoadEnd
  BY <1>3 DEF LoadEnd
<1>4. CASE LoadRestore
  BY <1>4 DEF LoadRestore
<1>5. CASE RunRejected
  BY <1>5 DEF RunRejected
<1>6. CASE RunStart
  BY <1>6 DEF RunStart
<1>7. CASE StopTimer
  BY <1>7 DEF StopTimer
<1>8. CASE StopService
  BY <1>8 DEF StopService
<1>9. CASE WriteRoot
  BY <1>9 DEF WriteRoot
<1>10. CASE RootWritten
  BY <1>10, <1>0 DEF RootWritten
<1>11. CASE UpdateBootloader
  BY <1>11 DEF UpdateBootloader
<1>12. CASE BackupArgs
  BY <1>12 DEF BackupArgs
<1>13. CASE UpdateKernelargs
  BY <1>13 DEF UpdateKernelargs
<1>14. CASE ApplyBootargs
  BY <1>14, OptionalValues DEF ApplyBootargs, mergedArgs, FileTypeOK
<1>15. CASE WriteConf
  BY <1>15 DEF WriteConf
<1>16. CASE ConfWritten
  BY <1>16 DEF ConfWritten
<1>17. CASE NameRoot
  BY <1>17 DEF NameRoot, target, Other, Part
<1>18. CASE Reboot
  BY <1>18 DEF Reboot
<1>19. CASE Rollback
  BY <1>19, RollbackTypes DEF Rollback
<1>20. CASE RestoreWdt
  BY <1>20 DEF RestoreWdt
<1>21. CASE StartService
  BY <1>21 DEF StartService
<1>22. CASE StartTimer
  BY <1>22 DEF StartTimer
<1>23. CASE GuardFails
  BY <1>23 DEF GuardFails
<1>24. CASE RunFails
  BY <1>24 DEF RunFails
<1>25. CASE RebootFails
  BY <1>25 DEF RebootFails
<1>26. CASE StartServiceFails
  BY <1>26 DEF StartServiceFails
<1>27. CASE StartHangs
  BY <1>27 DEF StartHangs
<1>28. CASE Kill
  BY <1>28 DEF Kill, Restart
<1>29. CASE UNCHANGED vars
  BY <1>29 DEF vars
<1>30. CASE StartTimerFails
  BY <1>30 DEF StartTimerFails
<1>31. CASE MarkBootloader
  BY <1>31 DEF MarkBootloader
<1> QED
  BY <1>1, <1>2, <1>3, <1>4, <1>5, <1>6, <1>7, <1>8, <1>9, <1>10, <1>11, <1>12, <1>13,
     <1>14, <1>15, <1>16, <1>17, <1>18, <1>19, <1>20, <1>21, <1>22, <1>23, <1>24, <1>25,
     <1>26, <1>27, <1>28, <1>29, <1>30, <1>31 DEF Next, Load, RunStep, RollbackTask, Fails

\* The argument files and the configuration keep their types.
LEMMA FileTypeOKStep ==
  ASSUME TypeOK, LoadedInv, RootInv, RunInv, [Next]_vars
  PROVE  FileTypeOK'
<1> USE DEF TypeOK, FileTypeOK, FromWritten
<1>0. pc \in FromWritten => loaded \in Image
  BY DEF RunInv, Running, ProcTypeOK
<1>1. CASE LoadPanics
  BY <1>1 DEF LoadPanics, Restart
<1>2. CASE LoadStart
  BY <1>2 DEF LoadStart
<1>3. CASE LoadEnd
  BY <1>3 DEF LoadEnd
<1>4. CASE LoadRestore
  BY <1>4 DEF LoadRestore
<1>5. CASE RunRejected
  BY <1>5 DEF RunRejected
<1>6. CASE RunStart
  BY <1>6 DEF RunStart
<1>7. CASE StopTimer
  BY <1>7 DEF StopTimer
<1>8. CASE StopService
  BY <1>8 DEF StopService
<1>9. CASE WriteRoot
  BY <1>9 DEF WriteRoot
<1>10. CASE RootWritten
  BY <1>10 DEF RootWritten
<1>11. CASE UpdateBootloader
  BY <1>11 DEF UpdateBootloader
<1>12. CASE BackupArgs
  BY <1>12, OptionalValues DEF BackupArgs
<1>13. CASE UpdateKernelargs
  BY <1>13, <1>0, Tokens DEF UpdateKernelargs
<1>14. CASE ApplyBootargs
  BY <1>14 DEF ApplyBootargs
<1>15. CASE WriteConf
  BY <1>15 DEF WriteConf
<1>16. CASE ConfWritten
  BY <1>16 DEF ConfWritten, ProcTypeOK
<1>17. CASE NameRoot
  BY <1>17 DEF NameRoot
<1>18. CASE Reboot
  BY <1>18 DEF Reboot
<1>19. CASE Rollback
  BY <1>19, RollbackTypes DEF Rollback
<1>20. CASE RestoreWdt
  BY <1>20 DEF RestoreWdt
<1>21. CASE StartService
  BY <1>21 DEF StartService
<1>22. CASE StartTimer
  BY <1>22 DEF StartTimer
<1>23. CASE GuardFails
  BY <1>23 DEF GuardFails
<1>24. CASE RunFails
  BY <1>24, <1>0, Tokens DEF RunFails
<1>25. CASE RebootFails
  BY <1>25 DEF RebootFails
<1>26. CASE StartServiceFails
  BY <1>26 DEF StartServiceFails
<1>27. CASE StartHangs
  BY <1>27 DEF StartHangs
<1>28. CASE Kill
  BY <1>28 DEF Kill, Restart
<1>29. CASE UNCHANGED vars
  BY <1>29 DEF vars
<1>30. CASE StartTimerFails
  BY <1>30 DEF StartTimerFails
<1>31. CASE MarkBootloader
  BY <1>31 DEF MarkBootloader
<1> QED
  BY <1>1, <1>2, <1>3, <1>4, <1>5, <1>6, <1>7, <1>8, <1>9, <1>10, <1>11, <1>12, <1>13,
     <1>14, <1>15, <1>16, <1>17, <1>18, <1>19, <1>20, <1>21, <1>22, <1>23, <1>24, <1>25,
     <1>26, <1>27, <1>28, <1>29, <1>30, <1>31 DEF Next, Load, RunStep, RollbackTask, Fails

\* The service, its run and its guards keep their types.
LEMMA ProcTypeOKStep ==
  ASSUME TypeOK, LoadedInv, RootInv, RunInv, [Next]_vars
  PROVE  ProcTypeOK'
<1> USE DEF TypeOK, ProcTypeOK, Guarded
<1>1. CASE LoadPanics
  BY <1>1 DEF LoadPanics, Restart
<1>2. CASE LoadStart
  BY <1>2 DEF LoadStart
<1>3. CASE LoadEnd
  <2>1. loaded' \in Image \cup {None}
    BY <1>3, LoadedFits DEF LoadEnd, Fit
  <2>2. loads \in 1..MaxLoads /\ saved \in Interval
    BY <1>3 DEF LoadEnd, SysTypeOK, RunInv
  <2> QED
    BY <1>3, <2>1, <2>2 DEF LoadEnd
<1>4. CASE LoadRestore
  BY <1>4 DEF LoadRestore
<1>5. CASE RunRejected
  BY <1>5 DEF RunRejected
<1>6. CASE RunStart
  BY <1>6 DEF RunStart
<1>7. CASE StopTimer
  BY <1>7 DEF StopTimer
<1>8. CASE StopService
  BY <1>8 DEF StopService
<1>9. CASE WriteRoot
  BY <1>9 DEF WriteRoot
<1>10. CASE RootWritten
  BY <1>10 DEF RootWritten
<1>11. CASE UpdateBootloader
  BY <1>11 DEF UpdateBootloader
<1>12. CASE BackupArgs
  BY <1>12 DEF BackupArgs
<1>13. CASE UpdateKernelargs
  BY <1>13 DEF UpdateKernelargs
<1>14. CASE ApplyBootargs
  BY <1>14 DEF ApplyBootargs
<1>15. CASE WriteConf
  BY <1>15 DEF WriteConf
<1>16. CASE ConfWritten
  BY <1>16 DEF ConfWritten
<1>17. CASE NameRoot
  BY <1>17 DEF NameRoot
<1>18. CASE Reboot
  BY <1>18 DEF Reboot
<1>19. CASE Rollback
  BY <1>19 DEF Rollback
<1>20. CASE RestoreWdt
  BY <1>20 DEF RestoreWdt
<1>21. CASE StartService
  BY <1>21 DEF StartService
<1>22. CASE StartTimer
  BY <1>22 DEF StartTimer
<1>23. CASE GuardFails
  BY <1>23 DEF GuardFails
<1>24. CASE RunFails
  BY <1>24 DEF RunFails
<1>25. CASE RebootFails
  BY <1>25 DEF RebootFails
<1>26. CASE StartServiceFails
  BY <1>26 DEF StartServiceFails
<1>27. CASE StartHangs
  BY <1>27 DEF StartHangs
<1>28. CASE Kill
  BY <1>28 DEF Kill, Restart
<1>29. CASE UNCHANGED vars
  BY <1>29 DEF vars
<1>30. CASE StartTimerFails
  BY <1>30 DEF StartTimerFails
<1>31. CASE MarkBootloader
  BY <1>31 DEF MarkBootloader
<1> QED
  BY <1>1, <1>2, <1>3, <1>4, <1>5, <1>6, <1>7, <1>8, <1>9, <1>10, <1>11, <1>12, <1>13,
     <1>14, <1>15, <1>16, <1>17, <1>18, <1>19, <1>20, <1>21, <1>22, <1>23, <1>24, <1>25,
     <1>26, <1>27, <1>28, <1>29, <1>30, <1>31 DEF Next, Load, RunStep, RollbackTask, Fails

\* The watchdog, the update agent's units and the counters keep their types.
LEMMA SysTypeOKStep ==
  ASSUME TypeOK, LoadedInv, RootInv, RunInv, [Next]_vars
  PROVE  SysTypeOK'
<1> USE BoundsAssumption DEF TypeOK, SysTypeOK, Interval, Fault
<1>1. CASE LoadPanics
  BY <1>1 DEF LoadPanics, Restart
<1>2. CASE LoadStart
  BY <1>2 DEF LoadStart
<1>3. CASE LoadEnd
  BY <1>3 DEF LoadEnd
<1>4. CASE LoadRestore
  BY <1>4 DEF LoadRestore, ProcTypeOK
<1>5. CASE RunRejected
  BY <1>5 DEF RunRejected
<1>6. CASE RunStart
  BY <1>6 DEF RunStart
<1>7. CASE StopTimer
  BY <1>7 DEF StopTimer
<1>8. CASE StopService
  BY <1>8 DEF StopService
<1>9. CASE WriteRoot
  BY <1>9 DEF WriteRoot
<1>10. CASE RootWritten
  BY <1>10 DEF RootWritten
<1>11. CASE UpdateBootloader
  BY <1>11 DEF UpdateBootloader
<1>12. CASE BackupArgs
  BY <1>12 DEF BackupArgs
<1>13. CASE UpdateKernelargs
  BY <1>13 DEF UpdateKernelargs
<1>14. CASE ApplyBootargs
  BY <1>14 DEF ApplyBootargs
<1>15. CASE WriteConf
  BY <1>15 DEF WriteConf
<1>16. CASE ConfWritten
  BY <1>16 DEF ConfWritten
<1>17. CASE NameRoot
  BY <1>17 DEF NameRoot
<1>18. CASE Reboot
  BY <1>18 DEF Reboot
<1>19. CASE Rollback
  <2>1. CASE guard.bootloader
    BY <1>19, <2>1 DEF Rollback
  <2>2. CASE ~guard.bootloader
    <3>1. UNCHANGED faults \/ (faults < MaxFaults /\ faults' = faults + 1)
      BY <1>19, <2>2 DEF Rollback
    <3> QED
      BY <1>19, <3>1 DEF Rollback
  <2> QED
    BY <2>1, <2>2
<1>20. CASE RestoreWdt
  BY <1>20 DEF RestoreWdt
<1>21. CASE StartService
  BY <1>21 DEF StartService
<1>22. CASE StartTimer
  BY <1>22 DEF StartTimer
<1>23. CASE GuardFails
  BY <1>23 DEF GuardFails
<1>24. CASE RunFails
  BY <1>24 DEF RunFails
<1>25. CASE RebootFails
  BY <1>25 DEF RebootFails
<1>26. CASE StartServiceFails
  BY <1>26 DEF StartServiceFails
<1>27. CASE StartHangs
  BY <1>27 DEF StartHangs
<1>28. CASE Kill
  BY <1>28 DEF Kill, Restart
<1>29. CASE UNCHANGED vars
  BY <1>29 DEF vars
<1>30. CASE StartTimerFails
  BY <1>30 DEF StartTimerFails
<1>31. CASE MarkBootloader
  BY <1>31 DEF MarkBootloader
<1> QED
  BY <1>1, <1>2, <1>3, <1>4, <1>5, <1>6, <1>7, <1>8, <1>9, <1>10, <1>11, <1>12, <1>13,
     <1>14, <1>15, <1>16, <1>17, <1>18, <1>19, <1>20, <1>21, <1>22, <1>23, <1>24, <1>25,
     <1>26, <1>27, <1>28, <1>29, <1>30, <1>31 DEF Next, Load, RunStep, RollbackTask, Fails

\* Every variable keeps its type.
LEMMA TypeOKStep ==
  ASSUME TypeOK, LoadedInv, RootInv, RunInv, [Next]_vars
  PROVE  TypeOK'
BY EnvTypeOKStep, FileTypeOKStep, ProcTypeOKStep, SysTypeOKStep DEF TypeOK

-----------------------------------------------------------------------------
(* The roots                                                               *)

\* What each step leaves alone: the roots, but for the two steps that write one,
\* and what the device boots, but for the step that names it.
LEMMA Untouched ==
  ASSUME [Next]_vars
  PROVE  /\ UNCHANGED <<booted, validateUpdate>>
         /\ WriteRoot \/ RootWritten \/ UNCHANGED root
         /\ NameRoot \/ UNCHANGED <<validatePart, bootpart>>
         /\ RunStart \/ UNCHANGED clean
<1> USE DEF DoRollback
<1>1. CASE Load
  BY <1>1 DEF Load, LoadPanics, LoadStart, LoadEnd, LoadRestore, Restart
<1>2. CASE RunRejected
  BY <1>2 DEF RunRejected
<1>3. CASE RunStart
  BY <1>3 DEF RunStart
<1>4. CASE RunStep
  BY <1>4 DEF RunStep, StopTimer, StopService, WriteRoot, RootWritten, UpdateBootloader,
       BackupArgs, UpdateKernelargs, ApplyBootargs, WriteConf, ConfWritten, MarkBootloader,
       NameRoot, Reboot
<1>5. CASE RollbackTask
  BY <1>5 DEF RollbackTask, Rollback, RestoreWdt, StartService, StartTimer
<1>6. CASE Fails
  BY <1>6 DEF Fails, GuardFails, RunFails, RebootFails, StartServiceFails, StartTimerFails, StartHangs
<1>7. CASE Kill
  BY <1>7 DEF Kill, Restart
<1>8. CASE UNCHANGED vars
  BY <1>8 DEF vars
<1> QED
  BY <1>1, <1>2, <1>3, <1>4, <1>5, <1>6, <1>7, <1>8 DEF Next

\* The loaded image and the position of the run.
LEMMA Positions ==
  ASSUME SysTypeOK, [Next]_vars
  PROVE  /\ pc' \in Running \cup {"reboot"} =>
              RunStart \/ (pc \in Running /\ UNCHANGED loaded) \/ UNCHANGED <<pc, loaded>>
         /\ pc' \in FromWritten =>
              RootWritten \/ (pc \in FromWritten /\ UNCHANGED <<root, loaded>>)
         /\ loaded' \in {loaded, None} \/ LoadEnd
         /\ pc' = "load" => loads' > 0 \/ (pc = "load" /\ UNCHANGED loads)
<1> USE BoundsAssumption DEF Running, FromWritten, SysTypeOK
<1>1. CASE Load
  <2>1. CASE LoadEnd
    <3>1. pc' = "idle"
      BY <2>1 DEF LoadEnd
    <3> QED
      BY <2>1, <3>1
  <2>2. CASE LoadStart
    <3>1. pc' = "load" /\ loaded' = None /\ loads' = loads + 1
      BY <2>2 DEF LoadStart
    <3>2. loads' > 0
      BY <3>1
    <3> QED
      BY <3>1, <3>2
  <2>3. CASE LoadRestore
    BY <2>3 DEF LoadRestore
  <2>4. CASE LoadPanics
    BY <2>4 DEF LoadPanics, Restart
  <2> QED
    BY <1>1, <2>1, <2>2, <2>3, <2>4 DEF Load
<1>2. CASE RunRejected
  BY <1>2 DEF RunRejected
<1>3. CASE RunStart
  BY <1>3 DEF RunStart
<1>4. CASE RunStep
  BY <1>4 DEF RunStep, StopTimer, StopService, WriteRoot, RootWritten, UpdateBootloader,
       BackupArgs, UpdateKernelargs, ApplyBootargs, WriteConf, ConfWritten, MarkBootloader,
       NameRoot, Reboot
<1>5. CASE RollbackTask
  BY <1>5 DEF RollbackTask, Rollback, RestoreWdt, StartService, StartTimer
<1>6. CASE Fails
  BY <1>6 DEF Fails, GuardFails, RunFails, RebootFails, StartServiceFails, StartTimerFails, StartHangs, Fault
<1>7. CASE Kill
  BY <1>7 DEF Kill, Restart
<1>8. CASE UNCHANGED vars
  BY <1>8 DEF vars
<1> QED
  BY <1>1, <1>2, <1>3, <1>4, <1>5, <1>6, <1>7, <1>8 DEF Next

\* An image that is loaded fits in every later state: the running root stays.
LEMMA LoadedInvStep ==
  ASSUME IInv, [Next]_vars
  PROVE  LoadedInv'
<1>1. booted' = booted /\ root'[booted] = root[booted]
  BY Untouched DEF IInv, TypeOK, EnvTypeOK, Part, WriteRoot, RootWritten, target, Other
<1>2. CASE LoadEnd
  <2>1. PICK archive \in Archives : loaded' = Loaded(archive, VersionOf(root[booted]))
    BY <1>2 DEF LoadEnd
  <2> QED
    BY <1>1, <2>1, LoadedFits DEF IInv, LoadedInv, Fit
<1>3. CASE loaded' \in {loaded, None}
  BY <1>1, <1>3 DEF IInv, LoadedInv, Fit
<1> QED
  BY <1>2, <1>3, Positions DEF IInv, TypeOK

\* No step writes the running root, and none completes an undescribed image.
LEMMA RootInvStep ==
  ASSUME IInv, [Next]_vars
  PROVE  RootInv'
<1> USE DEF IInv, RootInv, target, Other
<1>1. booted' = booted /\ booted \in Part /\ root \in [Part -> Image \cup {Torn}]
  BY Untouched DEF TypeOK, EnvTypeOK
<1>2. CASE WriteRoot
  BY <1>1, <1>2 DEF WriteRoot, Part
<1>3. CASE RootWritten
  <2>1. loaded \in Image \ Damaged
    BY <1>3 DEF RootWritten, RunInv, Running, LoadedInv, Fit
  <2> QED
    BY <1>1, <1>3, <2>1 DEF RootWritten, Part
<1>4. CASE UNCHANGED root
  BY <1>1, <1>4
<1> QED
  BY <1>2, <1>3, <1>4, Untouched

\* A run goes on from its own image and root only.
LEMMA RunInvStep ==
  ASSUME IInv, [Next]_vars
  PROVE  RunInv'
<1> USE DEF IInv, RunInv
<1>1. pc' = "load" => loads' > 0
  BY Positions DEF TypeOK
<1>2. pc' \in Running \cup {"reboot"} => loaded' # None
  BY Positions DEF TypeOK, RunStart, TakesCommand
<1>3. pc' \in FromWritten => root'[target'] = loaded'
  <2>1. booted' = booted /\ booted \in Part /\ root \in [Part -> Image \cup {Torn}]
    BY Untouched DEF TypeOK, EnvTypeOK
  <2>2. CASE RootWritten
    BY <2>1, <2>2 DEF RootWritten, target, Other, Part
  <2>3. CASE pc \in FromWritten /\ UNCHANGED <<root, loaded>>
    BY <2>1, <2>3 DEF target
  <2> QED
    BY <2>2, <2>3, Positions DEF TypeOK
<1> QED
  BY <1>1, <1>2, <1>3

\* The one step that starts a run looks whether the device is settled, and the
\* one that names the new root finds it complete.
LEMMA NamedInvStep ==
  ASSUME IInv, [Next]_vars
  PROVE  NamedInv'
<1> USE DEF IInv, NamedInv
<1>1. /\ booted' = booted /\ booted \in Part /\ root \in [Part -> Image \cup {Torn}]
      /\ validateUpdate' = validateUpdate /\ root'[booted] = root[booted]
      /\ {validatePart, bootpart} \subseteq Part \cup {None}
  BY Untouched DEF TypeOK, EnvTypeOK, WriteRoot, RootWritten, target, Other, Part
<1>2. Fit(root[booted])
  BY RunningFits
<1>3. CASE RunStart
  BY <1>1, <1>2, <1>3 DEF RunStart, bootsNext, Fit
<1>4. CASE WriteRoot \/ RootWritten
  <2>1. UNCHANGED <<clean, validatePart, bootpart>> /\ pc \in Running
    BY <1>4 DEF WriteRoot, RootWritten, Running
  <2> QED
    BY <1>1, <1>2, <2>1 DEF bootsNext, Fit
<1>5. CASE NameRoot
  <2>1. /\ pc = "name" /\ pc' = "reboot" /\ UNCHANGED <<clean, root>>
        /\ \/ bootpart' = target /\ UNCHANGED validatePart
           \/ validatePart' = target /\ UNCHANGED bootpart
    BY <1>5 DEF NameRoot
  <2>2. Fit(root[target])
    BY <2>1 DEF RunInv, Running, FromWritten, LoadedInv
  <2>3. clean => validatePart = None /\ bootpart = booted
    BY <2>1 DEF Running, FromWritten
  <2>4. pc' \notin Running
    BY <2>1 DEF Running, FromWritten
  <2>5. ASSUME clean'
        PROVE  bootsNext' \in {booted, target}
    BY <1>1, <2>1, <2>3, <2>5 DEF bootsNext
  <2> QED
    BY <1>1, <1>2, <2>1, <2>2, <2>4, <2>5 DEF Fit
<1>6. CASE ~(RunStart \/ WriteRoot \/ RootWritten \/ NameRoot)
  <2>1. UNCHANGED <<clean, root, booted, validatePart, bootpart, validateUpdate>>
    BY <1>6, Untouched
  <2>2. pc' \in Running => pc \in Running
    BY <1>6, Positions DEF TypeOK
  <2> QED
    BY <2>1, <2>2 DEF bootsNext, Fit
<1> QED
  BY <1>3, <1>4, <1>5, <1>6

-----------------------------------------------------------------------------
(* What a run leaves                                                       *)

\* A rollback, a reboot under way and a command exclude each other.
LEMMA IdleInvStep ==
  ASSUME TInv, [Next]_vars
  PROVE  IdleInv'
<1> USE BoundsAssumption DEF TInv, IInv, TypeOK, SysTypeOK, IdleInv
<1>1. validateUpdate' = validateUpdate
  BY Untouched
<1>2. CASE Load \/ RunRejected \/ RunStart
  BY <1>1, <1>2 DEF Load, LoadPanics, LoadStart, LoadEnd, LoadRestore, Restart,
       RunRejected, RunStart, TakesCommand
<1>3. CASE RunStep
  BY <1>1, <1>3 DEF RunStep, StopTimer, StopService, WriteRoot, RootWritten,
       UpdateBootloader, BackupArgs, UpdateKernelargs, ApplyBootargs, WriteConf,
       ConfWritten, MarkBootloader, NameRoot, Reboot
<1>4. CASE RollbackTask
  <2>1. CASE Rollback
    <3>1. rollback = "files" /\ rollback' = "wdt" /\ UNCHANGED <<pc, waiting, going>>
      BY <2>1 DEF Rollback
    <3>2. faults' > 0
      <4>1. CASE guard.bootloader
        BY <2>1, <4>1 DEF Rollback
      <4>2. CASE ~guard.bootloader
        <5>1. UNCHANGED faults \/ (faults < MaxFaults /\ faults' = faults + 1)
          BY <2>1, <4>2 DEF Rollback
        <5> QED
          BY <3>1, <5>1
      <4> QED
        BY <4>1, <4>2
    <3> QED
      BY <1>1, <3>1, <3>2
  <2>2. CASE RestoreWdt \/ StartService \/ StartTimer
    BY <1>1, <2>2 DEF RestoreWdt, StartService, StartTimer
  <2> QED
    BY <1>4, <2>1, <2>2 DEF RollbackTask
<1>5. CASE Fails
  BY <1>1, <1>5 DEF Fails, GuardFails, RunFails, RebootFails, StartServiceFails,
       StartTimerFails, StartHangs, Fault, Guarded
<1>6. CASE Kill
  BY <1>1, <1>6 DEF Kill, Restart
<1>7. CASE UNCHANGED vars
  BY <1>1, <1>7 DEF vars
<1> QED
  BY <1>2, <1>3, <1>4, <1>5, <1>6, <1>7 DEF Next

\* A run that found the device settled, step by step.
LEMMA TrialInvStep ==
  ASSUME TInv, [Next]_vars
  PROVE  TrialInv'
<1> USE DEF TInv, IInv, TrialInv, BeforeApply, BeforeBootloader, FromApply
<1>1. CASE Load \/ RunRejected
  <2>1. CASE LoadRestore
    BY <2>1 DEF LoadRestore, ArgsApplied, mergedArgs, target
  <2>2. CASE ~LoadRestore
    <3>1. ~going /\ ~going' /\ pc' \in {"idle", "load"}
      BY <1>1, <2>2 DEF Load, LoadPanics, LoadStart, LoadEnd, Restart, RunRejected,
           TakesCommand, IdleInv
    <3> QED
      BY <3>1
  <2> QED
    BY <2>1, <2>2
<1>2. CASE RunStart
  BY <1>2 DEF RunStart, TakesCommand, IdleInv
<1>3. CASE RunStep
  <2>1. ~going /\ (going' => pc = "reboot")
    BY <1>3 DEF RunStep, StopTimer, StopService, WriteRoot, RootWritten, UpdateBootloader,
         BackupArgs, UpdateKernelargs, ApplyBootargs, WriteConf, ConfWritten, MarkBootloader,
         NameRoot, Reboot, IdleInv
  <2>2. CASE StopTimer \/ StopService \/ WriteRoot \/ RootWritten \/ UpdateBootloader
             \/ BackupArgs \/ UpdateKernelargs
    BY <2>1, <2>2 DEF StopTimer, StopService, WriteRoot, RootWritten, UpdateBootloader,
         BackupArgs, UpdateKernelargs
  <2>3. CASE ApplyBootargs
    BY <2>1, <2>3 DEF ApplyBootargs, ArgsApplied, mergedArgs
  <2>4. CASE WriteConf \/ ConfWritten
    BY <2>1, <2>4 DEF WriteConf, ConfWritten, ArgsApplied, mergedArgs
  <2>7. CASE MarkBootloader
    <3>1. /\ pc = "mark" /\ pc' = "name" /\ ~going /\ ~going' /\ bootloaderUpdated'
          /\ UNCHANGED <<clean, conf, request, guard, extraArgs, validateArgs, argsFile,
                          custom>>
      BY <2>1, <2>7 DEF MarkBootloader
    <3>2. ArgsApplied' = ArgsApplied
      BY <3>1 DEF ArgsApplied, mergedArgs
    <3> QED
      BY <3>1, <3>2
  <2>5. CASE NameRoot
    <3>1. /\ pc = "name" /\ pc' = "reboot"
          /\ UNCHANGED <<clean, root, booted, loaded, guard, conf, request, extraArgs,
                          validateArgs, bootloaderUpdated, argsFile, custom>>
      BY <2>5 DEF NameRoot
    <3>2. root[target] = loaded
      BY <3>1 DEF RunInv, FromWritten
    <3>3. clean => validatePart = None /\ bootpart = booted
      BY <3>1 DEF NamedInv, Running, FromWritten
    <3>4. IF guard.bootloader THEN bootpart' = target /\ UNCHANGED validatePart
          ELSE validatePart' = target /\ UNCHANGED bootpart
      BY <2>5 DEF NameRoot
    <3>5. target' = target /\ ArgsApplied' = ArgsApplied
      BY <3>1 DEF target, ArgsApplied, mergedArgs
    <3> QED
      BY <3>1, <3>2, <3>3, <3>4, <3>5
  <2>6. CASE Reboot
    BY <2>6 DEF Reboot, ArgsApplied, mergedArgs, target
  <2> QED
    BY <1>3, <2>2, <2>3, <2>4, <2>5, <2>6, <2>7 DEF RunStep
<1>4. CASE RollbackTask
  <2>1. ~going /\ ~going' /\ pc = "idle" /\ pc' = "idle"
    BY <1>4 DEF RollbackTask, Rollback, RestoreWdt, StartService, StartTimer, IdleInv
  <2> QED
    BY <2>1
<1>5. CASE Fails
  <2>1. CASE GuardFails \/ RunFails \/ RebootFails
    <3>1. ~going /\ ~going' /\ pc' = "idle"
      BY <2>1 DEF GuardFails, RunFails, RebootFails, IdleInv, Guarded
    <3> QED
      BY <3>1
  <2>2. CASE StartServiceFails \/ StartTimerFails \/ StartHangs
    <3>1. ~going /\ ~going' /\ pc = "idle" /\ pc' = "idle"
      BY <2>2 DEF StartServiceFails, StartTimerFails, StartHangs, IdleInv
    <3> QED
      BY <3>1
  <2> QED
    BY <1>5, <2>1, <2>2 DEF Fails
<1>6. CASE Kill
  BY <1>6 DEF Kill, Restart
<1>7. CASE UNCHANGED vars
  BY <1>7 DEF vars, ArgsApplied, mergedArgs, target
<1> QED
  BY <1>1, <1>2, <1>3, <1>4, <1>5, <1>6, <1>7 DEF Next

\* What can be undone stays so until the rollback has undone it.
LEMMA UndoInvStep ==
  ASSUME TInv, [Next]_vars
  PROVE  UndoInv'
<1> USE DEF TInv, IInv, UndoInv, BeforeBootloader, Running, FromWritten
<1>1. CASE Load \/ RunRejected
  BY <1>1 DEF Load, LoadPanics, LoadStart, LoadEnd, LoadRestore, Restart, RunRejected,
       TakesCommand, IdleInv, Undoable, RollbackRestores, mergedArgs
<1>2. CASE RunStart
  <2>1. /\ pc' = "stop_timer" /\ rollback' = "none" /\ before' = <<extraArgs, argsFile>>
        /\ guard' = [bootloader |-> FALSE, backup |-> FALSE]
        /\ UNCHANGED <<extraArgs, argsFile>>
    BY <1>2 DEF RunStart, TakesCommand, IdleInv
  <2>2. Undoable'
    BY <2>1 DEF Undoable
  <2> QED
    BY <2>1, <2>2 DEF RollbackRestores
<1>3. CASE RunStep
  <2>1. rollback = "none" /\ rollback' = "none"
    BY <1>3 DEF RunStep, StopTimer, StopService, WriteRoot, RootWritten, UpdateBootloader,
         BackupArgs, UpdateKernelargs, ApplyBootargs, WriteConf, ConfWritten, MarkBootloader,
         NameRoot, Reboot, IdleInv
  <2>2. CASE StopTimer \/ StopService \/ WriteRoot \/ RootWritten
    BY <2>1, <2>2 DEF StopTimer, StopService, WriteRoot, RootWritten, Undoable,
         RollbackRestores
  <2>3. CASE UpdateBootloader
    <3>1. PICK updated \in BOOLEAN : guard' = [guard EXCEPT !.bootloader = updated]
      BY <2>3 DEF UpdateBootloader
    <3>2. guard'.backup = guard.backup
      BY <3>1 DEF TypeOK, ProcTypeOK
    <3> QED
      BY <2>1, <2>3, <3>2 DEF UpdateBootloader, Undoable, RollbackRestores
  <2>4. CASE BackupArgs
    <3>1. guard'.backup /\ guard'.bootloader = guard.bootloader
      BY <2>4 DEF BackupArgs, TypeOK, ProcTypeOK
    <3> QED
      BY <2>1, <2>4, <3>1 DEF BackupArgs, Undoable, RollbackRestores
  <2>5. CASE UpdateKernelargs \/ ApplyBootargs \/ WriteConf \/ ConfWritten
             \/ MarkBootloader
    BY <2>1, <2>5 DEF UpdateKernelargs, ApplyBootargs, WriteConf, ConfWritten,
         MarkBootloader, Undoable, RollbackRestores
  <2>6. CASE NameRoot \/ Reboot
    BY <2>1, <2>6 DEF NameRoot, Reboot, RollbackRestores
  <2> QED
    BY <1>3, <2>2, <2>3, <2>4, <2>5, <2>6 DEF RunStep
<1>4. CASE RollbackTask
  <2>1. pc = "idle" /\ pc' = "idle" /\ UNCHANGED <<clean, validatePart, guard, before>>
    BY <1>4 DEF RollbackTask, Rollback, RestoreWdt, StartService, StartTimer, IdleInv
  <2>2. CASE Rollback
    <3>1. rollback = "files" /\ rollback' = "wdt" /\ custom' = custom
      BY <2>2 DEF Rollback
    <3>2. ASSUME clean, ~guard.bootloader, faults' = 1
          PROVE  /\ validateArgs' = {} /\ conf' = "absent" /\ argsFile' = before[2]
                 /\ extraArgs' = IF guard.backup THEN argsFile' \cup custom ELSE before[1]
      <4>1. DoRollback(RollbackStep)
        <5>1. DoRollback(RollbackStep) \/ faults' = faults + 1
          BY <2>2, <3>2 DEF Rollback
        <5>2. faults > 0 /\ faults \in Nat
          BY <3>1, BoundsAssumption DEF IdleInv, TypeOK, SysTypeOK
        <5> QED
          BY <3>2, <5>1, <5>2
      <4> QED
        BY <3>1, <3>2, <4>1 DEF DoRollback, RollbackStep, Undoable
    <3> QED
      BY <2>1, <3>1, <3>2 DEF RollbackRestores, mergedArgs
  <2>3. CASE RestoreWdt \/ StartService \/ StartTimer
    BY <2>1, <2>3 DEF RestoreWdt, StartService, StartTimer, RollbackRestores, mergedArgs
  <2> QED
    BY <1>4, <2>2, <2>3 DEF RollbackTask
<1>5. CASE Fails
  <2>1. CASE GuardFails \/ RebootFails
    BY <2>1 DEF GuardFails, RebootFails, IdleInv, RollbackRestores, Undoable
  <2>2. CASE RunFails
    <3>1. /\ pc \in Guarded /\ pc' = "idle" /\ rollback' = "files"
          /\ UNCHANGED <<clean, validatePart, guard, before, backup, extraArgs>>
          /\ argsFile' = argsFile \/ pc = "kernelargs"
      BY <2>2 DEF RunFails
    <3>2. clean => validatePart = None
      BY <3>1 DEF NamedInv, Guarded
    <3>3. clean => Undoable'
      BY <3>1 DEF Undoable, Guarded
    <3> QED
      BY <3>1, <3>2, <3>3 DEF RollbackRestores
  <2>3. CASE StartServiceFails \/ StartTimerFails \/ StartHangs
    <3>1. faults > 0 /\ faults' = faults + 1 /\ pc = "idle"
      BY <2>3 DEF StartServiceFails, StartTimerFails, StartHangs, Fault, IdleInv
    <3>2. faults' # 1
      BY <3>1 DEF TypeOK, SysTypeOK
    <3> QED
      BY <2>3, <3>1, <3>2 DEF StartServiceFails, StartTimerFails, StartHangs, RollbackRestores
  <2> QED
    BY <1>5, <2>1, <2>2, <2>3 DEF Fails
<1>6. CASE Kill
  BY <1>6 DEF Kill, Restart, RollbackRestores
<1>7. CASE UNCHANGED vars
  BY <1>7 DEF vars, Undoable, RollbackRestores, mergedArgs
<1> QED
  BY <1>1, <1>2, <1>3, <1>4, <1>5, <1>6, <1>7 DEF Next

-----------------------------------------------------------------------------
(* Theorems                                                                *)

\* The initial states satisfy the invariant.
LEMMA IInvInit == ASSUME Init PROVE IInv
<1>1. TypeOK
  BY TypeOKInit
<1>2. RootInv
  BY ImageAssumption DEF Init, RootInv, target, Other, Part
<1>3. LoadedInv /\ RunInv
  BY DEF Init, LoadedInv, RunInv, Running, FromWritten
<1>4. NamedInv
  BY <1>2, RunningFits DEF Init, NamedInv, Running, FromWritten, bootsNext
<1> QED
  BY <1>1, <1>2, <1>3, <1>4 DEF IInv

\* The inductive invariant: what is loaded fits, the running root is whole, a
\* run is where it is because of what it has written, and names what fits.
THEOREM Invariance == Spec => []IInv
<1>1. IInv /\ [Next]_vars => IInv'
  BY TypeOKStep, LoadedInvStep, RootInvStep, RunInvStep, NamedInvStep DEF IInv
<1> QED
  BY IInvInit, <1>1, PTL DEF Spec

\* Every variable keeps its type.
THEOREM TypeCorrect == Spec => []TypeOK
<1>1. IInv => TypeOK
  BY DEF IInv
<1> QED
  BY Invariance, <1>1, PTL

\* An update of a settled device may lose its power or its process at any step:
\* the device boots a complete image.
THEOREM PowerCutIsSafe == Spec => []PowerCutSafe
<1>1. IInv => PowerCutSafe
  BY ImageAssumption DEF IInv, NamedInv, Fit, PowerCutSafe
<1> QED
  BY Invariance, <1>1, PTL

\* Nothing that load accepts and run writes leads a settled device to an older
\* system than the running one.
THEOREM NeverDowngraded == Spec => []NoDowngrade
<1>1. IInv => NoDowngrade
  BY DEF IInv, NamedInv, Fit, NoDowngrade
<1> QED
  BY Invariance, <1>1, PTL

\* No root ever holds an image that no manifest describes.
THEOREM DescribedOnly == Spec => []OnlyDescribedFlashed
<1>1. IInv => OnlyDescribedFlashed
  <2>1. ASSUME IInv, NEW part \in Part
        PROVE  root[part] \notin Damaged
    <3>1. part \in {booted, target}
      BY <2>1 DEF IInv, TypeOK, EnvTypeOK, target, Other, Part
    <3> QED
      BY <2>1, <3>1, ImageAssumption DEF IInv, RootInv
  <2> QED
    BY <2>1 DEF OnlyDescribedFlashed
<1> QED
  BY Invariance, <1>1, PTL

\* The inductive invariant of a whole run and its rollback.
THEOREM TrialInvariance == Spec => []TInv
<1>1. Init => TInv
  <2>1. ASSUME Init PROVE IdleInv /\ TrialInv /\ UndoInv
    BY <2>1 DEF Init, IdleInv, TrialInv, UndoInv, RollbackRestores, BeforeApply,
         BeforeBootloader, FromApply, Running, FromWritten
  <2> QED
    BY <2>1, IInvInit DEF TInv
<1>2. TInv /\ [Next]_vars => TInv'
  <2>1. ASSUME TInv, [Next]_vars PROVE IInv'
    BY <2>1, TypeOKStep, LoadedInvStep, RootInvStep, RunInvStep, NamedInvStep DEF TInv, IInv
  <2> QED
    BY <2>1, IdleInvStep, TrialInvStep, UndoInvStep DEF TInv
<1> QED
  BY <1>1, <1>2, PTL DEF Spec

\* When a run has named its root, the device is as UpdateValidation expects it.
THEOREM TrialEstablished == Spec => []EstablishesTrial
<1>1. TInv => EstablishesTrial
  <2>1. ASSUME ArgsApplied, ~guard.bootloader
        PROVE  (IF validateArgs = {} THEN extraArgs ELSE UNION validateArgs) = mergedArgs
    BY <2>1 DEF ArgsApplied
  <2> QED
    BY <2>1 DEF TInv, IdleInv, TrialInv, FromApply, ArgsApplied, EstablishesTrial
<1> QED
  BY TrialInvariance, <1>1, PTL

\* A rollback without an error of its own leaves nothing of its run.
THEOREM RollbackIsComplete == Spec => []RollbackRestores
<1>1. TInv => RollbackRestores
  BY DEF TInv, UndoInv
<1> QED
  BY TrialInvariance, <1>1, PTL

=============================================================================
