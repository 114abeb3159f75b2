------------------------ MODULE UpdateHandover_proofs ------------------------
(***************************************************************************)
(* The state a run leaves for its trial is one UpdateValidation starts     *)
(* from, for every set of images and arguments.                            *)
(***************************************************************************)
EXTENDS UpdateHandover, FirmwareUpdate_proofs

\* Arguments that are up for validation are not those in place: none are put up
\* only where there are some.
ArgsDiffer ==
  \/ validateArgs = {}
  \/ \E args \in SUBSET Token : validateArgs = {args} /\ args # extraArgs

\* A trial that a settled device was given, from the arguments on.
HandoverInv ==
  clean =>
    /\ pc \in FromApply => ArgsDiffer \/ guard.bootloader
    /\ validatePart # None =>
         bootpart = booted /\ validatePart = target /\ ArgsDiffer
         /\ conf \in {"local", "remote"}

-----------------------------------------------------------------------------
\* What every proof below unfolds.
USE DEF envVars, fileVars, cmdVars, aduVars, runHistory, counters

\* No step takes back what a settled device was given, but for the next run.
LEMMA HandoverInvStep ==
  ASSUME TInv, HandoverInv, [Next]_vars
  PROVE  HandoverInv'
<1> USE DEF TInv, IInv, HandoverInv, FromApply, UndoInv
<1>1. /\ booted' = booted /\ booted \in Part /\ validatePart \in Part \cup {None}
      /\ bootpart \in Part
  BY Untouched DEF TypeOK, EnvTypeOK
<1>2. clean /\ pc \in Running => validatePart = None /\ bootpart = booted
  BY DEF NamedInv
<1>3. CASE Load \/ RunRejected
  BY <1>3 DEF Load, LoadPanics, LoadStart, LoadEnd, LoadRestore, Restart, RunRejected,
       ArgsDiffer, target
<1>4. CASE RunStart
  BY <1>4 DEF RunStart
<1>5. CASE RunStep
  <2>1. CASE ~(ApplyBootargs \/ NameRoot \/ WriteConf \/ ConfWritten \/ MarkBootloader
               \/ Reboot)
    <3>1. /\ pc \in Running /\ pc' \notin FromApply
          /\ UNCHANGED <<clean, validatePart>>
      BY <1>5, <2>1 DEF RunStep, StopTimer, StopService, WriteRoot, RootWritten,
           UpdateBootloader, BackupArgs, UpdateKernelargs, Running, FromWritten
    <3> QED
      BY <1>2, <3>1
  <2>2. CASE ApplyBootargs
    <3>1. pc \in Running /\ UNCHANGED <<clean, validatePart, guard>>
      BY <2>2 DEF ApplyBootargs, Running, FromWritten
    <3>2. clean /\ ~guard.bootloader => ArgsDiffer'
      <4>1. clean => validateArgs = {}
        BY <2>2 DEF ApplyBootargs, TrialInv, BeforeApply
      <4>2. mergedArgs \in SUBSET Token
        BY DEF TypeOK, FileTypeOK, mergedArgs
      <4> QED
        BY <2>2, <4>1, <4>2 DEF ApplyBootargs, ArgsDiffer
    <3> QED
      BY <1>2, <3>1, <3>2
  <2>3. CASE WriteConf \/ ConfWritten \/ MarkBootloader
    <3>1. /\ pc \in Running /\ pc \in FromApply
          /\ UNCHANGED <<clean, validatePart, guard, extraArgs, validateArgs>>
      BY <2>3 DEF WriteConf, ConfWritten, MarkBootloader, Running, FromWritten
    <3> QED
      BY <1>2, <3>1 DEF ArgsDiffer
  <2>4. CASE NameRoot
    <3>1. /\ pc = "name"
          /\ UNCHANGED <<clean, guard, conf, request, extraArgs, validateArgs>>
          /\ IF guard.bootloader THEN UNCHANGED validatePart
             ELSE validatePart' = target /\ UNCHANGED bootpart
      BY <2>4 DEF NameRoot
    <3>2. clean => conf \in {"local", "remote"} /\ validatePart = None /\ bootpart = booted
      BY <1>2, <3>1 DEF Running, FromWritten, TrialInv, TypeOK, ProcTypeOK
    <3>3. target' = target /\ (clean => ArgsDiffer' \/ guard'.bootloader)
      BY <1>1, <3>1 DEF target, ArgsDiffer
    <3> QED
      BY <1>1, <3>1, <3>2, <3>3
  <2>5. CASE Reboot
    BY <2>5 DEF Reboot, ArgsDiffer, target
  <2> QED
    BY <1>5, <2>1, <2>2, <2>3, <2>4, <2>5
<1>6. CASE RollbackTask
  <2>1. rollback # "none" /\ pc = "idle" /\ pc' = "idle" /\ UNCHANGED <<clean, validatePart>>
    BY <1>6 DEF RollbackTask, Rollback, RestoreWdt, StartService, StartTimer, IdleInv
  <2> QED
    BY <2>1
<1>7. CASE Fails
  <2>1. CASE RunFails
    <3>1. pc \in Running /\ pc' = "idle" /\ UNCHANGED <<clean, validatePart>>
      BY <2>1 DEF RunFails, Guarded, Running, FromWritten
    <3> QED
      BY <1>2, <3>1
  <2>2. CASE GuardFails \/ RebootFails \/ StartServiceFails \/ StartTimerFails \/ StartHangs
    BY <2>2 DEF GuardFails, RebootFails, StartServiceFails, StartTimerFails, StartHangs, Fault,
         ArgsDiffer, target
  <2> QED
    BY <1>7, <2>1, <2>2 DEF Fails
<1>8. CASE Kill
  BY <1>8 DEF Kill, Restart, ArgsDiffer, target
<1>9. CASE UNCHANGED vars
  BY <1>9 DEF vars, ArgsDiffer, target
<1> QED
  BY <1>3, <1>4, <1>5, <1>6, <1>7, <1>8, <1>9 DEF Next

\* Every trial a settled device is given starts in a state that UpdateValidation
\* starts from.
THEOREM HandoverHolds == Spec => []HandsOver
<1>1. Init => HandoverInv
  BY DEF Init, HandoverInv, FromApply
<1>2. TInv /\ TInv' /\ HandoverInv /\ [Next]_vars => HandoverInv'
  BY HandoverInvStep
<1>3. TInv /\ HandoverInv => HandsOver
  <2>1. ASSUME TInv, HandoverInv, clean, validatePart # None
        PROVE  Validation!Init
    <3>1. /\ bootpart = booted /\ booted \in Part /\ validatePart \in Part \ {booted}
          /\ ~validateUpdate /\ conf \in {"local", "remote"}
      BY <2>1 DEF TInv, IInv, TypeOK, EnvTypeOK, IdleInv, HandoverInv, target, Other, Part
    <3>2. /\ extraArgsSeen \in {"unset", "old"}
          /\ validateArgsSeen \in {"unset", "new"}
                \cup (IF extraArgsSeen = "old" THEN {"noargs"} ELSE {})
      BY <2>1 DEF HandoverInv, ArgsDiffer, extraArgsSeen, validateArgsSeen
    <3>3. validateUpdate = FALSE
      BY <3>1, <2>1 DEF TInv, IInv, TypeOK, EnvTypeOK
    <3> QED
      BY <3>1, <3>2, <3>3 DEF Validation!Init, Validation!Part, Part
  <2> QED
    BY <2>1 DEF HandsOver
<1> QED
  BY TrialInvariance, <1>1, <1>2, <1>3, PTL DEF Spec

=============================================================================
