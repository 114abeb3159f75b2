----------------------- MODULE UpdateValidation_proofs -----------------------
(***************************************************************************)
(* Proofs about UpdateValidation, for every restart threshold, start limit *)
(* and number of faults: type correctness, the two safety invariants, and  *)
(* that the validation implements UpdateTrial.                             *)
(***************************************************************************)
EXTENDS UpdateValidation, TLAPS

\* This boot is a trial that is not concluded yet.
InTrial == barrier # "absent" \/ validateFile

\* The positions of the task, from the one a fact holds at onwards.
FromConclude == {"remove_conf", "set_status", "publish"}
FromNoPart   == FromConclude \cup {"remove_barrier"}
FromNoUpdate == FromNoPart \cup {"unset_part"}
FromArgs     == FromNoUpdate \cup {"unset_args", "unset_update"}
FromBootpart == FromArgs \cup {"finalize_args"}
FromFile     == FromBootpart \cup {"start_adu", "set_bootpart"}
FromRunning  == {"remove_file", "start_adu", "set_bootpart"}
FromCancel   == FromRunning \cup {"await_running", "await_signal"}
BeforeConclude == (FromCancel \cup FromBootpart \cup {"await_cancel"}) \ FromConclude

ArgsCommitted == extraArgs = bootedArgs \/ argsSkipped

\* The boot environment during and after a trial.
EnvInv ==
  /\ validatePart = None => ~validateUpdate
  /\ InTrial =>
       /\ validatePart \in {booted, None}
       /\ ArgsOf(validateArgs, extraArgs) = bootedArgs
       /\ ~validateUpdate => bootpart = booted /\ ArgsCommitted
       /\ validatePart # None \/ ~validateUpdate

\* What finalize has done when the task is at pc.
TaskInv ==
  /\ svc = "writing" => barrier = "torn"
  /\ pc # "idle" => svc = "up"
  /\ pc \in BeforeConclude => barrier # "absent"
  /\ pc \in FromFile => ~validateFile
  /\ pc \in FromBootpart => bootpart = booted
  /\ pc = "unset_args" => extraArgs = bootedArgs
  /\ pc \in FromArgs => ArgsCommitted
  /\ pc \in FromNoUpdate => ~validateUpdate
  /\ pc \in FromNoPart => validatePart = None
  /\ pc \in FromConclude => barrier = "absent"

\* What the process has seen when the task is at pc.
EvidenceInv ==
  /\ cancel # "none" => svc = "up"
  /\ cancel = "sent" \/ pc \in FromCancel => localUpdate \/ "auth" \in evidence
  /\ pc \in FromRunning => "running" \in evidence
  /\ pc = "set_bootpart" => localUpdate \/ "adu" \in evidence

\* The published status, and the position it leaves the task at.
StatusInv ==
  /\ status = "Succeeded" => svc = "up" /\ pc \in {"publish", "done", "failed", "delay"}
  /\ SucceededIsDurable

IInv == TypeOK /\ EnvInv /\ TaskInv /\ EvidenceInv /\ StatusInv

-----------------------------------------------------------------------------
\* What every proof below unfolds.
USE DEF envVars, bootVars, barrierVars, fileVars, procVars, sysVars, history

\* Every step keeps every variable in its type.
LEMMA TypeOKStep ==
  ASSUME TypeOK, [Next]_vars
  PROVE  TypeOK'
<1> USE BoundsAssumption DEF TypeOK, EnvTypeOK, FileTypeOK, ProcTypeOK, SysTypeOK,
         Part, None, TaskPc, Awaiting, EnvSteps, ArgsOf
<1>1. CASE Boot
  <2>1. EnvTypeOK'
    BY <1>1 DEF Boot, PowerCycle, BootFresh, BootAfterFailure, BootNormal
  <2>2. FileTypeOK'
    BY <1>1 DEF Boot, PowerCycle, BootFresh, BootAfterFailure, BootNormal
  <2>3. ProcTypeOK'
    BY <1>1 DEF Boot, PowerCycle, BootFresh, BootAfterFailure, BootNormal
  <2>4. SysTypeOK'
    BY <1>1 DEF Boot, PowerCycle, BootFresh, BootAfterFailure, BootNormal
  <2> QED
    BY <2>1, <2>2, <2>3, <2>4 DEF TypeOK
<1>2. CASE PowerLoss
  <2>1. EnvTypeOK'
    BY <1>2 DEF PowerLoss, PowerCycle, BootFresh, BootAfterFailure, BootNormal, Fault
  <2>2. FileTypeOK'
    BY <1>2 DEF PowerLoss, PowerCycle, BootFresh, BootAfterFailure, BootNormal, Fault
  <2>3. ProcTypeOK'
    BY <1>2 DEF PowerLoss, PowerCycle, BootFresh, BootAfterFailure, BootNormal, Fault
  <2>4. SysTypeOK'
    <3>1. faults' \in 0..MaxFaults
      BY <1>2 DEF PowerLoss, Fault
    <3> QED
      BY <1>2, <3>1 DEF PowerLoss, PowerCycle, BootFresh, BootAfterFailure, BootNormal
  <2> QED
    BY <2>1, <2>2, <2>3, <2>4 DEF TypeOK
<1>3. CASE StartRefused
  BY <1>3 DEF StartRefused
<1>4. CASE StartIdle
  BY <1>4 DEF StartIdle, Begins, CanStart
<1>5. CASE StartTrial
  <2>1. EnvTypeOK'
    BY <1>5 DEF StartTrial, Begins, CanStart
  <2>2. FileTypeOK'
    BY <1>5 DEF StartTrial, Begins, CanStart
  <2>3. ProcTypeOK'
    BY <1>5 DEF StartTrial, Begins, CanStart
  <2>4. SysTypeOK'
    BY <1>5 DEF StartTrial, Begins, CanStart
  <2> QED
    BY <2>1, <2>2, <2>3, <2>4 DEF TypeOK
<1>6. CASE ResumeTrial
  BY <1>6 DEF ResumeTrial, Begins, CanStart
<1>7. CASE StartUnreadable
  <2>1. EnvTypeOK'
    BY <1>7 DEF StartUnreadable, Begins, CanStart, End
  <2>2. FileTypeOK'
    BY <1>7 DEF StartUnreadable, Begins, CanStart, End
  <2>3. ProcTypeOK'
    <3>1. starts' \in Nat
      BY <1>7 DEF StartUnreadable
    <3>2. evidence' = {} /\ localUpdate' = FALSE /\ svc' = "down" /\ status' = "none"
         /\ cancel' = "none" /\ pc' = "idle"
      BY <1>7 DEF StartUnreadable, End
    <3> QED
      BY <3>1, <3>2
  <2>4. SysTypeOK'
    BY <1>7 DEF StartUnreadable, Begins, CanStart, End
  <2> QED
    BY <2>1, <2>2, <2>3, <2>4 DEF TypeOK
<1>8. CASE BarrierWritten
  <2>1. EnvTypeOK'
    BY <1>8 DEF BarrierWritten, End
  <2>2. FileTypeOK'
    BY <1>8 DEF BarrierWritten, End
  <2>3. ProcTypeOK'
    BY <1>8 DEF BarrierWritten, End
  <2>4. SysTypeOK'
    BY <1>8 DEF BarrierWritten, End
  <2> QED
    BY <2>1, <2>2, <2>3, <2>4 DEF TypeOK
<1>9. ASSUME NEW ok \in BOOLEAN, Exit(ok) PROVE TypeOK'
  <2>1. EnvTypeOK'
    BY <1>9 DEF Exit, End, Fault
  <2>2. FileTypeOK'
    BY <1>9 DEF Exit, End, Fault
  <2>3. ProcTypeOK'
    BY <1>9 DEF Exit, End, Fault
  <2>4. SysTypeOK'
    BY <1>9 DEF Exit, End, Fault
  <2> QED
    BY <2>1, <2>2, <2>3, <2>4 DEF TypeOK
<1>10. ASSUME NEW authenticated \in BOOLEAN, SetAuthenticated(authenticated) PROVE
         TypeOK'
  BY <1>10 DEF SetAuthenticated
<1>11. CASE Cancelled
  BY <1>11 DEF Cancelled
<1>12. CASE CheckRunning
  <2>1. EnvTypeOK'
    BY <1>12 DEF CheckRunning
  <2>2. FileTypeOK'
    BY <1>12 DEF CheckRunning
  <2>3. ProcTypeOK'
    BY <1>12 DEF CheckRunning
  <2>4. SysTypeOK'
    BY <1>12 DEF CheckRunning
  <2> QED
    BY <2>1, <2>2, <2>3, <2>4 DEF TypeOK
<1>13. CASE RemoveValidateFile
  <2>1. EnvTypeOK'
    BY <1>13 DEF RemoveValidateFile
  <2>2. FileTypeOK'
    BY <1>13 DEF RemoveValidateFile
  <2>3. ProcTypeOK'
    BY <1>13 DEF RemoveValidateFile
  <2>4. SysTypeOK'
    BY <1>13 DEF RemoveValidateFile
  <2> QED
    BY <2>1, <2>2, <2>3, <2>4 DEF TypeOK
<1>14. CASE SetBootpart
  BY <1>14 DEF SetBootpart
<1>15. CASE SetExtraArgs
  BY <1>15 DEF SetExtraArgs
<1>16. CASE UnsetValidateArgs
  BY <1>16 DEF UnsetValidateArgs
<1>17. CASE UnsetValidateUpdate
  <2>1. EnvTypeOK'
    BY <1>17 DEF UnsetValidateUpdate
  <2>2. FileTypeOK'
    BY <1>17 DEF UnsetValidateUpdate
  <2>3. ProcTypeOK'
    BY <1>17 DEF UnsetValidateUpdate
  <2>4. SysTypeOK'
    BY <1>17 DEF UnsetValidateUpdate
  <2> QED
    BY <2>1, <2>2, <2>3, <2>4 DEF TypeOK
<1>18. CASE UnsetValidatePart
  BY <1>18 DEF UnsetValidatePart
<1>19. CASE RemoveBarrier
  BY <1>19 DEF RemoveBarrier
<1>20. CASE RemoveConf
  BY <1>20 DEF RemoveConf
<1>21. CASE SetStatus
  BY <1>21 DEF SetStatus
<1>22. CASE Published
  BY <1>22 DEF Published
<1>23. CASE Timeout
  BY <1>23 DEF Timeout
<1>24. CASE RequestReboot
  BY <1>24 DEF RequestReboot
<1>25. CASE TriggerReboot
  BY <1>25 DEF TriggerReboot
<1>26. CASE AduStarted
  BY <1>26 DEF AduStarted
<1>27. CASE ReadArgsFails
  BY <1>27 DEF ReadArgsFails, Fault
<1>28. CASE StepFails
  BY <1>28 DEF StepFails, Fault
<1>29. CASE RebootFails
  BY <1>29 DEF RebootFails, Fault
<1>30. CASE ObserverFires
  BY <1>30 DEF ObserverFires
<1>31. CASE SystemStateChanges
  BY <1>31 DEF SystemStateChanges
<1>32. CASE DeadlinePasses
  BY <1>32 DEF DeadlinePasses
<1>33. CASE UNCHANGED vars
  BY <1>33 DEF vars
<1>34. CASE TimerStarts
  BY <1>34 DEF TimerStarts
<1>35. CASE StartFails
  <2>1. EnvTypeOK'
    BY <1>35 DEF StartFails, End
  <2>2. FileTypeOK'
    BY <1>35 DEF StartFails, End
  <2>3. ProcTypeOK'
    <3>1. starts' \in Nat
      BY <1>35 DEF StartFails
    <3>2. evidence' = {} /\ localUpdate' = FALSE /\ svc' = "down" /\ status' = "none"
         /\ cancel' = "none" /\ pc' = "idle"
      BY <1>35 DEF StartFails, End
    <3> QED
      BY <3>1, <3>2
  <2>4. SysTypeOK'
    <3>1. faults' \in 0..MaxFaults
      BY <1>35 DEF StartFails, Fault
    <3> QED
      BY <1>35, <3>1 DEF StartFails, End
  <2> QED
    BY <2>1, <2>2, <2>3, <2>4 DEF TypeOK
<1> QED
  BY <1>1, <1>2, <1>3, <1>4, <1>5, <1>6, <1>7, <1>8, <1>9, <1>10, <1>11, <1>12, <1>13,
       <1>14, <1>15, <1>16, <1>17, <1>18, <1>19, <1>20, <1>21, <1>22, <1>23, <1>24,
       <1>25, <1>26, <1>27, <1>28, <1>29, <1>30, <1>31, <1>32, <1>33, <1>34, <1>35
     DEF Next, Start, Task, Progress, TaskFails

\* Every step keeps the boot environment consistent with the trial.
LEMMA EnvInvStep ==
  ASSUME TypeOK, EnvInv, TaskInv, [Next]_vars
  PROVE  EnvInv'
<1> USE DEF TypeOK, EnvTypeOK, FileTypeOK, ProcTypeOK, SysTypeOK, EnvInv, TaskInv,
         InTrial, ArgsCommitted, Part, None, TaskPc, Awaiting, EnvSteps, ArgsOf,
         FromConclude, FromNoPart, FromNoUpdate, FromArgs, FromBootpart, FromFile,
         FromRunning, FromCancel, BeforeConclude
<1>1. CASE Boot
  BY <1>1 DEF Boot, PowerCycle, BootFresh, BootAfterFailure, BootNormal
<1>2. CASE PowerLoss
  BY <1>2 DEF PowerLoss, PowerCycle, BootFresh, BootAfterFailure, BootNormal, Fault
<1>3. CASE StartRefused
  BY <1>3 DEF StartRefused
<1>4. CASE StartIdle
  BY <1>4 DEF StartIdle, Begins, CanStart
<1>5. CASE StartTrial
  BY <1>5 DEF StartTrial, Begins, CanStart
<1>6. CASE ResumeTrial
  BY <1>6 DEF ResumeTrial, Begins, CanStart
<1>7. CASE StartUnreadable
  BY <1>7 DEF StartUnreadable, Begins, CanStart, End
<1>8. CASE BarrierWritten
  BY <1>8 DEF BarrierWritten, End
<1>9. ASSUME NEW ok \in BOOLEAN, Exit(ok) PROVE EnvInv'
  BY <1>9 DEF Exit, End, Fault
<1>10. ASSUME NEW authenticated \in BOOLEAN, SetAuthenticated(authenticated) PROVE
         EnvInv'
  BY <1>10 DEF SetAuthenticated
<1>11. CASE Cancelled
  BY <1>11 DEF Cancelled
<1>12. CASE CheckRunning
  BY <1>12 DEF CheckRunning
<1>13. CASE RemoveValidateFile
  BY <1>13 DEF RemoveValidateFile
<1>14. CASE SetBootpart
  BY <1>14 DEF SetBootpart
<1>15. CASE SetExtraArgs
  BY <1>15 DEF SetExtraArgs
<1>16. CASE UnsetValidateArgs
  BY <1>16 DEF UnsetValidateArgs
<1>17. CASE UnsetValidateUpdate
  BY <1>17 DEF UnsetValidateUpdate
<1>18. CASE UnsetValidatePart
  BY <1>18 DEF UnsetValidatePart
<1>19. CASE RemoveBarrier
  BY <1>19 DEF RemoveBarrier
<1>20. CASE RemoveConf
  BY <1>20 DEF RemoveConf
<1>21. CASE SetStatus
  BY <1>21 DEF SetStatus
<1>22. CASE Published
  BY <1>22 DEF Published
<1>23. CASE Timeout
  BY <1>23 DEF Timeout
<1>24. CASE RequestReboot
  BY <1>24 DEF RequestReboot
<1>25. CASE TriggerReboot
  BY <1>25 DEF TriggerReboot
<1>26. CASE AduStarted
  BY <1>26 DEF AduStarted
<1>27. CASE ReadArgsFails
  BY <1>27 DEF ReadArgsFails, Fault
<1>28. CASE StepFails
  BY <1>28 DEF StepFails, Fault
<1>29. CASE RebootFails
  BY <1>29 DEF RebootFails, Fault
<1>30. CASE ObserverFires
  BY <1>30 DEF ObserverFires
<1>31. CASE SystemStateChanges
  BY <1>31 DEF SystemStateChanges
<1>32. CASE DeadlinePasses
  BY <1>32 DEF DeadlinePasses
<1>33. CASE UNCHANGED vars
  BY <1>33 DEF vars
<1>34. CASE TimerStarts
  BY <1>34 DEF TimerStarts
<1>35. CASE StartFails
  BY <1>35 DEF StartFails, CanStart, End
<1> QED
  BY <1>1, <1>2, <1>3, <1>4, <1>5, <1>6, <1>7, <1>8, <1>9, <1>10, <1>11, <1>12, <1>13,
       <1>14, <1>15, <1>16, <1>17, <1>18, <1>19, <1>20, <1>21, <1>22, <1>23, <1>24,
       <1>25, <1>26, <1>27, <1>28, <1>29, <1>30, <1>31, <1>32, <1>33, <1>34, <1>35
     DEF Next, Start, Task, Progress, TaskFails

\* Every step keeps what finalize has done in step with the task's position.
LEMMA TaskInvStep ==
  ASSUME TypeOK, EnvInv, TaskInv, [Next]_vars
  PROVE  TaskInv'
<1> USE DEF TypeOK, EnvTypeOK, FileTypeOK, ProcTypeOK, SysTypeOK, EnvInv, TaskInv,
         InTrial, ArgsCommitted, Part, None, TaskPc, Awaiting, EnvSteps, ArgsOf,
         FromConclude, FromNoPart, FromNoUpdate, FromArgs, FromBootpart, FromFile,
         FromRunning, FromCancel, BeforeConclude
<1>1. CASE Boot
  BY <1>1 DEF Boot, PowerCycle, BootFresh, BootAfterFailure, BootNormal
<1>2. CASE PowerLoss
  BY <1>2 DEF PowerLoss, PowerCycle, BootFresh, BootAfterFailure, BootNormal, Fault
<1>3. CASE StartRefused
  BY <1>3 DEF StartRefused
<1>4. CASE StartIdle
  BY <1>4 DEF StartIdle, Begins, CanStart
<1>5. CASE StartTrial
  BY <1>5 DEF StartTrial, Begins, CanStart
<1>6. CASE ResumeTrial
  BY <1>6 DEF ResumeTrial, Begins, CanStart
<1>7. CASE StartUnreadable
  BY <1>7 DEF StartUnreadable, Begins, CanStart, End
<1>8. CASE BarrierWritten
  BY <1>8 DEF BarrierWritten, End
<1>9. ASSUME NEW ok \in BOOLEAN, Exit(ok) PROVE TaskInv'
  BY <1>9 DEF Exit, End, Fault
<1>10. ASSUME NEW authenticated \in BOOLEAN, SetAuthenticated(authenticated) PROVE
         TaskInv'
  BY <1>10 DEF SetAuthenticated
<1>11. CASE Cancelled
  BY <1>11 DEF Cancelled
<1>12. CASE CheckRunning
  BY <1>12 DEF CheckRunning
<1>13. CASE RemoveValidateFile
  BY <1>13 DEF RemoveValidateFile
<1>14. CASE SetBootpart
  BY <1>14 DEF SetBootpart
<1>15. CASE SetExtraArgs
  BY <1>15 DEF SetExtraArgs
<1>16. CASE UnsetValidateArgs
  BY <1>16 DEF UnsetValidateArgs
<1>17. CASE UnsetValidateUpdate
  BY <1>17 DEF UnsetValidateUpdate
<1>18. CASE UnsetValidatePart
  BY <1>18 DEF UnsetValidatePart
<1>19. CASE RemoveBarrier
  BY <1>19 DEF RemoveBarrier
<1>20. CASE RemoveConf
  BY <1>20 DEF RemoveConf
<1>21. CASE SetStatus
  BY <1>21 DEF SetStatus
<1>22. CASE Published
  BY <1>22 DEF Published
<1>23. CASE Timeout
  BY <1>23 DEF Timeout
<1>24. CASE RequestReboot
  BY <1>24 DEF RequestReboot
<1>25. CASE TriggerReboot
  BY <1>25 DEF TriggerReboot
<1>26. CASE AduStarted
  BY <1>26 DEF AduStarted
<1>27. CASE ReadArgsFails
  BY <1>27 DEF ReadArgsFails, Fault
<1>28. CASE StepFails
  BY <1>28 DEF StepFails, Fault
<1>29. CASE RebootFails
  BY <1>29 DEF RebootFails, Fault
<1>30. CASE ObserverFires
  BY <1>30 DEF ObserverFires
<1>31. CASE SystemStateChanges
  BY <1>31 DEF SystemStateChanges
<1>32. CASE DeadlinePasses
  BY <1>32 DEF DeadlinePasses
<1>33. CASE UNCHANGED vars
  BY <1>33 DEF vars
<1>34. CASE TimerStarts
  BY <1>34 DEF TimerStarts
<1>35. CASE StartFails
  BY <1>35 DEF StartFails, CanStart, End
<1> QED
  BY <1>1, <1>2, <1>3, <1>4, <1>5, <1>6, <1>7, <1>8, <1>9, <1>10, <1>11, <1>12, <1>13,
       <1>14, <1>15, <1>16, <1>17, <1>18, <1>19, <1>20, <1>21, <1>22, <1>23, <1>24,
       <1>25, <1>26, <1>27, <1>28, <1>29, <1>30, <1>31, <1>32, <1>33, <1>34, <1>35
     DEF Next, Start, Task, Progress, TaskFails

\* Every step keeps the evidence in step with the task's position.
LEMMA EvidenceInvStep ==
  ASSUME TypeOK, TaskInv, EvidenceInv, [Next]_vars
  PROVE  EvidenceInv'
<1> USE DEF TypeOK, EnvTypeOK, FileTypeOK, ProcTypeOK, SysTypeOK, TaskInv,
         EvidenceInv, TaskPc, Awaiting, EnvSteps, FromConclude, FromNoPart,
         FromNoUpdate, FromArgs, FromBootpart, FromFile, FromRunning, FromCancel
<1>1. CASE Boot
  BY <1>1 DEF Boot, PowerCycle, BootFresh, BootAfterFailure, BootNormal
<1>2. CASE PowerLoss
  BY <1>2 DEF PowerLoss, PowerCycle, BootFresh, BootAfterFailure, BootNormal, Fault
<1>3. CASE StartRefused
  BY <1>3 DEF StartRefused
<1>4. CASE StartIdle
  BY <1>4 DEF StartIdle, Begins, CanStart
<1>5. CASE StartTrial
  BY <1>5 DEF StartTrial, Begins, CanStart
<1>6. CASE ResumeTrial
  BY <1>6 DEF ResumeTrial, Begins, CanStart
<1>7. CASE StartUnreadable
  BY <1>7 DEF StartUnreadable, Begins, CanStart, End
<1>8. CASE BarrierWritten
  BY <1>8 DEF BarrierWritten, End
<1>9. ASSUME NEW ok \in BOOLEAN, Exit(ok) PROVE EvidenceInv'
  BY <1>9 DEF Exit, End, Fault
<1>10. ASSUME NEW authenticated \in BOOLEAN, SetAuthenticated(authenticated) PROVE
         EvidenceInv'
  BY <1>10 DEF SetAuthenticated
<1>11. CASE Cancelled
  BY <1>11 DEF Cancelled
<1>12. CASE CheckRunning
  BY <1>12 DEF CheckRunning
<1>13. CASE RemoveValidateFile
  BY <1>13 DEF RemoveValidateFile
<1>14. CASE SetBootpart
  BY <1>14 DEF SetBootpart
<1>15. CASE SetExtraArgs
  BY <1>15 DEF SetExtraArgs
<1>16. CASE UnsetValidateArgs
  BY <1>16 DEF UnsetValidateArgs
<1>17. CASE UnsetValidateUpdate
  BY <1>17 DEF UnsetValidateUpdate
<1>18. CASE UnsetValidatePart
  BY <1>18 DEF UnsetValidatePart
<1>19. CASE RemoveBarrier
  BY <1>19 DEF RemoveBarrier
<1>20. CASE RemoveConf
  BY <1>20 DEF RemoveConf
<1>21. CASE SetStatus
  BY <1>21 DEF SetStatus
<1>22. CASE Published
  BY <1>22 DEF Published
<1>23. CASE Timeout
  BY <1>23 DEF Timeout
<1>24. CASE RequestReboot
  BY <1>24 DEF RequestReboot
<1>25. CASE TriggerReboot
  BY <1>25 DEF TriggerReboot
<1>26. CASE AduStarted
  BY <1>26 DEF AduStarted
<1>27. CASE ReadArgsFails
  BY <1>27 DEF ReadArgsFails, Fault
<1>28. CASE StepFails
  BY <1>28 DEF StepFails, Fault
<1>29. CASE RebootFails
  BY <1>29 DEF RebootFails, Fault
<1>30. CASE ObserverFires
  BY <1>30 DEF ObserverFires
<1>31. CASE SystemStateChanges
  BY <1>31 DEF SystemStateChanges
<1>32. CASE DeadlinePasses
  BY <1>32 DEF DeadlinePasses
<1>33. CASE UNCHANGED vars
  BY <1>33 DEF vars
<1>34. CASE TimerStarts
  BY <1>34 DEF TimerStarts
<1>35. CASE StartFails
  BY <1>35 DEF StartFails, CanStart, End
<1> QED
  BY <1>1, <1>2, <1>3, <1>4, <1>5, <1>6, <1>7, <1>8, <1>9, <1>10, <1>11, <1>12, <1>13,
       <1>14, <1>15, <1>16, <1>17, <1>18, <1>19, <1>20, <1>21, <1>22, <1>23, <1>24,
       <1>25, <1>26, <1>27, <1>28, <1>29, <1>30, <1>31, <1>32, <1>33, <1>34, <1>35
     DEF Next, Start, Task, Progress, TaskFails

\* Every step keeps a published success durable.
LEMMA StatusInvStep ==
  ASSUME TypeOK, TaskInv, StatusInv, [Next]_vars
  PROVE  StatusInv'
<1> USE DEF TypeOK, EnvTypeOK, FileTypeOK, ProcTypeOK, SysTypeOK, TaskInv, StatusInv,
         SucceededIsDurable, ArgsCommitted, TaskPc, Awaiting, EnvSteps, FromConclude,
         FromNoPart, FromNoUpdate, FromArgs, FromBootpart, FromFile, Part, None
<1>1. CASE Boot
  BY <1>1 DEF Boot, PowerCycle, BootFresh, BootAfterFailure, BootNormal
<1>2. CASE PowerLoss
  BY <1>2 DEF PowerLoss, PowerCycle, BootFresh, BootAfterFailure, BootNormal, Fault
<1>3. CASE StartRefused
  BY <1>3 DEF StartRefused
<1>4. CASE StartIdle
  BY <1>4 DEF StartIdle, Begins, CanStart
<1>5. CASE StartTrial
  BY <1>5 DEF StartTrial, Begins, CanStart
<1>6. CASE ResumeTrial
  BY <1>6 DEF ResumeTrial, Begins, CanStart
<1>7. CASE StartUnreadable
  BY <1>7 DEF StartUnreadable, Begins, CanStart, End
<1>8. CASE BarrierWritten
  BY <1>8 DEF BarrierWritten, End
<1>9. ASSUME NEW ok \in BOOLEAN, Exit(ok) PROVE StatusInv'
  BY <1>9 DEF Exit, End, Fault
<1>10. ASSUME NEW authenticated \in BOOLEAN, SetAuthenticated(authenticated) PROVE
         StatusInv'
  BY <1>10 DEF SetAuthenticated
<1>11. CASE Cancelled
  BY <1>11 DEF Cancelled
<1>12. CASE CheckRunning
  BY <1>12 DEF CheckRunning
<1>13. CASE RemoveValidateFile
  BY <1>13 DEF RemoveValidateFile
<1>14. CASE SetBootpart
  BY <1>14 DEF SetBootpart
<1>15. CASE SetExtraArgs
  BY <1>15 DEF SetExtraArgs
<1>16. CASE UnsetValidateArgs
  BY <1>16 DEF UnsetValidateArgs
<1>17. CASE UnsetValidateUpdate
  BY <1>17 DEF UnsetValidateUpdate
<1>18. CASE UnsetValidatePart
  BY <1>18 DEF UnsetValidatePart
<1>19. CASE RemoveBarrier
  BY <1>19 DEF RemoveBarrier
<1>20. CASE RemoveConf
  BY <1>20 DEF RemoveConf
<1>21. CASE SetStatus
  BY <1>21 DEF SetStatus
<1>22. CASE Published
  BY <1>22 DEF Published
<1>23. CASE Timeout
  BY <1>23 DEF Timeout
<1>24. CASE RequestReboot
  BY <1>24 DEF RequestReboot
<1>25. CASE TriggerReboot
  BY <1>25 DEF TriggerReboot
<1>26. CASE AduStarted
  BY <1>26 DEF AduStarted
<1>27. CASE ReadArgsFails
  BY <1>27 DEF ReadArgsFails, Fault
<1>28. CASE StepFails
  BY <1>28 DEF StepFails, Fault
<1>29. CASE RebootFails
  BY <1>29 DEF RebootFails, Fault
<1>30. CASE ObserverFires
  BY <1>30 DEF ObserverFires
<1>31. CASE SystemStateChanges
  BY <1>31 DEF SystemStateChanges
<1>32. CASE DeadlinePasses
  BY <1>32 DEF DeadlinePasses
<1>33. CASE UNCHANGED vars
  BY <1>33 DEF vars
<1>34. CASE TimerStarts
  BY <1>34 DEF TimerStarts
<1>35. CASE StartFails
  BY <1>35 DEF StartFails, CanStart, End
<1> QED
  BY <1>1, <1>2, <1>3, <1>4, <1>5, <1>6, <1>7, <1>8, <1>9, <1>10, <1>11, <1>12, <1>13,
       <1>14, <1>15, <1>16, <1>17, <1>18, <1>19, <1>20, <1>21, <1>22, <1>23, <1>24,
       <1>25, <1>26, <1>27, <1>28, <1>29, <1>30, <1>31, <1>32, <1>33, <1>34, <1>35
     DEF Next, Start, Task, Progress, TaskFails

-----------------------------------------------------------------------------
\* The reboot that ends the installation establishes the invariant.
LEMMA InitInv ==
  ASSUME Init
  PROVE  IInv
<1>1. TypeOK
  <2>1. EnvTypeOK
    BY DEF Init, EnvTypeOK, Part, None
  <2>2. FileTypeOK
    BY DEF Init, FileTypeOK
  <2>3. ProcTypeOK
    <3>1. svc = "down" /\ starts = 0 /\ status = "none" /\ cancel = "none"
          /\ localUpdate = FALSE /\ pc = "idle" /\ evidence = {}
      BY DEF Init
    <3> QED
      BY <3>1 DEF ProcTypeOK, TaskPc
  <2>4. SysTypeOK
    <3>1. sysRunning = FALSE /\ observer = "off" /\ going = "swupdate"
          /\ rebootLost = FALSE /\ argsSkipped = FALSE /\ faults = 0
      BY DEF Init
    <3>2. faults \in 0..MaxFaults
      BY <3>1, BoundsAssumption
    <3> QED
      BY <3>1, <3>2 DEF SysTypeOK
  <2> QED
    BY <2>1, <2>2, <2>3, <2>4 DEF TypeOK
<1> USE DEF Init, Part, None, ArgsOf, InTrial
<1>2. EnvInv
  BY DEF EnvInv
<1>3. TaskInv
  BY DEF TaskInv, FromConclude, FromNoPart, FromNoUpdate, FromArgs, FromBootpart,
         FromFile, FromRunning, FromCancel, BeforeConclude
<1>4. EvidenceInv
  BY DEF EvidenceInv, FromRunning, FromCancel
<1>5. StatusInv
  BY DEF StatusInv, SucceededIsDurable
<1> QED
  BY <1>1, <1>2, <1>3, <1>4, <1>5 DEF IInv

\* Every step preserves the invariant.
LEMMA StepInv ==
  ASSUME IInv, [Next]_vars
  PROVE  IInv'
BY TypeOKStep, EnvInvStep, TaskInvStep, EvidenceInvStep, StatusInvStep DEF IInv

\* The inductive invariant holds in every behaviour.
THEOREM Invariance == Spec => []IInv
<1>1. Init => IInv
  BY InitInv
<1>2. IInv /\ [Next]_vars => IInv'
  BY StepInv
<1> QED
  BY <1>1, <1>2, PTL DEF Spec

\* Every variable keeps its type, whatever restarts, stops and power losses do.
THEOREM TypeCorrect == Spec => []TypeOK
<1>1. IInv => TypeOK
  BY DEF IInv
<1> QED
  BY Invariance, <1>1, PTL

\* finalize() clears omnect_validate_update last: for every number of faults,
\* no power loss drops the trial and boots what was never tried.
THEOREM MarkerLastHolds == Spec => []MarkerLast
<1>1. IInv => MarkerLast
  BY DEF IInv, EnvInv, InTrial, ArgsCommitted, MarkerLast
<1> QED
  BY Invariance, <1>1, PTL

\* A published success is durable: nothing left in the boot environment or in
\* /run can send the device back, for every number of faults.
THEOREM SucceededDurable == Spec => []SucceededIsDurable
<1>1. IInv => SucceededIsDurable
  BY DEF IInv, StatusInv
<1> QED
  BY Invariance, <1>1, PTL

-----------------------------------------------------------------------------
\* What UpdateTrial sees of a state.
seen == <<booted, bootpart, validatePart, validateUpdate, localUpdate, evidence>>

\* Every step of the validation is a step of the trial or changes nothing of it.
LEMMA StepTrial ==
  ASSUME IInv, [Next]_vars
  PROVE  [Trial!Next]_(Trial!vars)
<1> USE DEF Trial!vars
<1>1. ASSUME PowerCycle PROVE Trial!Boot
  <2> USE <1>1 DEF PowerCycle, Trial!Boot, Trial!None, None
  <2>1. CASE BootFresh
    BY <2>1 DEF BootFresh, Trial!BootCandidate
  <2>2. CASE BootAfterFailure
    BY <2>2 DEF BootAfterFailure, Trial!BootDefault
  <2>3. CASE BootNormal
    <3>1. validateUpdate = FALSE
      BY <2>3 DEF BootNormal, IInv, EnvInv, TypeOK, EnvTypeOK
    <3> QED
      BY <2>3, <3>1 DEF BootNormal, Trial!BootDefault
  <2> QED
    BY <2>1, <2>2, <2>3
<1>2. CASE Boot \/ PowerLoss
  BY <1>1, <1>2 DEF Boot, PowerLoss, Trial!Next
<1>3. ASSUME NEW ok \in BOOLEAN, NEW b, End(ok, b),
             UNCHANGED <<booted, bootpart, validatePart, validateUpdate>>
      PROVE  Trial!Restart
  BY <1>3 DEF End, Trial!Restart
<1>4. CASE StartUnreadable \/ StartFails \/ \E ok \in BOOLEAN : Exit(ok)
  BY <1>3, <1>4 DEF StartUnreadable, StartFails, Exit, Trial!Next
<1>5. CASE BarrierWritten
  <2>1. CASE conf = "torn" \/ overdue
    BY <1>3, <1>5, <2>1 DEF BarrierWritten, Trial!Next
  <2>2. CASE ~(conf = "torn" \/ overdue)
    BY <1>5, <2>2 DEF BarrierWritten, Trial!Next, Trial!Restart
  <2> QED
    BY <2>1, <2>2
<1>6. ASSUME NEW authenticated \in BOOLEAN, SetAuthenticated(authenticated)
      PROVE  Trial!Observe
  <2>1. evidence' = evidence \cup (IF authenticated THEN {"auth"} ELSE {})
    BY <1>6 DEF SetAuthenticated
  <2> QED
    BY <1>6, <2>1 DEF SetAuthenticated, Trial!Observe, Trial!Fact
<1>7. CASE CheckRunning
  <2>1. evidence' = evidence \cup (IF sysRunning THEN {"running"} ELSE {})
    BY <1>7 DEF CheckRunning
  <2>2. Trial!Observe
    BY <1>7, <2>1 DEF CheckRunning, Trial!Observe, Trial!Fact
  <2> QED
    BY <2>2 DEF Trial!Next
<1>8. CASE AduStarted
  BY <1>8 DEF AduStarted, Trial!Observe, Trial!Fact, Trial!Next
<1>9. CASE SetBootpart
  <2>1. CASE validatePart = None
    BY <1>9, <2>1 DEF SetBootpart
  <2>2. CASE validatePart # None
    <3>1. validatePart = booted
      BY <1>9, <2>2 DEF SetBootpart, IInv, TaskInv, EnvInv, InTrial, BeforeConclude,
                        FromCancel, FromRunning, FromConclude
    <3>2. Trial!Criteria
      BY <1>9 DEF SetBootpart, IInv, EvidenceInv, FromRunning, FromCancel,
           Trial!Criteria
    <3>3. Trial!Commit
      BY <1>9, <2>2, <3>1, <3>2 DEF SetBootpart, Trial!Commit
    <3> QED
      BY <3>3 DEF Trial!Next
  <2> QED
    BY <2>1, <2>2
<1>10. CASE UnsetValidateUpdate
  <2>1. bootpart = booted
    BY <1>10 DEF UnsetValidateUpdate, IInv, TaskInv, FromBootpart, FromArgs
  <2>2. Trial!Conclude
    BY <1>10, <2>1 DEF UnsetValidateUpdate, Trial!Conclude
  <2> QED
    BY <2>2 DEF Trial!Next
<1>11. CASE UnsetValidatePart
  <2>1. bootpart = booted /\ validateUpdate = FALSE
    BY <1>11 DEF UnsetValidatePart, IInv, TypeOK, EnvTypeOK, TaskInv, FromBootpart,
                 FromArgs, FromNoUpdate
  <2>2. Trial!Conclude
    BY <1>11, <2>1 DEF UnsetValidatePart, Trial!Conclude, Trial!None, None
  <2> QED
    BY <2>2 DEF Trial!Next
<1>12. CASE \/ StartRefused \/ TimerStarts \/ StartIdle \/ StartTrial \/ ResumeTrial
            \/ ObserverFires \/ SystemStateChanges \/ DeadlinePasses
            \/ ReadArgsFails \/ StepFails \/ RebootFails
            \/ UNCHANGED vars
  <2>1. UNCHANGED seen
    BY <1>12 DEF StartRefused, TimerStarts, StartIdle, StartTrial, ResumeTrial, ObserverFires,
                 SystemStateChanges, DeadlinePasses, ReadArgsFails, StepFails,
                 RebootFails, vars, seen
  <2> QED
    BY <2>1 DEF seen
<1>13. CASE \/ Cancelled \/ RemoveValidateFile \/ SetExtraArgs \/ UnsetValidateArgs
            \/ RemoveBarrier \/ RemoveConf \/ SetStatus \/ Published \/ Timeout
            \/ RequestReboot \/ TriggerReboot
  <2>1. UNCHANGED seen
    BY <1>13 DEF Cancelled, RemoveValidateFile, SetExtraArgs, UnsetValidateArgs,
                 RemoveBarrier, RemoveConf, SetStatus, Published, Timeout,
                 RequestReboot, TriggerReboot, seen
  <2> QED
    BY <2>1 DEF seen
<1> QED
  BY <1>2, <1>4, <1>5, <1>6, <1>7, <1>8, <1>9, <1>10, <1>11, <1>12, <1>13
     DEF Next, Start, Task, Progress, TaskFails, Trial!Next

\* The service, its scripts and the bootloader implement the trial: the default
\* root moves only to the running root, after all the criteria were met, and a
\* trial that is not committed ends with the old root.
THEOREM Refinement == Spec => ImplementsTrial
<1>1. Init => Trial!Init
  BY DEF Init, Trial!Init, Part, Trial!Part
<1>2. IInv /\ [Next]_vars => [Trial!Next]_(Trial!vars)
  BY StepTrial
<1> QED
  BY Invariance, <1>1, <1>2, PTL DEF Spec, ImplementsTrial, Trial!Spec


\* Contained follows from the steps of UpdateTrial alone.
LEMMA ContainedStep ==
  ASSUME Trial!Contained, [Trial!Next]_(Trial!vars)
  PROVE  Trial!Contained'
<1> USE DEF Trial!Contained
<1>1. CASE Trial!Observe \/ Trial!Restart \/ UNCHANGED Trial!vars
  BY <1>1 DEF Trial!Observe, Trial!Restart, Trial!vars
<1>2. CASE Trial!Commit \/ Trial!Conclude
  BY <1>2 DEF Trial!Commit, Trial!Conclude
<1>3. CASE Trial!Boot
  BY <1>3 DEF Trial!Boot, Trial!BootCandidate, Trial!BootDefault
<1> QED
  BY <1>1, <1>2, <1>3 DEF Trial!Next

\* By UpdateTrial alone the device runs its default root, or the new one on its
\* one boot, in every state; and the default moves only to the root on trial,
\* while it runs, and when the criteria of a valid update are met.
THEOREM TrialIsContained ==
  /\ Spec => []Trial!Contained
  /\ Spec => [][bootpart' # bootpart => Trial!Validates]_(Trial!vars)
<1>1. Trial!Init => Trial!Contained
  BY DEF Trial!Init, Trial!Contained
<1>2. Trial!Contained /\ [Trial!Next]_(Trial!vars) => Trial!Contained'
  BY ContainedStep
<1>3. ImplementsTrial => []Trial!Contained
  BY <1>1, <1>2, PTL DEF ImplementsTrial, Trial!Spec
<1>4. [Trial!Next]_(Trial!vars) => [bootpart' # bootpart => Trial!Validates]_(Trial!vars)
  BY DEF Trial!Next, Trial!Observe, Trial!Restart, Trial!Commit, Trial!Conclude, Trial!Boot,
         Trial!Validates
<1>5. ImplementsTrial => [][bootpart' # bootpart => Trial!Validates]_(Trial!vars)
  BY <1>4, PTL DEF ImplementsTrial, Trial!Spec
<1> QED
  BY <1>3, <1>5, Refinement
=============================================================================
