SPECIFICATION Spec
CONSTANTS
  MaxRestartCount = 2
  StartLimitBurst = 3
  MaxFaults = 0
PROPERTY
  FailedTrialBootsOld
CHECK_DEADLOCK FALSE
