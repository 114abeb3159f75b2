SPECIFICATION PatientSpec
CONSTANTS
  MaxRestartCount = 2
  StartLimitBurst = 3
  MaxFaults = 0
PROPERTY
  WaitEnds
CHECK_DEADLOCK FALSE
