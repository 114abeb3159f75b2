SPECIFICATION FairSpec
CONSTANTS
  MaxRestartCount = 2
  StartLimitBurst = 3
  MaxFaults = 2
INVARIANTS
  TypeOK
  MarkerLast
  SucceededIsDurable
PROPERTIES
  ImplementsTrial
  TrialDecided
CHECK_DEADLOCK FALSE
