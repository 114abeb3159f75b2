SPECIFICATION FairSpec
CONSTANTS
  Id = {a, b}
  Slot <- MCSlot
  MaxTunnels = 2
  Capacity = 1
  MaxCommands = 5
  MaxFaults = 1
INVARIANTS
  TypeOK
  CredentialsCleaned
  TunnelsLimited
  EndReportedOnce
PROPERTY
  PermitReturned
CHECK_DEADLOCK FALSE
