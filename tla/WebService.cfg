SPECIFICATION FairSpec
CONSTANTS
  Endpoint = {ui, other}
  Handler = {h1, h2}
  Channel = {online, validation}
  Hanging <- NoneHanging
  MaxValue = 1
  MaxRequests = 2
  MaxFaults = 1
INVARIANTS
  TypeOK
  NothingMissed
  RegistrationsSaved
PROPERTY
  Served
CHECK_DEADLOCK FALSE
