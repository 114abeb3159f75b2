SPECIFICATION FairSpec
CONSTANTS
  Endpoint = {ui, other}
  Handler = {h1, h2}
  Channel = {online}
  Hanging = {other}
  MaxValue = 1
  MaxRequests = 2
  MaxFaults = 0
PROPERTY
  RegistrationServed
CHECK_DEADLOCK FALSE
