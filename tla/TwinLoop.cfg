SPECIFICATION FairSpec
CONSTANTS
  Callers = {web}
  Capacity = 2
  MaxChanges = 1
INVARIANTS
  TypeOK
  StatusPropagated
  NothingUnreported
PROPERTIES
  ImplementsConnection
  Answered
  ValidationTold
