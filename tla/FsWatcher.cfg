SPECIFICATION FairSpec
CONSTANTS
  Modified <- MCModified
  Oneshot <- MCOneshot
  WdOf <- MCWdOf
  QueueLen = 2
  Capacity = 1
  MaxChanges = 2
  MaxRestarts = 1
INVARIANTS
  TypeOK
  NoChangeLost
  FiresOnce
  NoWatchLeaked
PROPERTY
  ChangeReported
CHECK_DEADLOCK FALSE
