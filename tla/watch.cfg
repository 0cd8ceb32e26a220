SPECIFICATION Spec
CONSTANTS
  LastMonth = 18
  Worlds <- MCWorlds
  MaxUnread = 1
  Retention = 90
CHECK_DEADLOCK FALSE
INVARIANT NewsIsNotRepeated
INVARIANT DeadlinesComeInTime
