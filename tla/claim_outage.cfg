SPECIFICATION Spec
CONSTANTS
  LastMonth = 18
  Worlds <- MCOutages
  MaxUnread = 1
  Retention = 90
CHECK_DEADLOCK FALSE
INVARIANT OutagesAreTold
