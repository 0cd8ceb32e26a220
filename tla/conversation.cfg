SPECIFICATION FairSpec
CONSTANTS
  MaxUpdates = 2
  Client = {c1}
  MaxTrouble = 1
INVARIANT BilledOnce
INVARIANT LossIsBounded
INVARIANT LedgerIsHonest
PROPERTY KeepsPromise
PROPERTY UpdatesAreTakenUp
PROPERTY TurnsEnd
