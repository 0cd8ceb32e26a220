SPECIFICATION FairSpec
CONSTANTS
  Job = {j1}
  Request = {r1}
  Threshold = 2
  Interval = 1
  Cooldown = 1
  MaxCooldown = 2
  Repush = 2
  NoJob = NoJob
  MaxTrouble = 1
INVARIANT NoOverlap
INVARIANT KeptWord
INVARIANT DrainWaits
PROPERTY TrippedIsRetried
