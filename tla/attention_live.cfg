SPECIFICATION FairSpec
CONSTANTS
  MaxEvents = 3
  Payloads <- MCThreeEvents
  Muted <- MCMuted
  Scan = 2
  Batch = 1
  MaxAttempts = 2
  MaxPerHour = 1
  Window = 2
  Quiet <- MCQuiet
  MaxDigest = 1
  DailySessions = 10
  DayLength = 2
  MaxTime = 0
  morning = morning
  Briefing <- MCBriefing
  Morning = morning
  Occurs <- MCOccurs
  Setups <- MCFullSetup
  MaxTrouble = 1
CHECK_DEADLOCK FALSE
PROPERTY EventsAreSettled
