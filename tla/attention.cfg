SPECIFICATION Spec
CONSTANTS
  MaxEvents = 2
  Payloads <- MCPayloads
  Muted <- MCMuted
  Scan = 2
  Batch = 2
  MaxAttempts = 2
  MaxPerHour = 1
  Window = 2
  Quiet <- MCQuiet
  MaxDigest = 1
  DailySessions = 1
  DayLength = 2
  MaxTime = 2
  morning = morning
  Briefing <- MCBriefing
  Morning = morning
  Occurs <- MCOccurs
  Setups <- MCSetups
  MaxTrouble = 1
CHECK_DEADLOCK FALSE
INVARIANT UntoldIsCounted
INVARIANT LossIsOnePerTrouble
INVARIANT InterruptionsAreRationed
INVARIANT BudgetHolds
INVARIANT BriefedOncePerOccurrence
INVARIANT MorningIsNeverSilent
