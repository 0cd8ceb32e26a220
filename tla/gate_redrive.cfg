SPECIFICATION FairSpec
CONSTANTS
  Action = {a1}
  NoAction = NoAction
  read = read
  write = write
  forbidden = forbidden
  Tool = {read, write, forbidden}
  NoTool = NoTool
  Rules <- MCRules
  Task = {poller, c1, r1, r2}
  Poller = {poller}
  Redriver = {r1, r2}
  MaxTrouble = 2
  MaxRuns = 2
INVARIANT OneExecutionAtATime
PROPERTY StrandedIsResolved
PROPERTY RequestsEnd
PROPERTY ApprovedConcludes
