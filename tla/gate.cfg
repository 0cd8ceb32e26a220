SPECIFICATION Spec
CONSTANTS
  Action = {a1, a2}
  NoAction = NoAction
  read = read
  write = write
  forbidden = forbidden
  Tool = {read, write, forbidden}
  NoTool = NoTool
  Rules <- MCRules
  Task = {poller, c1}
  Poller = {poller}
  Redriver = {}
  MaxTrouble = 2
  MaxRuns = 0
SYMMETRY Symmetric
INVARIANT AtMostOneCall
INVARIANT ExecutedMeansApplied
PROPERTY KeepsPromise
