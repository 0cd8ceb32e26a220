SPECIFICATION FairSpec
CONSTANTS
  Connector = {fortnox, kth}
  Call = {c1, c2}
  NoCall = NoCall
  MaxChildren = 2
  MaxRounds = 2
  MaxTrouble = 2
  Steady = kth
 
PROPERTY NeighboursAreServed
