SPECIFICATION FairSpec
CONSTANTS
  p1 = p1
  p2 = p2
  p3 = p3
  Proc <- TwoProcs
  TTL = 2
  Attempts = 3
  MaxCrashes = 1
  MaxLeft = 1
  MaxFaults = 1
INVARIANTS
  TypeOK
  OnlyStaleStealsBreakSwaps
PROPERTIES
  NobodyWaitsForEver
