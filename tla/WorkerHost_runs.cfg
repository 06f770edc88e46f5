SPECIFICATION FairSpec
CONSTANTS
  b1 = b1
  b2 = b2
  Config = Config
  Body = {b1, b2}
  NWorkers = 3
  MaxRuns = 2
  MaxFaults = 2
  MaxTimeouts = 1
  Prewarm = TRUE
INVARIANTS
  TypeOK
  OneWorkerServesTheRun
PROPERTIES
  NobodyHangs
