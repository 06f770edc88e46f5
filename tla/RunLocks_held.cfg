SPECIFICATION FairSpec
CONSTANTS
  runA = runA
  runB = runB
  t1 = t1
  t2 = t2
  u1 = u1
  k1 = k1
  k2 = k2
  None = None
  Run = {runA, runB}
  Target = {t1, t2, u1}
  Key = {k1, k2}
  RunOf <- Owner
  Decls <- AllDecls
  Parking = {runA}
  Steady = {runB}
  Faults = {"record", "release", "reclaim"}
  MaxTroubles = 1
INVARIANTS
  TypeOK
  HeldWhileBodyRuns
  NoLockIsForgotten
PROPERTIES
  RunHeldLocksServeTheRun
  RequestsEnd
CHECK_DEADLOCK FALSE
