SPECIFICATION FairSpec
CONSTANTS
  p1 = p1
  p2 = p2
  p3 = p3
  NoOne = NoOne
  Proc = {p1, p2, p3}
  Dispositions = {"fail", "cancel-run"}
  MaxCrashes = 1
  MaxStalls = 0
INVARIANTS OneDriver
PROPERTIES LiveRunsAreLeftAlone ImplementsRunStatus AbandonedRunsMove
