SPECIFICATION Spec
CONSTANTS
  p1 = p1
  p2 = p2
  NoOne = NoOne
  Proc = {p1, p2}
  Dispositions = {"cancel-run"}
  MaxCrashes = 0
  MaxStalls = 0
PROPERTIES TimeoutsLeaveLiveRunsAlone
