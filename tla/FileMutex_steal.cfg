SPECIFICATION Spec
CONSTANTS
  p1 = p1
  p2 = p2
  p3 = p3
  Proc <- ThreeProcs
  TTL = 1
  Attempts = 3
  MaxCrashes = 1
  MaxLeft = 0
  MaxFaults = 0
SYMMETRY Symmetry
INVARIANT MutualExclusion
