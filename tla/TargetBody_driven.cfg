SPECIFICATION FairSpec
CONSTANTS
  NEffects = 2
  Shapes <- AllShapes
  MaxCrashes = 2
  MaxFaults = 1
INVARIANTS
  TypeOK
  SuccessIsEarned
PROPERTIES
  OnlyOwedEffectsArePerformed
  NothingIsLeftHanging
