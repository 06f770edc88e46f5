SPECIFICATION Spec
CONSTANTS
  a = a
  b = b
  c = c
  Target = {a, b, c}
  Builds <- MCBuilds
  MaxEdits = 2
  MaxCleans = 1
  MaxKills = 2
INVARIANTS
  TypeOK
  PlansAreSound
  SkipsAreJustified
  WorkRestsOnItsNeeds
  ServicesAreHeld
PROPERTIES
  CachedMeansCurrent
