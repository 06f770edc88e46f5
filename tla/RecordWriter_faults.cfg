SPECIFICATION FairSpec
CONSTANTS
  Note <- TwoNotes
  Intent <- OneIntent
  Threats <- AllThreats
  MaxRetries = 2
  MaxFaults = 1
  MaxForces = 1
INVARIANTS
  TypeOK
  IntentsTellTheTruth
  EndingsAreTruthful
PROPERTIES
  SettledRunsStandStill
  OwnerStops
