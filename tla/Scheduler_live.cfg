SPECIFICATION FairSpec
CONSTANTS
  N = 3
  Plans <- SmallPlans
INVARIANTS
  TypeOK
  LaunchesAreDue
  NothingIsForgotten
  EndingsAddUp
  SuspendedRunsKeepTheirWork
PROPERTIES
  OutcomesStand
  ImplementsTaskGraph
