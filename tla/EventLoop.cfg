SPECIFICATION FairSpec
CONSTANTS
  NumItems = 2
  EventItems <- BothEvents
  Cooldown <- SlowThenFast
  ShowFailed <- FirstHides
  v1 = v1
  v2 = v2
  Shows <- OneTwo
  Never = 7
  MaxWork = 1
  MaxPending = 2
  MaxBurst = 1
INVARIANTS
  TypeOK
  AsleepShowsModel
  BoundedStaleness
  ForcedRoundReadsAll
PROPERTIES
  ImplementsStatusBar
  TerminationServed
  ForceServed
  SocketServed
CHECK_DEADLOCK FALSE
