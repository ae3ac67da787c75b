SPECIFICATION FairSpec
CONSTANTS
  NumItems = 2
  EventItems <- OnlyEvents
  Cooldown <- EveryTick
  ShowFailed <- FirstHides
  v1 = v1
  v2 = v2
  Shows <- OneEach
  Never = 3
  MaxWork = 0
  MaxPending = 2
  MaxBurst = 2
PROPERTY
  SleepsWhenQuiet
CHECK_DEADLOCK FALSE
