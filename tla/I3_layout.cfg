SPECIFICATION Spec
CONSTANTS
  NumOutputs = 2
  NumWorkspaces = 3
  Windows = {w1, w2}
  None = None
  Null = Null
  Dangling = Dangling
  HiddenMoves = FALSE
  Urgency = TRUE
  Arrivals <- SomeArrivals
  MaxEvents = 4
INVARIANTS
  TypeOK
  InStepWhenDrained
  PointersLive
  OutputsLeftToRight
PROPERTY
  FreshEventsApply
SYMMETRY WindowSymmetry
CHECK_DEADLOCK FALSE
