SPECIFICATION FairSpec
CONSTANTS
  NumOutputs = 1
  NumWorkspaces = 2
  Windows = {w1, w2}
  None = None
  Null = Null
  Dangling = Dangling
  HiddenMoves = TRUE
  Urgency = FALSE
  Arrivals = {}
  MaxEvents = 4
PROPERTY
  HealsWhenQuiet
  UpdateRepairs
CHECK_DEADLOCK FALSE
