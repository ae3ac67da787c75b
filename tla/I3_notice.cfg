SPECIFICATION Spec
CONSTANTS
  NumOutputs = 1
  NumWorkspaces = 2
  Windows = {w1}
  None = None
  Null = Null
  Dangling = Dangling
  HiddenMoves = FALSE
  Urgency = FALSE
  Arrivals = {}
  MaxEvents = 3
INVARIANT
  UpdateFailureIsReported
CHECK_DEADLOCK FALSE
