CONSTANTS
  HeaderSize = 2
  Types = {event, reply}
  MaxPayload = 1
  Capacity = 3
  MaxPackets = 2
SPECIFICATION Spec
CHECK_DEADLOCK FALSE
INVARIANT WriterSurvivesPeer
