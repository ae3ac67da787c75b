\* No header fits the buffer of the kernel; payloads are empty, shorter than the
\* buffer, and as long.
CONSTANTS
  HeaderSize = 3
  Types = {event, reply}
  MaxPayload = 2
  Capacity = 2
  MaxPackets = 3
SPECIFICATION FairSpec
CHECK_DEADLOCK FALSE
INVARIANTS TypeOK PacketsArriveWhole InvalidMeansEnd
PROPERTIES ImplementsChannel SentArrives
