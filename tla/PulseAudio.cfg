SPECIFICATION FairSpec
CONSTANTS
  Ports = {p}
  Null = Null
  RawVolumes <- NearVolumes
  MaxSinks = 2
INVARIANTS
  TypeOK
  ChangesReported
  HoldsLastSink
PROPERTY
  LoopsEnd
CHECK_DEADLOCK FALSE
