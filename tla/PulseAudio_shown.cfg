SPECIFICATION FairSpec
CONSTANTS
  Ports = {p}
  Null = Null
  RawVolumes <- NearVolumes
  MaxSinks = 2
INVARIANT
  ListedVolumeIsShown
CHECK_DEADLOCK FALSE
