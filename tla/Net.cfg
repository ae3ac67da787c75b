SPECIFICATION Spec
CONSTANTS
  eth = eth
  wlan = wlan
  Interfaces = {eth, wlan}
  Wireless = {wlan}
  Families <- OneFamily
  Addresses = {a}
  NoAddress = NoAddress
  Links = {l}
  Cooldown <- Cooldowns
  CheckCooldown <- ChecksApart
  Gap <- OneMore
  Never = 11
INVARIANTS
  TypeOK
  ChangesReported
  NothingOutdated
  FlagsSetSocketsClosed
