\* Cron mode under its own faults; the WAN never returns to an old address.
SPECIFICATION FairSpec
CONSTANTS
  Runs = {cron}
  IPs = {a, b, c}
  NoIP = NoIP
  Choices <- Detected
  Faults <- OwnFaults
  MaxMoves = 2
  MaxFaults = 3
INVARIANTS TypeOK
PROPERTIES SkipOnlyWhenPublished Converges
