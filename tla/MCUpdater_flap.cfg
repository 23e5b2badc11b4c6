\* Cron mode, one crash, and a WAN that returns to an old address.
SPECIFICATION FairSpec
CONSTANTS
  Runs = {cron}
  IPs = {a, b}
  NoIP = NoIP
  Choices <- OnlyPlain
  Faults <- CrashAndFlap
  MaxMoves = 2
  MaxFaults = 1
PROPERTIES Converges
