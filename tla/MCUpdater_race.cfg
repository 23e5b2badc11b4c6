\* Two requests of serve mode around one WAN change, nothing fails.
SPECIFICATION Spec
CONSTANTS
  Runs = {r1, r2}
  IPs = {a, b}
  NoIP = NoIP
  Choices <- OnlyPlain
  Faults = {}
  MaxMoves = 1
  MaxFaults = 0
INVARIANTS NoCacheRace
