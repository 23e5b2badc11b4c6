\* Two overlapping runs and every fault.
SPECIFICATION Spec
CONSTANTS
  Runs = {r1, r2}
  IPs = {a, b}
  NoIP = NoIP
  Choices <- Detected
  Faults <- FaultKinds
  MaxMoves = 2
  MaxFaults = 2
SYMMETRY Addresses
INVARIANTS HonestReport CacheNeverInvents
