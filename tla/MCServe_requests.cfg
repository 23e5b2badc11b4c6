\* Two requests of every kind, every fault and SIGTERM, fair handlers.
SPECIFICATION FairSpec
CONSTANTS
  Requests = {q1, q2}
  Inputs <- EveryKind
  Faults = {"wanip", "panic", "audit", "status"}
  Grace = 1
  MaxFailures = 1
  MaxTime = 1
  HandlerTimeout = 1
  Window = 1
  Lockout = 1
  MaxGuesses = 2
INVARIANTS TypeOK AuditInOrder LogTellsReply
PROPERTIES Answered Stops
CHECK_DEADLOCK FALSE
