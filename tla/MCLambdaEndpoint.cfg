\* 60 s of cache and a timeout of 10 s, scaled down to 2 ticks and 1.
SPECIFICATION Spec
CONSTANTS
  c1 = c1
  c2 = c2
  Sandboxes = {c1, c2}
  Ttl = 2
  Timeout = 1
  Requests <- MCRequests
  MaxTime = 4
  MaxSecrets = 2
SYMMETRY SandboxSymmetry
INVARIANTS TypeOK VerdictIsRecent ReplyTellsRecord
