\* One run at a time, no fault between a publication and the truncation of the
\* cache file: the flow implements RecordCache.
SPECIFICATION Spec
CONSTANTS
  Runs = {cron}
  IPs = {a, b, c}
  NoIP = NoIP
  Choices <- AnyChoice
  Faults <- ReliableFaults
  MaxMoves = 3
  MaxFaults = 3
PROPERTIES ImplementsRecordCache DryRunNeverPublishes
