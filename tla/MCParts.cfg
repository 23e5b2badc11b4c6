\* Every network, view, zone and caller of MCParts; two writers of the audit log,
\* of which two lines make a log that is rotated.
SPECIFICATION Spec
CONSTANTS
  Ifaces <- MCIfaces
  Networks <- MCNetworks
  Answers <- MCAnswers
  Views <- MCViews
  Names <- MCNames
  Values <- MCValues
  Tokens <- MCTokens
  Peers <- MCPeers
  Lists <- MCLists
  MaxChanges = 2
  Writers = {server, command}
  MaxSize = 2
  MaxLines = 6
  MaxFails = 1
INVARIANTS TypeOK NothingReserved OnDefaultRoute HardwareSuffices NoStranger UdmAlwaysOpens
INVARIANTS ReadsRecord AllowedIffInRange RecentKept OwnOrder SizeBounded
CHECK_DEADLOCK FALSE
