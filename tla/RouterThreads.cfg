CONSTANTS
  MaxIter = 2
  Payloads <- WholeAndCut
  StackJunk <- ZeroJunk
  MaxFds = 8
  MaxThreads = 8
  RoutingTable <- ShippedTable
  ServerAddresses <- ShippedAddresses
  Reachable = {}
  UnconnectedWriteKills = TRUE
SPECIFICATION ThreadsSpec
INVARIANTS ThreadsTypeOK ResultsAreMixtures
PROPERTIES ImplementsRouter ImplementsRacyChecksum
CHECK_DEADLOCK FALSE
