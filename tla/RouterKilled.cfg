CONSTANTS
  MaxIter = 2
  Payloads <- AllPayloads
  StackJunk <- SomeJunk
  MaxFds = 8
  MaxThreads = 8
  RoutingTable <- ShippedTable
  ServerAddresses <- ShippedAddresses
  Reachable = {}
  UnconnectedWriteKills = TRUE
SPECIFICATION Spec
INVARIANT ConnectFailureIsContained
CHECK_DEADLOCK FALSE
