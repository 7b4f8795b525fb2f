CONSTANTS
  MaxIter = 2
  Payloads <- TwoWhole
  StackJunk <- ZeroJunk
  MaxFds = 8
  MaxThreads = 2
  RoutingTable <- EditedTable
  ServerAddresses <- EditedAddresses
  Reachable = {"127.0.0.1"}
  UnconnectedWriteKills = FALSE
SPECIFICATION Spec
INVARIANT HandlerOwnsItsMessage
CHECK_DEADLOCK FALSE
