CONSTANTS
  MaxIter = 3
  Payloads <- SafetyPayloads
  StackJunk <- SomeJunk
  MaxFds = 2
  MaxThreads = 2
  RoutingTable <- EditedTable
  ServerAddresses <- EditedAddresses
  Reachable = {"127.0.0.1"}
  UnconnectedWriteKills = FALSE
SPECIFICATION Spec
INVARIANTS TypeOK NothingOlder OverrunsOnlyUnterminated ExactWhenUndisturbed NoHandlerLeak DiesOnlyAtCapacity
CHECK_DEADLOCK FALSE
