CONSTANTS
  a = a
  b = b
  NoPeer = NoPeer
  Client = {a, b}
  Program <- BothClient4
  Messages = 2
  Destinations = {1, 2}
  MaxIter = 2
  Payloads <- FromClient4
  StackJunk <- ZeroJunk
  MaxFds = 2
  MaxThreads = 8
  RoutingTable <- EditedTable
  ServerAddresses <- EditedAddresses
  Reachable = {"127.0.0.1"}
  UnconnectedWriteKills = TRUE
SPECIFICATION FairSystem
INVARIANTS SystemTypeOK GenuineIsAccepted NoPhantomMessage
PROPERTIES SentIsSettled ClientsEndWithoutRouter
CHECK_DEADLOCK FALSE
