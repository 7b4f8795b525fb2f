CONSTANTS
  Amounts = {1, 2, 3, 4, 5}
  Contents = {5}
  Destinations = {1, 2, 3}
  MaxRuns = 4
  MaxFds = 4
  NoLine = NoLine
SPECIFICATION FairSpec
INVARIANTS TypeOK OneConversation OnlyRoutersLeak RoutersBeforeClients ConnectFindsDescriptor WaitsForSomebody
PROPERTIES ImplementsRelay RunsComplete
CHECK_DEADLOCK FALSE
