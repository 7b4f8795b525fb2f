CONSTANTS
  p = p
  s = s
  NoPeer = NoPeer
  Process = {p, s}
  Short = {s}
  Rounds = 2
  MaxFds = 2
  MaxThreads = 3
SPECIFICATION Spec
INVARIANTS TypeOK OwnDescriptor NoDescriptorLeak WaitsForAnswer
PROPERTIES ImplementsService AskedIsAnswered
CHECK_DEADLOCK FALSE
