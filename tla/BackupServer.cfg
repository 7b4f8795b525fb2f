CONSTANTS
  p = p
  q = q
  s = s
  NoPeer = NoPeer
  Process = {p, q, s}
  Short = {s}
  Rounds = 2
  Loop = 1
SPECIFICATION Spec
INVARIANTS TypeOK OnlyLastIsCut
PROPERTIES ImplementsService AcceptedAreAnswered LeftOversAreReleased
CHECK_DEADLOCK FALSE
