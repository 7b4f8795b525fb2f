CONSTANTS
  Sources = {49, 50, 51, 52}
  Targets = {49, 50, 51, 52}
  Data = {49, 53, 58}
SPECIFICATION ChecksumSpec
INVARIANT WrongChecksumIsRejected
CHECK_DEADLOCK FALSE
