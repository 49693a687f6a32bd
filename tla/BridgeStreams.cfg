\* One connection, three pieces of output and two of input, buffers of one piece.
SPECIFICATION FairSpec
CHECK_DEADLOCK FALSE
CONSTANTS
  Capacity = 1
  MaxOutput = 3
  MaxInput = 2
INVARIANTS
  InputIntact
PROPERTIES
  OutputPiped
  TargetReleased
