\* One attachment, an automatic negotiation and a retry, two pieces of output and two of input.
SPECIFICATION FairSpec
CHECK_DEADLOCK FALSE
CONSTANTS
  Capacity = 1
  MaxAttempts = 2
  MaxOutput = 2
  MaxInput = 2
INVARIANTS
  InputInOrder
  PathsAgree
PROPERTIES
  OutputPiped
  HandoversEnd
