\* A hand-over that meets the bound of its buffer: is the SSH byte stream complete?
SPECIFICATION Spec
CHECK_DEADLOCK FALSE
CONSTANTS
  Capacity = 1
  MaxOutput = 3
  MaxInput = 0
INVARIANTS
  OutputComplete
