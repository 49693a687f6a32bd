\* One client follows three revisions; the stream breaks once, or something is staged or marked.
SPECIFICATION FairSpec
CONSTANTS
  c1 = c1  c2 = c2
  None = None
  Clients = {c1}
  MaxOperation = 3
  MaxCalls = 2
  MaxIncidents = 1
CHECK_DEADLOCK FALSE
INVARIANTS
  TypeOK
PROPERTIES
  StreamsCatchUp
  FilesObserved
