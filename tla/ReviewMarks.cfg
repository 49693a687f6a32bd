\* One client and a client of another server mark two files, one of which may change; writes may fail.
SPECIFICATION FairSpec
CONSTANTS
  c1 = c1  c2 = c2  f1 = f1  f2 = f2
  None = None
  Clients = {c1}
  Files = {f1, f2}
  MaxContent = 1
  MaxIncidents = 3
CHECK_DEADLOCK FALSE
INVARIANTS
  TypeOK
PROPERTIES
  RefreshedMarksMade
  MarksConverge
