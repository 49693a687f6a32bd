\* A file changes while the user removes its mark.
SPECIFICATION Spec
CONSTANTS
  c1 = c1  c2 = c2  f1 = f1  f2 = f2
  None = None
  Clients = {c1}
  Files = {f1}
  MaxContent = 1
  MaxIncidents = 2
CHECK_DEADLOCK FALSE
INVARIANTS
  ContentChangeClearsMark
