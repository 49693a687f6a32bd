\* One client, whose cancelled recordings stay with the server until it learns of it: three
\* requests, room for two, and not for the bytes of two large ones.
SPECIFICATION FairSpec
CONSTANTS
  c1 = c1
  None = None
  Clients = {c1}
  MaxDictations = 3
  Requests <- MCRequests
  MaxUpload = 2
  MaxBytes = 3
  MaxAdmitted = 2
CHECK_DEADLOCK FALSE
INVARIANTS
  CapacityKept
PROPERTIES
  CancelledNotTranscribed
  UploadsAnswered
  MovesLegal
  OneStartHoldsTheMicrophone
  DictationsEnd
