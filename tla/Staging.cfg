\* Two servers stage over one repository with an editor, another Git client and a crash.
SPECIFICATION Spec
CONSTANTS
  r1 = r1  r2 = r2  r3 = r3  s1 = s1  s2 = s2  f1 = f1  f2 = f2
  None = None  External = External
  Files = {f1, f2}
  Requests = {r1, r2}
  Servers = {s1, s2}
  Kinds <- Staging
  MaxContent = 2
  MaxCommits = 1
  MaxStash = 0
  MaxExternal = 1
  MaxCrashes = 1
  EditorMayRevert = FALSE
  StatusMayFail = FALSE
SYMMETRY MCSymmetry
CHECK_DEADLOCK FALSE
INVARIANTS
  TypeOK
  StagingHoldsLock
  LockReturned
  SerialPerServer
PROPERTIES
  NoLostIndexUpdate
  StaleStagingRejected
  AcceptedContentStaged
