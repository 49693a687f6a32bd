\* One server, restarted after a crash, builds one artifact three times and removes it.
SPECIFICATION FairSpec
CONSTANTS
  r1 = r1  r2 = r2  r3 = r3  a1 = a1  a2 = a2  s1 = s1  s2 = s2
  None = None  Removed = Removed
  Servers = {s1}
  Artifacts = {a1}
  Runs = {r1, r2, r3}
  MaxRetained = 2
  MaxRevision = 2
  MaxCrashes = 1
  MaxErrors = 1
CHECK_DEADLOCK FALSE
INVARIANTS
  BuildsHavePayload
  PayloadsAccounted
PROPERTIES
  HistoryKept
  RemovedArtifactsGone
