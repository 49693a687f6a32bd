\* One server performs every mutation, with a crash and failing status reads: what its Git
\* commands run on, and the fate of its requests and of the user's work.  Unstaging is in Staging.cfg.
SPECIFICATION FairSpec
CONSTANTS
  r1 = r1  r2 = r2  r3 = r3  s1 = s1  s2 = s2  f1 = f1  f2 = f2
  None = None  External = External
  Files = {f1}
  Requests = {r1, r2}
  Servers = {s1}
  Kinds <- MostKinds
  MaxContent = 2
  MaxCommits = 2
  MaxStash = 1
  MaxExternal = 0
  MaxCrashes = 1
  EditorMayRevert = FALSE
  StatusMayFail = TRUE
CHECK_DEADLOCK FALSE
PROPERTIES
  WorkKept
  EveryCallAnswered
  GitRunsOnAcceptedIndex
