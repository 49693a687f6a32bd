\* Package scripts and artifact commands of one repository share two places,
\* and there is room for one completed run.
SPECIFICATION Spec
CONSTANTS
  r1 = r1  r2 = r2  r3 = r3  packages = packages  artifacts = artifacts
  k1 = k1  k2 = k2  s1 = s1  s2 = s2
  None = None
  Groups = {packages, artifacts}
  Runs = {r1, r2, r3}
  Keys = {k1, k2}
  Streams = {}
  Finalizing = {artifacts}
  Times = {1, 2}
  Sizes = {1}
  MaxConcurrent = 2
  MaxOutput = 1
  Retained = 1
  MaxWrites = 0
CHECK_DEADLOCK FALSE
SYMMETRY MCSymmetry
INVARIANTS
  AdmissionHolds
  ProcessesOwned
  StopWins
  NewestRetained
