\* Five pieces of output of three sizes, two streams that come and go, stops of every kind, and no room
\* for a completed run.
SPECIFICATION FairSpec
CONSTANTS
  r1 = r1  r2 = r2  r3 = r3  packages = packages  artifacts = artifacts
  k1 = k1  k2 = k2  s1 = s1  s2 = s2
  None = None
  Groups = {artifacts}
  Runs = {r1}
  Keys = {k1}
  Streams = {s1, s2}
  Finalizing = {artifacts}
  Times = {1}
  Sizes = {1, 2, 4}
  MaxConcurrent = 1
  MaxOutput = 3
  Retained = 0
  MaxWrites = 5
CHECK_DEADLOCK FALSE
INVARIANTS
  OutputBounded
  StreamsInformed
PROPERTIES
  StoppedRunEnds
