SPECIFICATION FairSpec
CONSTANTS
  r1 = r1
  r2 = r2
  r3 = r3
  Repos <- TwoRepos
  CloneWorkers = {c1}
  Strategy = "auto"
  HugoRuns = TRUE
  NoCommit = 0
  MaxCommit = 2
  MaxBuilds = 2
INVARIANT OutputIsWhole
INVARIANT OutputStays
INVARIANT PublishedIsFetched
PROPERTY BuildEnds
CHECK_DEADLOCK FALSE
