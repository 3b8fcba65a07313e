SPECIFICATION Spec
CONSTANTS
  t1 = t1
  t2 = t2
  t3 = t3
  r1 = r1
  Triggers <- MCTriggers
  Kind <- MixedKinds
  Target <- MCTarget
  NoJob = NoJob
  Repos <- MCRepos
  NoCommit = 0
  MaxCommit = 2
  CachedHead <- MCCachedHead
  Workers = {w1}
  QuietWindow = 1
  MaxDelay = 1
  PollInterval = 1
  ReqBuffer = 2
  NowBuffer = 1
CHECK_DEADLOCK FALSE
INVARIANT TriggerIsCovered
PROPERTY Coalesces
