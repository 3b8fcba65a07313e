SPECIFICATION FairSpec
CONSTANTS
  JobIDs = {j1}
  NoJob = NoJob
  Repos = {}
  Commits = {c1}
  NoCommit = NoCommit
  QuietWindow = 2
  MaxDelay = 3
  PollInterval = 1
  ReqBuffer = 1
  NowBuffer = 1
INVARIANT FollowUpIsPolled
INVARIANT MaxDelayMeasuresBatch
PROPERTY CannotPostponeIndefinitely
CHECK_DEADLOCK FALSE
