SPECIFICATION QueueSpec
CONSTANTS
  j1 = j1
  j2 = j2
  j3 = j3
  Jobs <- ThreeJobs
  JobID <- MCJobID
  NoJob = NoJob
  Workers = {w1, w2}
  Nobody = Nobody
  MaxSize = 1
  HistorySize = 1
  MaxRetries = 1
  ReportsErrors = FALSE
INVARIANT TransientIsRetried
CHECK_DEADLOCK FALSE
