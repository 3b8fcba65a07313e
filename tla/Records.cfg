SPECIFICATION Spec
CONSTANTS
  Repos = {r1}
  StateBuilds = {b1, b2}
  Schedules = {s1}
  Callers = {c1, c2}
  None = None
  KeepBuilds = 1
  MaxWrites = 4
  Builds = {j1, j2, j3}
  Workers = 2
  MaxHistory = 2
  MaxTime = 1
  MaxRestarts = 1
  MaxLost = 1
  Configs = {f1, f2}
  Versions = {v1, v2}
  Trees = {t1, t2}
  Nothing = Nothing
  MaxRuns = 3
  MaxReopens = 2
  Off = Off
SYMMETRY Symmetry
INVARIANTS
  RemovedStaysRemoved
  SavedAsReported
  
  
CHECK_DEADLOCK FALSE
