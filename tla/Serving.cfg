SPECIFICATION Spec
CONSTANTS
  Off = Off
  None = None
  Tabs = {t1, t2}
  MaxConns = 2
  ChanCap = 1
  MaxReloads = 3
  MaxBuilds = 3
  MaxFaults = 1
  MaxKills = 1
  MaxEdits = 2
  MaxFailures = 1
  Temp = TRUE
  Segments = {"a", "b"}
  SitePages <- MCSitePages
  DocPages <- MCDocPages
  HTML <- MCHTML
  Form <- MCForm
  VerifyExternalOnly = FALSE
  SkipEditLinks = TRUE
  Behaviours = {"ok", "gone", "headless", "busy", "private", "nomethod", "slow"}
  p1 = p1
  p2 = p2
  l1 = l1
  l2 = l2
  MaxConcurrent = 1
  CacheTTL = 1
  CacheTTLFailures = 2
  MaxTime = 3
  MaxEvents = 1
INVARIANTS
  CalmIsCurrent
  
PROPERTIES
  ConnectedShowsLatest
  SiteIsKept
  EditIsShown
  
CHECK_DEADLOCK FALSE
