SPECIFICATION Spec
CONSTANTS
  Off = Off
  None = None
  Unknown = Unknown
  loop = loop
  api = api
  hub = hub
  lab = lab
  tea = tea
  qa = qa
  qb = qb
  ra = ra
  rb = rb
  rc = rc
  pa = pa
  pb = pb
  pc1 = pc1
  pd = pd
  Runs = {loop, api}
  Loop = loop
  Forges = {hub, lab, tea}
  Type <- MCType
  Configured = {tea}
  Repos = {qa, qb, ra, rb, rc}
  ForgeOf <- MCForgeOf
  PageSize = 1
  Required = TRUE
  Setups <- MCSetups
  MaxChanges = 1
  Deliveries = {w1}
  Main = main
  Other = other
  Secret = {hub, tea}
  BaseURL = {hub, tea}
  Pushed = {pa, pb, pc1, pd}
  Host <- MCHost
  Path <- MCPath
  MaxTicks = 3
  MaxResults = 2
  Commits = {"c1", "c2", "c3", "c4"}
  Parent <- MCParent
  First = "c1"
  Pins = {"c2"}
  MaxRetries = 1
  Depth = 1
  MaxPushes = 2
  MaxKills = 1
  MaxErrors = 2
INVARIANTS
  RemovalIsReal
PROPERTIES
  WantedIsTracked
  WebhookIsDecided
  
CHECK_DEADLOCK FALSE
