SPECIFICATION Spec
CONSTANTS
  Off = Off
  None = None
  Invalid = Invalid
  Rejected = Rejected
  Authors = {a1, a2}
  MaxFaults = 1
  Paths <- MCPaths
  Trees <- MCTrees
  Sites <- MCSites
  ConfigFiles <- MCConfigFiles
  Setups <- MCSetups
  TemplateListings <- MCTemplateListings
  Settings <- MCSettings
  FirstDocs <- MCFirstDocs
  DocSlugs <- MCDocSlugs
  MaxInt = 31
  MaxBuilds = 2
  MaxDocs = 3
  DigitsEnd = 3
  MaxSequenceFiles = 2
SYMMETRY Symmetry
INVARIANTS
  LinksFollow
  DocumentsKept
  
  
  
PROPERTIES
  
  AcceptedIsUsable
  
CHECK_DEADLOCK FALSE
