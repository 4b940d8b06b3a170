SPECIFICATION Spec
CONSTANTS
  Loop = Loop
  Importer = Importer
  Planners <- MCPlanners
  Viewers <- MCViewers
  MaxFeeds = 1
  None = None
INVARIANTS
  TypeOK
  OneFeed
  PositionsOfFeed
PROPERTIES
  StoredAtomically
  RequestsEnd
  ImportsEnd
