SPECIFICATION Spec
CONSTANTS
  Loop = Loop
  Importer = Importer
  Planners <- MCPlanners
  Viewers <- MCViewers
  MaxFeeds = 1
  None = None
PROPERTY SimulationGoesOn
