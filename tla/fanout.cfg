SPECIFICATION Spec
CONSTANTS
  Clients <- MCClients
  Vehicles <- MCVehicles
  NoClient = NoClient
INVARIANTS
  TypeOK
  NoLeakedClient
PROPERTIES
  StaysCurrent
  LoopGoesOn
  GoneClientsDropped
  CatchesUp
