SPECIFICATION Spec
CONSTANTS
  Clients <- MCClients
  Vehicles <- MCVehicles
  NoClient = NoClient
PROPERTY BroadcastReachesAll
