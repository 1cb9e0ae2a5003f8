CONSTANTS
  Clients = {c1, c2}
  HighToLow = HighToLow
  LowToHigh = LowToHigh
  Server = Server
  Sink = Sink
  Elsewhere = Elsewhere
  Port0 = Port0
  Setups <- RoutingSetups
  UINT32 = 5
  QueueCap = 2
SPECIFICATION Spec
SYMMETRY Symmetry
INVARIANTS
  TypeOK
  AlwaysListening
  ForwardsInOrder
  EngineHoldsDuePackets
  UpwardGoesToFirstCaller
  DiesOnlyWithoutCaller
  WildOnlyWithPortZero
