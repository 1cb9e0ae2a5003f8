CONSTANTS
  Clients = {c1}
  HighToLow = HighToLow
  LowToHigh = LowToHigh
  Server = Server
  Sink = Sink
  Elsewhere = Elsewhere
  Port0 = Port0
  Setups <- LateSendSetups
  UINT32 = 65536
  QueueCap = 5
SPECIFICATION Spec
INVARIANT RoundTripComplete
