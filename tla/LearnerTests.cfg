CONSTANTS
  Clients = {c1}
  HighToLow = HighToLow
  LowToHigh = LowToHigh
  Server = Server
  Sink = Sink
  Elsewhere = Elsewhere
  Port0 = Port0
  Setups <- Tests
  UINT32 = 65536
  QueueCap = 25
SPECIFICATION FairSpec
INVARIANT RequirementsHold
PROPERTY WorkedOff
