CONSTANTS
  NumArgs = 2
  NumMeans = 4
  UINT16 = 65536
  Vectors = {}
  MaxPoints = 5
SPECIFICATION TestSpec
INVARIANT RequiresHold
