CONSTANTS
  NumArgs = 1
  NumMeans = 2
  UINT16 = 16
  Submitters = {s1}
  Vectors <- MCVectors
  MaxSubmits = 3
  Worker = Worker
  Nobody = Nobody
SPECIFICATION Spec
INVARIANT MeansAreNumbers
