CONSTANTS
  NumArgs = 2
  NumMeans = 2
  UINT16 = 16
  Submitters = {s1}
  Vectors <- MCHistograms
  MaxSubmits = 4
  Worker = Worker
  Nobody = Nobody
SPECIFICATION Spec
INVARIANT AssignedToNearest
