CONSTANTS
  NumArgs = 1
  NumMeans = 2
  UINT16 = 3
  Submitters = {s1, s2}
  Vectors <- MCVectors
  MaxSubmits = 4
  Worker = Worker
  Nobody = Nobody
SPECIFICATION Spec
SYMMETRY Symmetry
INVARIANTS
  TypeOK
  SnapshotStable
  MeansComplete
  IndexIdentifiesSubmission
  NoLostWakeup
  StopIsHeard
  NothingUnseenAtRest
  SeenEnoughInitialised
  AssignedToNearest
  NoAbort
PROPERTY ImplementsEngine
