CONSTANTS
  NumArgs = 2
  NumMeans = 2
  UINT16 = 16
  Submitters = {s1, s2}
  Vectors <- MCRunLengths
  MaxSubmits = 3
  Worker = Worker
  Nobody = Nobody
SPECIFICATION FairSpec
PROPERTIES
  StopJoins
  EverySubmissionSeen
  ImplementsFairEngine
