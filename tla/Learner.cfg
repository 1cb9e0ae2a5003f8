CONSTANTS
  NumMeans = 2
  UINT16 = 3
  Worker = Worker
  Nobody = Nobody
  IoThread = IoThread
  UINT32 = 3
  FLOATMAX = 4
  NUMTYPES = 3
  Packets <- MCPackets
  MaxPackets = 4
  m_MaxPacketsToObserve = 1
SPECIFICATION FairSpec
INVARIANTS
  DestroyedAlone
  ReportsPacketsUpToQuota
  MeansStayNumbers
PROPERTIES
  SettledStays
  ShutdownEnds
