CONSTANTS
  Openings <- MCBytes
  Packets <- MCTypes
  MaxBytes = 5
  FLOATMAX = 4
SPECIFICATION Spec
INVARIANTS
  DistributionCountsAllBytes
  RunLengthsAreMaximalRuns
  UnitTestsHold
PROPERTY AnalysesExtend
