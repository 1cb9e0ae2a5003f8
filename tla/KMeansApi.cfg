CONSTANTS
  NumArgs = 2
  NumMeans = 3
  UINT16 = 16
  Vectors <- MCVectors
  MaxPoints = 4
SPECIFICATION Spec
INVARIANT TypeOK
PROPERTIES
  CostDescends
  EmptyMeanStaysEmpty
  NaNFirstMeanCollapses
