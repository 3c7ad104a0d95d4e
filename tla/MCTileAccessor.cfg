SPECIFICATION Spec
CONSTANTS
  Entries <- MCEntries
  MaxKeys = 3
  MaxRecreations = 1
  Requests <- MCRequests
INVARIANTS
  TypeOK
  StatisticsAreOfTheEntries
  PyramidMissesNothing
  PlanesAreOfTheEntries
  SplittersAreDisjoint
  CoverageIsOfTheTiles
  ComposesTheLayerAbove
  ShowsTheHighestMIndex
  SameAsWithoutOptimization
PROPERTY
  AddRectangleEnds
CHECK_DEADLOCK FALSE
