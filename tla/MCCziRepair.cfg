CONSTANTS
  Count = 3
  JpgXr <- MCJpgXr
  BitmapSize <- MCBitmapSize
  FirstDimension <- MCFirstDimension
  Documents <- MCDocuments
  MaxRuns = 2
SPECIFICATION Spec
CHECK_DEADLOCK FALSE
INVARIANTS
  TypeOK
  DirectoryRepaired
  SegmentsRepaired
PROPERTY NeverHarms
