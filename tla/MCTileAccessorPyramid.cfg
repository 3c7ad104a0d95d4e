SPECIFICATION Spec
CONSTANTS
  Entries <- MCEntries
  MaxKeys = 2
  MaxRecreations = 1
  Requests <- MCRequests
INVARIANT PyramidCountsTheEntries
CHECK_DEADLOCK FALSE
