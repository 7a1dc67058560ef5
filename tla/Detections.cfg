SPECIFICATION Spec
CONSTANTS
  Sizes <- TwoSizes
  Objects <- SixObjects
  MaxSeen = 3
  MaxRows = 2
CHECK_DEADLOCK FALSE
INVARIANTS DetTypeOK SizeIsTheFrames RowsPlaceObjects BestAreReported
