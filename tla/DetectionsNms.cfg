SPECIFICATION Spec
CONSTANTS
  Sizes <- TwoSizes
  Objects <- SixObjects
  MaxSeen = 2
  MaxRows = 2
CHECK_DEADLOCK FALSE
INVARIANT OnlyOverlapsSuppressed
