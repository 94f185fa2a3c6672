SPECIFICATION Spec
CONSTANTS
  Images <- LayoutImages
  MaxRuns = 1
  IntRange = 16
  Top = 31
INVARIANT
  ParentIsOwnBlock
CHECK_DEADLOCK FALSE
